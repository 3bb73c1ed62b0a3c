---------------------------- MODULE MaxLinkProofs ----------------------------
(***************************************************************************)
(* Proofs about the message link, for every number of senders, every       *)
(* message, every Overflow, buffer size and checksum.                      *)
(*                                                                         *)
(* On any line, with any faults: of data without NUL, the packets written  *)
(* are the messages, piece by piece (SenderTheorem), and delimit them      *)
(* (PacketsTheorem); the receiver never believes more to be left than      *)
(* there is (CountTheorem); the caller's data are those of the packet      *)
(* accepted last (DataTheorem).                                            *)
(* While no fault has happened and nobody has asked for bytes that begin   *)
(* or end a frame (Plain): what is accepted is what was sent, in order,    *)
(* none twice (CallerTheorem, FaultlessTheorem, LinkTheorem).  That the    *)
(* checksum finds the faults there may be is nothing that holds for all of *)
(* them, and stays with TLC.                                               *)
(***************************************************************************)
EXTENDS MaxLink, SequenceTheorems, WellFoundedInduction, TLAPS

-----------------------------------------------------------------------------
(* Sequences                                                               *)

\* A set of numbers that is not empty has a least member: what stands for
\* induction here, of the smallest counterexample.
LEMMA LeastNumber ==
  ASSUME NEW S, S \subseteq Nat, S # {}
  PROVE  \E n \in S : \A m \in S : n <= m
<1>1. \E x \in S : \A y \in S : ~ (<<y, x>> \in OpToRel(<, Nat))
  BY NatLessThanWellFounded, WFMin
<1>2. PICK x \in S : \A y \in S : ~ (<<y, x>> \in OpToRel(<, Nat))
  BY <1>1
<1>3. ASSUME NEW y \in S PROVE x <= y
  <2>1. x \in Nat /\ y \in Nat
    OBVIOUS
  <2>2. ~ (y < x)
    BY <1>2, <2>1, Zenon DEF OpToRel
  <2> QED BY <2>1, <2>2
<1> QED BY <1>3

\* What FlattenSeq builds of the first n members.
IsFlat(ss, n, g) == g = [i \in 1..n |-> IF i = 1 THEN ss[i] ELSE g[i - 1] \o ss[i]]

\* What is built of the first members depends on no others.
LEMMA FlatsAgree ==
  ASSUME NEW ss, NEW tt, NEW m \in Nat, NEW n \in Nat, m <= n, \A i \in 1..m : ss[i] = tt[i],
         NEW g, IsFlat(ss, m, g), NEW h, IsFlat(tt, n, h)
  PROVE  \A i \in 1..m : g[i] = h[i]
<1> DEFINE B == {i \in Nat : i \in 1..m /\ g[i] # h[i]}
<1> SUFFICES ASSUME B # {} PROVE FALSE
  OBVIOUS
<1>1. PICK i \in B : \A j \in B : i <= j
  BY LeastNumber
<1>2. i \in 1..m /\ i \in 1..n /\ g[i] # h[i]
  BY <1>1
<1>3. /\ g[i] = IF i = 1 THEN ss[i] ELSE g[i - 1] \o ss[i]
      /\ h[i] = IF i = 1 THEN tt[i] ELSE h[i - 1] \o tt[i]
  BY <1>2 DEF IsFlat
<1>4. i # 1 /\ i - 1 \in 1..m /\ ss[i] = tt[i]
  BY <1>2, <1>3
<1>5. g[i - 1] = h[i - 1]
  BY <1>1, <1>2, <1>4
<1> QED BY <1>2, <1>3, <1>4, <1>5

\* It exists for every number of members.
LEMMA FlatExists ==
  ASSUME NEW ss
  PROVE  \A n \in Nat : \E g : IsFlat(ss, n, g)
<1> DEFINE Has(n) == \E g : IsFlat(ss, n, g)
           B == {n \in Nat : ~ Has(n)}
<1> SUFFICES ASSUME B # {} PROVE FALSE
  OBVIOUS
<1>1. PICK n \in B : \A j \in B : n <= j
  BY LeastNumber
<1>2. n \in Nat /\ ~ Has(n)
  BY <1>1
<1>3. IsFlat(ss, 0, <<>>)
  BY DEF IsFlat
<1>4. n # 0
  BY <1>2, <1>3
<1>5. n - 1 \in Nat /\ ~ (n - 1 \in B)
  BY <1>1, <1>2, <1>4
<1>6. PICK g : IsFlat(ss, n - 1, g)
  BY <1>5
<1> DEFINE h == [i \in 1..n |-> IF i # n THEN g[i]
                                ELSE IF n = 1 THEN ss[n] ELSE g[n - 1] \o ss[n]]
<1>7. \A i \in 1..n : h[i] = IF i = 1 THEN ss[i] ELSE h[i - 1] \o ss[i]
  <2> TAKE i \in 1..n
  <2>1. CASE i = n
    <3>1. h[n] = IF n = 1 THEN ss[n] ELSE g[n - 1] \o ss[n]
      BY <1>2, <1>4
    <3>2. n # 1 => h[n - 1] = g[n - 1]
      BY <1>2, <1>4
    <3> QED BY <2>1, <3>1, <3>2
  <2>2. CASE i # n
    <3>1. i \in 1..(n - 1)
      BY <1>2, <2>2
    <3>2. g[i] = IF i = 1 THEN ss[i] ELSE g[i - 1] \o ss[i]
      BY <1>6, <3>1 DEF IsFlat
    <3>3. h[i] = g[i] /\ (i # 1 => h[i - 1] = g[i - 1])
      BY <1>2, <2>2, <3>1
    <3> QED BY <3>2, <3>3
  <2> QED BY <2>1, <2>2
<1>8. IsFlat(ss, n, h)
  <2>1. h = [i \in 1..n |-> h[i]]
    OBVIOUS
  <2> HIDE DEF h
  <2> QED BY <1>7, <2>1 DEF IsFlat
<1> QED BY <1>2, <1>8

\* Joined sequences over S are sequences over S.
LEMMA FlatType ==
  ASSUME NEW S, NEW n \in Nat, NEW ss, \A i \in 1..n : ss[i] \in Seq(S), NEW g, IsFlat(ss, n, g)
  PROVE  \A i \in 1..n : g[i] \in Seq(S)
<1> DEFINE B == {i \in Nat : i \in 1..n /\ ~ (g[i] \in Seq(S))}
<1> SUFFICES ASSUME B # {} PROVE FALSE
  OBVIOUS
<1>1. PICK i \in B : \A j \in B : i <= j
  BY LeastNumber
<1>2. i \in 1..n /\ ~ (g[i] \in Seq(S)) /\ ss[i] \in Seq(S)
  BY <1>1
<1>3. g[i] = IF i = 1 THEN ss[i] ELSE g[i - 1] \o ss[i]
  BY <1>2 DEF IsFlat
<1>4. i # 1 /\ i - 1 \in 1..n
  BY <1>2, <1>3
<1>5. g[i - 1] \in Seq(S)
  BY <1>1, <1>2, <1>4
<1>6. g[i - 1] \o ss[i] \in Seq(S)
  BY <1>2, <1>5, ConcatProperties
<1> QED BY <1>2, <1>3, <1>4, <1>6

\* FlattenSeq takes the last of them.
LEMMA FlattenIs ==
  ASSUME NEW ss, NEW n \in Nat, Len(ss) = n, n # 0
  PROVE  \E g : IsFlat(ss, n, g) /\ FlattenSeq(ss) = g[n]
<1> DEFINE g == CHOOSE h : IsFlat(ss, n, h)
<1>1. IsFlat(ss, n, g)
  BY FlatExists
<1>2. FlattenSeq(ss) = g[n]
  BY DEF FlattenSeq, IsFlat
<1> QED BY <1>1, <1>2

\* One more member is one more piece at the end.
LEMMA FlattenAppend ==
  ASSUME NEW S, NEW ss \in Seq(Seq(S)), NEW t \in Seq(S)
  PROVE  /\ FlattenSeq(ss) \in Seq(S)
         /\ FlattenSeq(Append(ss, t)) = FlattenSeq(ss) \o t
<1> DEFINE n == Len(ss)  m == n + 1  tt == Append(ss, t)
<1>1. /\ n \in Nat /\ Len(tt) = m /\ m \in Nat /\ m # 0 /\ m - 1 = n /\ n <= m /\ m \in 1..m
      /\ \A i \in 1..n : ss[i] \in Seq(S) /\ tt[i] = ss[i]
      /\ tt[m] = t
  BY AppendProperties, ElementOfSeq, LenProperties
<1> HIDE DEF tt, m, n
<1>2. PICK h : IsFlat(tt, m, h) /\ FlattenSeq(tt) = h[m]
  BY <1>1, FlattenIs
<1>3. h[m] = IF m = 1 THEN t ELSE h[m - 1] \o t
  BY <1>1, <1>2 DEF IsFlat
<1>4. CASE n = 0
  <2>1. ss = <<>>
    BY <1>4, EmptySeq DEF n
  <2>2. FlattenSeq(ss) = <<>>
    BY <2>1 DEF FlattenSeq
  <2>3. <<>> \o t = t /\ <<>> \in Seq(S)
    BY ConcatEmptySeq, EmptySeq
  <2> QED BY <1>1, <1>2, <1>3, <1>4, <2>2, <2>3 DEF tt
<1>5. CASE n # 0
  <2>1. PICK g : IsFlat(ss, n, g) /\ FlattenSeq(ss) = g[n]
    BY <1>1, <1>5, FlattenIs DEF n
  <2>2. g[n] \in Seq(S)
    <3>1. \A i \in 1..n : g[i] \in Seq(S)
      BY <1>1, <2>1, FlatType
    <3>2. n \in 1..n
      BY <1>1, <1>5
    <3> QED BY <3>1, <3>2
  <2>3. g[n] = h[n]
    <3>1. \A i \in 1..n : g[i] = h[i]
      <4>1. n \in Nat /\ m \in Nat /\ n <= m /\ \A i \in 1..n : ss[i] = tt[i]
        BY <1>1
      <4>2. IsFlat(ss, n, g) /\ IsFlat(tt, m, h)
        BY <1>2, <2>1
      <4> QED BY <4>1, <4>2, FlatsAgree
    <3>2. n \in 1..n
      BY <1>1, <1>5
    <3> QED BY <3>1, <3>2
  <2>4. m # 1
    BY <1>1, <1>5
  <2> QED BY <1>2, <1>3, <2>1, <2>2, <2>3, <2>4, <1>1 DEF tt
<1> QED BY <1>4, <1>5

-----------------------------------------------------------------------------
(* Cutting up a message                                                    *)

\* What the assumption says of the constants, one by one.
LEMMA ConstantsOK ==
  /\ Overflow \in Nat /\ Overflow > 0 /\ BufSize \in Nat /\ BufSize > 1
  /\ Modulus \in Nat /\ Modulus > 1 /\ Tired \in Nat
BY LinkAssumption DEF END_MSG

\* A number that is in a set and below all the others is the least of it.
LEMMA MinIs ==
  ASSUME NEW S, S \subseteq Nat, NEW m \in S, \A x \in S : m <= x
  PROVE  Min(S) = m
<1>1. \A x \in S : (\A y \in S : x <= y) => x = m
  OBVIOUS
<1> QED BY <1>1 DEF Min

\* The smaller of two numbers.
LEMMA MinOfTwo ==
  ASSUME NEW x \in Int, NEW y \in Int
  PROVE  Min({x, y}) = IF x <= y THEN x ELSE y
<1> DEFINE m == IF x <= y THEN x ELSE y
<1>1. m \in {x, y} /\ \A z \in {x, y} : m <= z
  OBVIOUS
<1>2. \A z \in {x, y} : (\A w \in {x, y} : z <= w) => z = m
  OBVIOUS
<1> HIDE DEF m
<1>3. Min({x, y}) = m
  BY <1>1, <1>2 DEF Min
<1> QED BY <1>3 DEF m

\* There is another packet to come while more than Overflow bytes are left.
LEMMA LoopIs ==
  ASSUME NEW size \in Nat, NEW n \in Nat
  PROVE  n + 1 < Loop(size) <=> size - n * Overflow > Overflow
<1> DEFINE p == Overflow  q == size \div p  r == size % p
<1>1. p \in Int /\ p > 0
  BY ConstantsOK
<1> HIDE DEF p
<1>2. r = size - p * q /\ q \in Int /\ 0 <= r /\ r < p /\ q >= 0
  <2>1. \A a \in Nat : a % p = a - p * (a \div p)
    BY <1>1
  <2>2. q \in Int /\ r \in 0..(p - 1)
    BY <1>1
  <2>3. q >= 0
    BY <1>1
  <2> QED BY <1>1, <2>1, <2>2, <2>3
<1>3. Loop(size) = q + IF r # 0 \/ size = 0 THEN 1 ELSE 0
  BY DEF Loop, p
<1> HIDE DEF q, r
<1>4. size - n * p > p <=> p * (q - n - 1) + r > 0
  BY <1>1, <1>2
<1>5. CASE n >= q
  <2>1. p * (q - n - 1) <= -p
    <3>1. q - n - 1 <= -1
      BY <1>2, <1>5
    <3> QED BY <1>1, <1>2, <3>1
  <2>2. Loop(size) <= q + 1 /\ Loop(size) \in Int
    BY <1>2, <1>3
  <2> QED BY <1>1, <1>2, <1>4, <1>5, <2>1, <2>2 DEF p
<1>6. CASE n + 1 = q
  <2>1. q - n - 1 = 0 /\ p * 0 = 0
    BY <1>1, <1>2, <1>6
  <2>2. size # 0
    <3>1. q > 0
      BY <1>6
    <3>2. p * q > 0
      BY <1>1, <1>2, <3>1
    <3> QED BY <1>1, <1>2, <3>2
  <2> QED BY <1>1, <1>2, <1>3, <1>4, <1>6, <2>1, <2>2 DEF p
<1>7. CASE n + 1 < q
  <2>1. p * (q - n - 1) > 0
    <3>1. q - n - 1 > 0
      BY <1>2, <1>7
    <3> QED BY <1>1, <1>2, <3>1
  <2>2. Loop(size) >= q /\ Loop(size) \in Int
    BY <1>2, <1>3
  <2>3. p * (q - n - 1) + r > 0
    BY <1>1, <1>2, <2>1
  <2>4. n + 1 < Loop(size)
    BY <1>2, <1>7, <2>2
  <2> QED BY <1>4, <2>3, <2>4 DEF p
<1> QED BY <1>2, <1>5, <1>6, <1>7

\* A message that is being cut up, between two packets.
Job ==
  {o \in [busy : {TRUE}, data : Seq(Bytes), index : Nat, left : Int, count : Nat,
          dataStatus : FULL..END, dataSize : Nat] :
     /\ o.index = o.count * Overflow /\ o.left = Len(o.data) - o.index
     /\ o.left > 0 \/ o.count = 0
     /\ o.dataStatus = FULL  => o.count = 0 /\ o.left <= Overflow /\ o.dataSize = o.left
     /\ o.dataStatus = START => o.count = 0 /\ o.left > Overflow
     /\ o.dataStatus = CONT  => o.left > Overflow /\ o.dataSize = Overflow
     /\ o.dataStatus = END   => o.left <= Overflow /\ o.dataSize = o.left}

\* A message that is being cut up, field by field.
LEMMA JobFields ==
  ASSUME NEW o \in Job
  PROVE  /\ o.busy = TRUE /\ o.data \in Seq(Bytes) /\ o.index \in Nat /\ o.left \in Nat /\ o.count \in Nat
         /\ o.dataStatus \in FULL..END /\ o.dataSize \in Nat
         /\ o.index = o.count * Overflow /\ o.left = Len(o.data) - o.index /\ Len(o.data) \in Nat
         /\ o.index <= Len(o.data)
<1>1. /\ o.busy = TRUE /\ o.data \in Seq(Bytes) /\ o.index \in Nat /\ o.left \in Int /\ o.count \in Nat
      /\ o.dataStatus \in FULL..END /\ o.dataSize \in Nat
      /\ o.index = o.count * Overflow /\ o.left = Len(o.data) - o.index
      /\ (o.left > 0 \/ o.count = 0)
  BY DEF Job
<1>2. Len(o.data) \in Nat
  BY <1>1
<1>3. o.count = 0 => o.index = 0
  BY <1>1, ConstantsOK
<1> QED BY <1>1, <1>2, <1>3

\* A sequence cut in two.
LEMMA Pieces ==
  ASSUME NEW S, NEW d \in Seq(S), NEW i \in Nat, NEW k \in Nat, i <= k, k <= Len(d)
  PROVE  /\ SubSeq(d, i + 1, k) \in Seq(S) /\ Len(SubSeq(d, i + 1, k)) = k - i
         /\ SubSeq(d, i + 1, k) \o SubSeq(d, k + 1, Len(d)) = SubSeq(d, i + 1, Len(d))
<1> DEFINE m == i + 1  n == Len(d)
<1>1. m \in Int /\ k \in Int /\ n \in Nat /\ \A j \in m..k : d[j] \in S
  BY ElementOfSeq
<1>2. m \in 1..(n + 1) /\ k \in (m - 1)..n /\ n \in k..n
  BY <1>1
<1>3. k - m + 1 = k - i /\ (m > k => k - i = 0)
  BY <1>1
<1> HIDE DEF m
<1>4. SubSeq(d, m, k) \in Seq(S) /\ Len(SubSeq(d, m, k)) = IF m <= k THEN k - m + 1 ELSE 0
  BY <1>1, SubSeqProperties
<1>5. SubSeq(d, m, k) \o SubSeq(d, k + 1, n) = SubSeq(d, m, n)
  BY <1>2, ConcatAdjacentSubSeq
<1>6. m \in Int /\ (m > k \/ m <= k)
  BY <1>1
<1> QED BY <1>3, <1>4, <1>5, <1>6 DEF m

\* A part of a sequence has no other members.
LEMMA PartRange ==
  ASSUME NEW S, NEW d \in Seq(S), NEW i \in Nat, NEW k \in Nat, i <= k, k <= Len(d)
  PROVE  Range(SubSeq(d, i + 1, k)) \subseteq Range(d)
<1>1. d \in Seq(Range(d))
  BY SeqOfRange
<1>2. SubSeq(d, i + 1, k) \in Seq(Range(d))
  BY <1>1, Pieces
<1> QED BY <1>2, RangeOfSeq

\* A string is the front of the bytes there are, all of them if none is NUL.
LEMMA StringIs ==
  ASSUME NEW S, NEW d \in Seq(S)
  PROVE  /\ String(d) \in Seq(S) /\ Range(String(d)) \subseteq Range(d)
         /\ NUL \notin Range(d) => String(d) = d
<1> DEFINE n == Len(d)  I == {j \in DOMAIN d : d[j] = NUL}  K == {n} \cup {i - 1 : i \in I}
<1>1. n \in Nat /\ DOMAIN d = 1..n
  BY LenProperties
<1>2. K \subseteq 0..n /\ K \subseteq Nat /\ K # {}
  BY <1>1
<1>3. String(d) = SubSeq(d, 1, Min(K))
  BY DEF String
<1>4. NUL \notin Range(d) => K = {n}
  <2>1. NUL \notin Range(d) => I = {}
    BY DEF Range
  <2> QED BY <2>1
<1> HIDE DEF K, I, n
<1>5. PICK k \in K : \A x \in K : k <= x
  BY <1>2, LeastNumber
<1>6. Min(K) = k /\ k \in Nat /\ 0 <= k /\ k <= n
  <2>1. Min(K) = k
    BY <1>2, <1>5, MinIs, Zenon
  <2>2. k \in 0..n
    BY <1>2, <1>5
  <2> QED BY <1>1, <2>1, <2>2
<1>7. /\ SubSeq(d, 0 + 1, k) \in Seq(S)
      /\ Range(SubSeq(d, 0 + 1, k)) \subseteq Range(d)
  BY <1>6, Pieces, PartRange DEF n
<1>8. 0 + 1 = 1
  OBVIOUS
<1>9. SubSeq(d, 1, n) = d
  BY SubSeqFull DEF n
<1>10. NUL \notin Range(d) => k = n
  BY <1>4, <1>5
<1> QED BY <1>3, <1>6, <1>7, <1>8, <1>9, <1>10

\* The Overflow bytes, or what is left, from where the last packet ended.
Piece(o) == SubSeq(o.data, o.index + 1, Min({o.index + Overflow, Len(o.data)}))

LEMMA PieceIs ==
  ASSUME NEW o \in Job
  PROVE  /\ Piece(o) \in Seq(Bytes) /\ Range(Piece(o)) \subseteq Range(o.data)
         /\ Len(Piece(o)) = IF o.left > Overflow THEN Overflow ELSE o.left
         /\ SubSeq(o.data, o.index + 1, Len(o.data))
              = IF o.left > Overflow
                THEN Piece(o) \o SubSeq(o.data, (o.index + Overflow) + 1, Len(o.data))
                ELSE Piece(o)
<1> DEFINE d == o.data  i == o.index  n == Len(d)  p == Overflow
           k == IF i + p <= n THEN i + p ELSE n
<1>1. /\ d \in Seq(Bytes) /\ i \in Nat /\ n \in Nat /\ i <= n /\ o.left = n - i
      /\ p \in Nat /\ p > 0
  BY JobFields, ConstantsOK
<1>2. Piece(o) = SubSeq(d, i + 1, Min({i + p, n}))
  BY DEF Piece
<1> HIDE DEF d, i, n, p
<1>3. Min({i + p, n}) = k /\ k \in Nat /\ i <= k /\ k <= n
  BY <1>1, MinOfTwo
<1>4. /\ Range(SubSeq(d, i + 1, k)) \subseteq Range(d)
      /\ SubSeq(d, i + 1, k) \in Seq(Bytes) /\ Len(SubSeq(d, i + 1, k)) = k - i
      /\ SubSeq(d, i + 1, k) \o SubSeq(d, k + 1, Len(d)) = SubSeq(d, i + 1, Len(d))
  BY <1>1, <1>3, Pieces, PartRange DEF n
<1>5. CASE o.left > p
  <2>1. k = i + p /\ k - i = p
    BY <1>1, <1>5
  <2> HIDE DEF k
  <2> QED BY <1>2, <1>3, <1>4, <1>5, <2>1 DEF d, i, n, p
<1>6. CASE ~ (o.left > p)
  <2>1. k = n /\ k - i = o.left
    BY <1>1, <1>6
  <2> HIDE DEF k
  <2> QED BY <1>2, <1>3, <1>4, <1>6, <2>1 DEF d, i, n, p
<1> QED BY <1>5, <1>6

\* strncat takes them up to a NUL.
LEMMA ChunkType ==
  ASSUME NEW o \in Job
  PROVE  Chunk(o) \in Seq(Bytes) /\ Range(Chunk(o)) \subseteq Range(o.data)
<1>1. Chunk(o) = String(Piece(o))
  BY DEF Chunk, Piece
<1>2. Piece(o) \in Seq(Bytes) /\ Range(Piece(o)) \subseteq Range(o.data)
  BY PieceIs
<1> QED BY <1>1, <1>2, StringIs

\* Of data without NUL it takes all of them.
LEMMA ChunkIs ==
  ASSUME NEW o \in Job, NUL \notin Range(o.data)
  PROVE  /\ Len(Chunk(o)) = IF o.left > Overflow THEN Overflow ELSE o.left
         /\ SubSeq(o.data, o.index + 1, Len(o.data))
              = IF o.left > Overflow
                THEN Chunk(o) \o SubSeq(o.data, (o.index + Overflow) + 1, Len(o.data))
                ELSE Chunk(o)
<1>1. Chunk(o) = String(Piece(o))
  BY DEF Chunk, Piece
<1>2. Piece(o) \in Seq(Bytes) /\ NUL \notin Range(Piece(o))
  BY PieceIs
<1>3. Chunk(o) = Piece(o)
  BY <1>1, <1>2, StringIs
<1> QED BY <1>3, PieceIs

\* A turn of the loop leaves a message for which the loop's invariant holds.
LEMMA AdvanceIs ==
  ASSUME NEW o \in Job, o.left > Overflow
  PROVE  /\ Advance(o) \in Job /\ Advance(o).busy = TRUE
         /\ Advance(o).data = o.data /\ Advance(o).index = o.index + Overflow
<1> DEFINE d == o.data  i == o.index  l == o.left  n == o.count  p == Overflow  z == Len(o.data)
           left == o.left - Overflow
           st == IF left > Overflow THEN CONT ELSE END
           sz == IF left > Overflow THEN Overflow ELSE left
           index == o.index + Overflow
           count == o.count + 1
           b == [o EXCEPT !.index = index, !.left = left, !.count = count,
                          !.dataStatus = st, !.dataSize = sz]
<1>1. Advance(o) = b
  BY DEF Advance
<1>2. /\ d \in Seq(Bytes) /\ i \in Nat /\ l \in Nat /\ n \in Nat
      /\ i = n * p /\ l = z - i /\ z \in Nat /\ p \in Nat /\ p > 0
      /\ left = l - p /\ index = i + p /\ count = n + 1 /\ l > p
      /\ st = (IF left > p THEN CONT ELSE END) /\ sz = (IF left > p THEN p ELSE left)
  BY JobFields, ConstantsOK
<1>3. o \in [busy : {TRUE}, data : Seq(Bytes), index : Nat, left : Int, count : Nat,
             dataStatus : FULL..END, dataSize : Nat]
  BY DEF Job
<1> HIDE DEF i, l, n, p, z, left, st, sz, index, count
<1>4. left \in Nat /\ left > 0 /\ sz \in Nat /\ st \in FULL..END
      /\ (st = CONT => left > p /\ sz = p) /\ (st = END => left <= p /\ sz = left)
      /\ st # FULL /\ st # START
  BY <1>2 DEF FULL, START, CONT, END
<1>5. index \in Nat /\ count \in Nat /\ left \in Int /\ left = z - index
  BY <1>2, <1>4
<1>6. index = count * p
  <2>1. (n + 1) * p = n * p + p
    BY <1>2
  <2> QED BY <1>2, <2>1
<1>7. /\ b \in [busy : {TRUE}, data : Seq(Bytes), index : Nat, left : Int, count : Nat,
                dataStatus : FULL..END, dataSize : Nat]
      /\ b.busy = TRUE /\ b.data = d /\ b.index = index /\ b.left = left
      /\ b.count = count /\ b.dataStatus = st /\ b.dataSize = sz
  BY <1>3, <1>4, <1>5
<1> HIDE DEF b
<1>8. b \in Job
  BY <1>2, <1>4, <1>5, <1>6, <1>7 DEF Job, p, z
<1> QED BY <1>1, <1>7, <1>8 DEF index

\* So does the beginning of the loop.
LEMMA NewJob ==
  ASSUME NEW m \in Seq(Bytes)
  PROVE  [busy |-> TRUE, data |-> m, index |-> 0, left |-> Len(m), count |-> 0,
          dataStatus |-> IF Len(m) <= Overflow THEN FULL ELSE START,
          dataSize |-> Len(m)] \in Job
<1>1. Len(m) \in Nat /\ Overflow \in Nat /\ 0 * Overflow = 0
  BY ConstantsOK
<1> QED BY <1>1 DEF Job, FULL, START, CONT, END

-----------------------------------------------------------------------------
(* The invariant of the senders                                            *)

SenderInv ==
  /\ plan \in [calls : [Senders -> Seq(Seq(Bytes))], waits : Nat, faults : Nat]
  /\ out \in [Senders -> Job \cup {Idle}]
  /\ sent \in Seq(PacketSet)
  /\ asked \in [Senders -> Seq(Bytes)]
  /\ \A s \in Senders : out[s].busy => Range(out[s].data) \subseteq Range(asked[s])
  /\ \A k \in 1..Len(sent) : /\ Range(sent[k].data) \subseteq Range(asked[sent[k].src])
                             /\ Text(sent[k].src) => Fitting(sent[k])
  /\ NothingLostBySender

\* A packet adds its data to those of its sender, and of nobody else.
LEMMA PartsAppend ==
  ASSUME NEW ps \in Seq(PacketSet), NEW p \in PacketSet, NEW s \in Senders
  PROVE  /\ Parts(ps, s) \in Seq(Seq(Bytes))
         /\ FlattenSeq(Parts(ps, s)) \in Seq(Bytes)
         /\ FlattenSeq(Parts(Append(ps, p), s)) = FlattenSeq(Parts(ps, s)) \o PartOf(s, p)
<1>1. \A q \in PacketSet : PartOf(s, q) \in Seq(Bytes)
  BY EmptySeq DEF PartOf, PacketSet
<1>2. Len(ps) \in Nat /\ DOMAIN ps = 1..Len(ps) /\ \A i \in 1..Len(ps) : ps[i] \in PacketSet
  BY LenProperties, ElementOfSeq
<1>3. /\ Parts(ps, s) \in Seq(Seq(Bytes)) /\ Len(Parts(ps, s)) = Len(ps)
      /\ \A i \in 1..Len(ps) : Parts(ps, s)[i] = PartOf(s, ps[i])
  BY <1>1, <1>2 DEF Parts
<1>4. Parts(Append(ps, p), s) = Append(Parts(ps, s), PartOf(s, p))
  <2> DEFINE a == Parts(Append(ps, p), s)  b == Append(Parts(ps, s), PartOf(s, p))
             n == Len(ps)  m == n + 1
  <2>1. /\ Append(ps, p) \in Seq(PacketSet) /\ DOMAIN Append(ps, p) = 1..m
        /\ \A i \in 1..n : Append(ps, p)[i] = ps[i]
        /\ Append(ps, p)[m] = p
    BY AppendProperties, LenProperties
  <2>2. n \in Nat /\ m \in Nat /\ m \in 1..m /\ \A i \in 1..m : i # m => i \in 1..n
    BY <1>2
  <2>3. a \in Seq(Seq(Bytes)) /\ Len(a) = m
    <3>1. a = [i \in 1..m |-> PartOf(s, Append(ps, p)[i])]
      BY <2>1 DEF Parts
    <3>2. \A i \in 1..m : PartOf(s, Append(ps, p)[i]) \in Seq(Bytes)
      BY <1>1, <2>1, ElementOfSeq, LenProperties
    <3> HIDE DEF m
    <3> QED BY <2>2, <3>1, <3>2
  <2>4. b \in Seq(Seq(Bytes)) /\ Len(b) = m /\ b[m] = PartOf(s, p)
        /\ \A i \in 1..n : b[i] = Parts(ps, s)[i]
    BY <1>1, <1>3, AppendProperties
  <2>5. \A i \in 1..n : a[i] = b[i]
    BY <1>2, <1>3, <2>1, <2>2, <2>4 DEF Parts
  <2>6. a[m] = b[m]
    BY <2>1, <2>2, <2>4 DEF Parts
  <2> HIDE DEF a, b, m, n
  <2> QED
    <3>1. \A i \in 1..Len(a) : a[i] = b[i]
      BY <2>2, <2>3, <2>5, <2>6
    <3>2. a = b
      BY <2>3, <2>4, <3>1, SeqEqual
    <3> QED BY <3>2 DEF a, b
<1> QED BY <1>1, <1>3, <1>4, FlattenAppend

\* The data of a sender, in these terms.
LEMMA DataIs == \A s : DataOfSender(s) = FlattenSeq(Parts(sent, s))
BY DEF DataOfSender, Parts, PartOf

\* Initially nothing was asked for.
LEMMA SenderInit == Init => SenderInv
<1> SUFFICES ASSUME Init PROVE SenderInv
  OBVIOUS
<1>1. /\ plan \in [calls : [Senders -> Seq(Seq(Bytes))], waits : Nat, faults : Nat]
      /\ out \in [Senders -> Job \cup {Idle}]
      /\ sent \in Seq(PacketSet) /\ sent = <<>> /\ Len(sent) = 0
      /\ asked \in [Senders -> Seq(Bytes)]
  BY LinkAssumption, EmptySeq DEF Init
<1>2. ASSUME NEW s \in Senders PROVE asked[s] = DataOfSender(s) \o Unsent(s)
  <2>1. asked[s] = <<>> /\ out[s] = Idle
    BY DEF Init
  <2>2. Unsent(s) = <<>>
    BY <2>1 DEF Unsent, Idle
  <2>3. Parts(sent, s) = <<>>
    BY <1>1 DEF Parts
  <2>4. DataOfSender(s) = <<>>
    BY <2>3, DataIs DEF FlattenSeq
  <2>5. <<>> \o <<>> = <<>>
    OBVIOUS
  <2> QED BY <2>1, <2>2, <2>4, <2>5
<1>3. \A s \in Senders : ~ out[s].busy
  BY DEF Init, Idle
<1> QED BY <1>1, <1>2, <1>3 DEF SenderInv, NothingLostBySender, NothingLost

\* What a sender that is not calling still has to send does not change.
LEMMA SenderFrame ==
  SenderInv /\ UNCHANGED <<plan, out, sent, asked>> => SenderInv'
BY DEF SenderInv, NothingLostBySender, NothingLost, Text, DataOfSender, Unsent

\* What was asked for once stays asked for.
LEMMA AskedGrows ==
  ASSUME SenderInv, NEW s \in Senders, SendMAXmsg(s)
  PROVE  \A t \in Senders : Range(asked[t]) \subseteq Range(asked'[t])
<1> DEFINE m == Head(plan.calls[s])
<1>1. plan.calls \in [Senders -> Seq(Seq(Bytes))] /\ plan.calls[s] # <<>> /\ m \in Seq(Bytes)
  BY HeadTailProperties DEF SenderInv, SendMAXmsg
<1>2. asked' = [asked EXCEPT ![s] = @ \o m]
  BY DEF SendMAXmsg
<1> HIDE DEF m
<1>3. asked[s] \in Seq(Bytes)
  BY DEF SenderInv
<1>4. Range(asked[s] \o m) = Range(asked[s]) \cup Range(m)
  BY <1>1, <1>3, RangeConcatenation
<1>5. asked'[s] = asked[s] \o m /\ \A t \in Senders : t # s => asked'[t] = asked[t]
  BY <1>2 DEF SenderInv
<1> QED BY <1>4, <1>5

\* sendMAXmsg: what is asked for is what is unsent.
LEMMA SenderCalls ==
  ASSUME SenderInv, NEW s \in Senders, SendMAXmsg(s)
  PROVE  SenderInv'
<1> DEFINE m == Head(plan.calls[s])
           o == [busy |-> TRUE, data |-> m, index |-> 0, left |-> Len(m), count |-> 0,
                 dataStatus |-> IF Len(m) <= Overflow THEN FULL ELSE START,
                 dataSize |-> Len(m)]
<1>1. /\ plan.calls \in [Senders -> Seq(Seq(Bytes))] /\ plan.calls[s] # <<>>
      /\ m \in Seq(Bytes) /\ Tail(plan.calls[s]) \in Seq(Seq(Bytes))
  BY HeadTailProperties DEF SenderInv, SendMAXmsg
<1>2. o \in Job
  BY <1>1, NewJob
<1>3. /\ plan' = [plan EXCEPT !.calls[s] = Tail(@)] /\ out' = [out EXCEPT ![s] = o]
      /\ asked' = [asked EXCEPT ![s] = @ \o m] /\ UNCHANGED sent
      /\ out[s] = Idle
  BY DEF SendMAXmsg
<1>4. plan' \in [calls : [Senders -> Seq(Seq(Bytes))], waits : Nat, faults : Nat]
  BY <1>1, <1>3 DEF SenderInv
<1>5. o.busy /\ o.data = m /\ o.index = 0
  OBVIOUS
<1> HIDE DEF o, m
<1>6. out' \in [Senders -> Job \cup {Idle}] /\ out'[s] = o
      /\ \A t \in Senders : t # s => out'[t] = out[t]
  BY <1>2, <1>3 DEF SenderInv
<1>7. asked[s] \o m \in Seq(Bytes)
  BY <1>1, ConcatProperties DEF SenderInv
<1>8. asked' \in [Senders -> Seq(Bytes)] /\ asked'[s] = asked[s] \o m
      /\ \A t \in Senders : t # s => asked'[t] = asked[t]
  BY <1>3, <1>7 DEF SenderInv
<1>9. \A t \in Senders : Range(asked[t]) \subseteq Range(asked'[t])
  BY AskedGrows
<1>10. \A t \in Senders : Text(t)' => Text(t)
  BY <1>9 DEF Text
<1>11. ASSUME NEW t \in Senders, Text(t)' PROVE NothingLost(t)'
  <2>0. NothingLost(t)
    BY <1>10, <1>11 DEF SenderInv, NothingLostBySender
  <2>1. DataOfSender(t)' = DataOfSender(t) /\ asked[t] = DataOfSender(t) \o Unsent(t)
        /\ DataOfSender(t) \in Seq(Bytes)
    <3> DEFINE p == [src |-> s, dataStatus |-> FULL, dataSize |-> 0, data |-> m]
    <3>0. FULL \in FULL..END
      BY DEF FULL, END
    <3>1. p \in PacketSet
      BY <1>1, <3>0 DEF PacketSet
    <3>2. FlattenSeq(Parts(sent, t)) \in Seq(Bytes)
      BY <3>1, PartsAppend DEF SenderInv
    <3> QED BY <1>3, <2>0, <3>2, DataIs DEF NothingLost, DataOfSender
  <2>2. CASE t = s
    <3>1. Unsent(s) = <<>>
      BY <1>3 DEF Unsent, Idle
    <3>2. Unsent(s)' = SubSeq(m, 1, Len(m))
      BY <1>5, <1>6 DEF Unsent
    <3>3. SubSeq(m, 1, Len(m)) = m
      BY <1>1, SubSeqFull
    <3>4. DataOfSender(s) \o <<>> = DataOfSender(s)
      BY <2>1, <2>2, ConcatEmptySeq
    <3> QED BY <1>8, <2>1, <2>2, <3>1, <3>2, <3>3, <3>4 DEF NothingLost
  <2>3. CASE t # s
    <3>1. Unsent(t)' = Unsent(t)
      BY <1>6, <2>3 DEF Unsent
    <3> QED BY <1>8, <2>1, <2>3, <3>1 DEF NothingLost
  <2> QED BY <2>2, <2>3
<1>12. ASSUME NEW k \in 1..Len(sent')
       PROVE  /\ Range(sent'[k].data) \subseteq Range(asked'[sent'[k].src])
              /\ NUL \notin Range(asked'[sent'[k].src]) => Fitting(sent'[k])
  <2>1. /\ sent' = sent /\ sent[k].src \in Senders
        /\ Range(sent[k].data) \subseteq Range(asked[sent[k].src])
        /\ Text(sent[k].src) => Fitting(sent[k])
    <3>1. sent' = sent /\ sent[k] \in PacketSet
      BY <1>3, ElementOfSeq DEF SenderInv
    <3> QED BY <3>1 DEF SenderInv, PacketSet
  <2> QED BY <1>9, <2>1 DEF Text
<1>13. ASSUME NEW t \in Senders, out'[t].busy PROVE Range(out'[t].data) \subseteq Range(asked'[t])
  <2>1. CASE t = s
    <3>1. asked[s] \in Seq(Bytes)
      BY DEF SenderInv
    <3>2. Range(asked[s] \o m) = Range(asked[s]) \cup Range(m)
      BY <1>1, <3>1, RangeConcatenation
    <3> QED BY <1>5, <1>6, <1>8, <2>1, <3>2
  <2>2. CASE t # s
    <3>1. Range(out[t].data) \subseteq Range(asked[t])
      BY <1>6, <1>13, <2>2 DEF SenderInv
    <3> QED BY <1>6, <1>9, <2>2, <3>1
  <2> QED BY <2>1, <2>2
<1> QED BY <1>3, <1>4, <1>6, <1>8, <1>11, <1>12, <1>13 DEF SenderInv, NothingLostBySender, Text

\* The packet a turn of the loop writes, and what it leaves of the message.
LEMMA PacketIs ==
  ASSUME SenderInv, NEW s \in Senders, SendPacket(s)
  PROVE  LET o == out[s]
             p == Packet([src |-> s, dataStatus |-> o.dataStatus, dataSize |-> o.dataSize,
                          frame |-> Len(sent) + 1], Chunk(o))
             n == IF o.left > Overflow THEN Advance(o) ELSE Idle
         IN  /\ o \in Job /\ p \in PacketSet /\ (Text(s) => NUL \notin Range(o.data) /\ Fitting(p))
             /\ Range(p.data) \subseteq Range(asked[s])
             /\ p.src = s /\ p.data = Chunk(o)
             /\ p.dataStatus = o.dataStatus /\ p.dataSize = o.dataSize
             /\ plan' = plan /\ asked' = asked /\ sent' = Append(sent, p)
             /\ out' \in [Senders -> Job \cup {Idle}] /\ out'[s] = n
             /\ \A t \in Senders : t # s => out'[t] = out[t]
<1> DEFINE o == out[s]
           h == [src |-> s, dataStatus |-> o.dataStatus, dataSize |-> o.dataSize,
                 frame |-> Len(sent) + 1]
           p == Packet(h, Chunk(o))
           n == IF o.left > Overflow THEN Advance(o) ELSE Idle
<1>1. o \in Job
  BY DEF SenderInv, SendPacket, Idle
<1>2. /\ plan' = plan /\ asked' = asked /\ sent' = Append(sent, p)
      /\ out' = [out EXCEPT ![s] = IF o.count + 1 < Loop(Len(o.data)) THEN Advance(o) ELSE Idle]
  BY DEF SendPacket
<1>3. o.count + 1 < Loop(Len(o.data)) <=> o.left > Overflow
  <2>1. /\ o.count \in Nat /\ Len(o.data) \in Nat
        /\ o.left = Len(o.data) - o.count * Overflow
    BY <1>1, JobFields
  <2> HIDE DEF o
  <2> QED BY <2>1, LoopIs
<1>4. o.left > Overflow => Advance(o) \in Job
  BY <1>1, AdvanceIs
<1>5. out' \in [Senders -> Job \cup {Idle}] /\ out'[s] = n
      /\ \A t \in Senders : t # s => out'[t] = out[t]
  BY <1>2, <1>3, <1>4 DEF SenderInv
<1>6. p = [src |-> s, dataStatus |-> o.dataStatus, dataSize |-> o.dataSize, data |-> Chunk(o)]
  BY DEF Packet
<1>7. /\ p \in PacketSet /\ p.src = s /\ p.data = Chunk(o)
      /\ p.dataStatus = o.dataStatus /\ p.dataSize = o.dataSize
  <2>1. /\ Chunk(o) \in Seq(Bytes) /\ o.dataStatus \in FULL..END /\ o.dataSize \in Nat
    BY <1>1, JobFields, ChunkType
  <2> DEFINE d == Chunk(o)  st == o.dataStatus  sz == o.dataSize
  <2> HIDE DEF d, st, sz, p
  <2> QED BY <1>6, <2>1 DEF PacketSet, d, st, sz
<1>9. Range(o.data) \subseteq Range(asked[s]) /\ Range(p.data) \subseteq Range(asked[s])
  <2>1. Range(o.data) \subseteq Range(asked[s])
    BY <1>1, JobFields DEF SenderInv
  <2>2. Range(Chunk(o)) \subseteq Range(o.data)
    BY <1>1, ChunkType
  <2> HIDE DEF p, o
  <2> QED BY <1>7, <2>1, <2>2
<1>8. ASSUME Text(s) PROVE NUL \notin Range(o.data) /\ Fitting(p)
  <2>0. NUL \notin Range(o.data)
    BY <1>8, <1>9 DEF Text
  <2>1. Len(Chunk(o)) = IF o.left > Overflow THEN Overflow ELSE o.left
    BY <1>1, <2>0, ChunkIs
  <2>2. /\ o.dataStatus = FULL  => o.left <= Overflow /\ o.dataSize = o.left
        /\ o.dataStatus = START => o.left > Overflow
        /\ o.dataStatus = CONT  => o.left > Overflow /\ o.dataSize = Overflow
        /\ o.dataStatus = END   => o.left <= Overflow /\ o.dataSize = o.left
        /\ o.dataStatus \in {FULL, START, CONT, END}
        /\ o.left \in Nat /\ Overflow \in Nat
    <3>1. o.dataStatus \in FULL..END /\ o.left \in Nat /\ Overflow \in Nat
      BY <1>1, JobFields, ConstantsOK
    <3>2. o.dataStatus \in {FULL, START, CONT, END}
      BY <3>1 DEF FULL, START, CONT, END
    <3> QED BY <1>1, <3>1, <3>2 DEF Job
  <2> HIDE DEF o
  <2> QED BY <1>7, <2>0, <2>1, <2>2 DEF Fitting, FULL, START, CONT, END
<1> QED BY <1>1, <1>2, <1>5, <1>7, <1>8, <1>9

\* A packet takes its data from the front of what is unsent.
LEMMA SenderSends ==
  ASSUME SenderInv, NEW s \in Senders, SendPacket(s)
  PROVE  SenderInv'
<1> DEFINE o == out[s]
           h == [src |-> s, dataStatus |-> o.dataStatus, dataSize |-> o.dataSize,
                 frame |-> Len(sent) + 1]
           p == Packet(h, Chunk(o))
           n == IF o.left > Overflow THEN Advance(o) ELSE Idle
<1>1. o \in Job
  BY PacketIs
<1>2. plan' = plan /\ asked' = asked /\ sent' = Append(sent, p)
  BY PacketIs
<1>5. out' \in [Senders -> Job \cup {Idle}] /\ out'[s] = n
      /\ \A t \in Senders : t # s => out'[t] = out[t]
  BY PacketIs
<1>7. p \in PacketSet /\ p.src = s /\ p.data = Chunk(o)
  BY PacketIs
<1>8. (Text(s) => NUL \notin Range(o.data) /\ Fitting(p)) /\ Range(p.data) \subseteq Range(asked[s])
  BY PacketIs
<1> HIDE DEF p
<1>9. /\ sent' \in Seq(PacketSet) /\ Len(sent') = Len(sent) + 1 /\ Len(sent) \in Nat
      /\ \A k \in 1..Len(sent) : sent'[k] = sent[k]
      /\ sent'[Len(sent) + 1] = p
  BY <1>2, <1>7, AppendProperties, LenProperties DEF SenderInv
<1>10. \A k \in 1..Len(sent') : /\ Range(sent'[k].data) \subseteq Range(asked[sent'[k].src])
                                /\ Text(sent'[k].src) => Fitting(sent'[k])
  <2>1. \A k \in 1..Len(sent') : k = Len(sent) + 1 \/ k \in 1..Len(sent)
    BY <1>9
  <2>2. \A k \in 1..Len(sent) : /\ Range(sent[k].data) \subseteq Range(asked[sent[k].src])
                                /\ Text(sent[k].src) => Fitting(sent[k])
    BY Zenon DEF SenderInv
  <2>3. SUFFICES ASSUME NEW k \in 1..Len(sent')
                 PROVE  /\ Range(sent'[k].data) \subseteq Range(asked[sent'[k].src])
                        /\ Text(sent'[k].src) => Fitting(sent'[k])
    OBVIOUS
  <2>4. CASE k = Len(sent) + 1
    BY <1>7, <1>8, <1>9, <2>4
  <2>5. CASE k \in 1..Len(sent)
    BY <1>9, <2>2, <2>5
  <2> QED BY <2>1, <2>4, <2>5
<1>12. \A t \in Senders : Text(t)' <=> Text(t)
  BY <1>2 DEF Text
<1>13. ASSUME NEW t \in Senders, out'[t].busy PROVE Range(out'[t].data) \subseteq Range(asked[t])
  <2>1. CASE t = s
    <3>1. o.left > Overflow /\ out'[s] = Advance(o)
      BY <1>5, <1>13, <2>1 DEF Idle
    <3>2. out'[s].data = o.data
      BY <1>1, <3>1, AdvanceIs
    <3>3. o.busy
      BY <1>1, JobFields
    <3> QED BY <2>1, <3>2, <3>3 DEF SenderInv
  <2>2. CASE t # s
    BY <1>5, <1>13, <2>2 DEF SenderInv
  <2> QED BY <2>1, <2>2
<1>11. ASSUME NEW t \in Senders, Text(t) PROVE NothingLost(t)'
  <2>1. /\ DataOfSender(t)' = DataOfSender(t) \o PartOf(t, p)
        /\ DataOfSender(t) \in Seq(Bytes)
        /\ asked[t] = DataOfSender(t) \o Unsent(t)
    <3>1. DataOfSender(t)' = FlattenSeq(Parts(sent', t))
      BY DEF DataOfSender, Parts, PartOf
    <3> QED BY <1>2, <1>7, <1>11, <3>1, DataIs, PartsAppend DEF SenderInv, NothingLostBySender, NothingLost
  <2>2. CASE t = s
    <3>0. NUL \notin Range(o.data)
      BY <1>8, <1>11, <2>2
    <3>1. PartOf(s, p) = Chunk(o) /\ Chunk(o) \in Seq(Bytes)
      BY <1>1, <1>7, ChunkType DEF PartOf
    <3>2. Unsent(s) = SubSeq(o.data, o.index + 1, Len(o.data))
      BY <1>1, JobFields DEF Unsent
    <3>3. CASE o.left > Overflow
      <4>1. Unsent(s)' = SubSeq(o.data, (o.index + Overflow) + 1, Len(o.data))
        <5>1. out'[s] = Advance(o)
          BY <1>5, <3>3
        <5> QED BY <1>1, <3>3, <5>1, AdvanceIs DEF Unsent
      <4>2. Unsent(s) = Chunk(o) \o Unsent(s)'
        BY <1>1, <3>0, <3>2, <3>3, <4>1, ChunkIs
      <4>3. Unsent(s)' \in Seq(Bytes)
        <5>0. /\ o.data \in Seq(Bytes) /\ o.index \in Nat /\ Overflow \in Nat
              /\ Len(o.data) \in Nat
          BY <1>1, JobFields, ConstantsOK
        <5>1. o.data \in Seq(Bytes) /\ o.index + Overflow \in Nat /\ Len(o.data) \in Nat
          BY <5>0
        <5> DEFINE i == (o.index + Overflow) + 1  k == Len(o.data)
        <5>2. i \in Int /\ k \in Int /\ \A j \in i..k : o.data[j] \in Bytes
          BY <5>1, ElementOfSeq
        <5> HIDE DEF i, k
        <5>3. SubSeq(o.data, i, k) \in Seq(Bytes)
          BY <5>1, <5>2, SubSeqProperties
        <5> QED BY <4>1, <5>3 DEF i, k
      <4>4. DataOfSender(s) \o (Chunk(o) \o Unsent(s)') = (DataOfSender(s) \o Chunk(o)) \o Unsent(s)'
        <5> DEFINE x == DataOfSender(s)  y == Chunk(o)  z == Unsent(s)'
        <5>1. x \in Seq(Bytes) /\ y \in Seq(Bytes) /\ z \in Seq(Bytes)
          BY <2>1, <2>2, <3>1, <4>3
        <5> HIDE DEF x, y, z
        <5>2. x \o (y \o z) = (x \o y) \o z
          BY <5>1, ConcatAssociative
        <5> QED BY <5>2 DEF x, y, z
      <4> QED BY <1>2, <2>1, <2>2, <3>1, <4>2, <4>4 DEF NothingLost
    <3>4. CASE ~ (o.left > Overflow)
      <4>1. Unsent(s)' = <<>>
        BY <1>5, <3>4 DEF Unsent, Idle
      <4>2. Unsent(s) = Chunk(o)
        BY <1>1, <3>0, <3>2, <3>4, ChunkIs
      <4>3. DataOfSender(s) \o Chunk(o) \in Seq(Bytes)
        BY <2>1, <2>2, <3>1, ConcatProperties
      <4>4. (DataOfSender(s) \o Chunk(o)) \o <<>> = DataOfSender(s) \o Chunk(o)
        BY <4>3, ConcatEmptySeq
      <4> QED BY <1>2, <2>1, <2>2, <3>1, <4>1, <4>2, <4>4 DEF NothingLost
    <3> QED BY <3>3, <3>4
  <2>3. CASE t # s
    <3>1. Unsent(t)' = Unsent(t)
      BY <1>5, <2>3 DEF Unsent
    <3>2. PartOf(t, p) = <<>>
      BY <1>7, <2>3 DEF PartOf
    <3>3. DataOfSender(t) \o <<>> = DataOfSender(t)
      BY <2>1, ConcatEmptySeq
    <3> QED BY <1>2, <2>1, <3>1, <3>2, <3>3 DEF NothingLost
  <2> QED BY <2>2, <2>3
<1>14. \A t \in Senders : Text(t)' => NothingLost(t)'
  BY <1>11, <1>12
<1>15. \A k \in 1..Len(sent') : (NUL \notin Range(asked'[sent'[k].src])) => Fitting(sent'[k])
  BY <1>2, <1>10 DEF Text
<1> QED BY <1>2, <1>5, <1>9, <1>10, <1>13, <1>14, <1>15 DEF SenderInv, NothingLostBySender, Text

\* No other step touches a sender.
LEMMA SenderStep == SenderInv /\ [Next]_vars => SenderInv'
<1> SUFFICES ASSUME SenderInv, [Next]_vars PROVE SenderInv'
  OBVIOUS
<1>1. ASSUME NEW s \in Senders, SendPacket(s) PROVE SenderInv'
  BY <1>1, SenderSends
<1>2. ASSUME NEW s \in Senders, SendMAXmsg(s) PROVE SenderInv'
  BY <1>2, SenderCalls
<1>3. ASSUME plan' = [plan EXCEPT !.waits = @ - 1], plan.waits > 0, UNCHANGED <<out, sent, asked>>
      PROVE  SenderInv'
  <2>1. plan' \in [calls : [Senders -> Seq(Seq(Bytes))], waits : Nat, faults : Nat]
    <3> DEFINE w == plan.waits - 1
    <3>1. w \in Nat /\ plan' = [plan EXCEPT !.waits = w]
      BY <1>3 DEF SenderInv
    <3> HIDE DEF w
    <3> QED BY <3>1 DEF SenderInv
  <2> QED BY <1>3, <2>1 DEF SenderInv, NothingLostBySender, NothingLost, Text, DataOfSender, Unsent
<1>4. ASSUME NEW x, WaitFor(x) PROVE SenderInv'
  BY <1>3, <1>4 DEF WaitFor, history
<1>5. ASSUME NEW n, WaitForNdata(n) PROVE SenderInv'
  BY <1>3, <1>5 DEF WaitForNdata, history
<1>6. ASSUME Arrive \/ RecMAXmsg \/ Receiver \/ UNCHANGED vars
      PROVE  UNCHANGED <<plan, out, sent, asked>>
  BY <1>6 DEF Arrive, RecMAXmsg, Receiver, FindStartMsg, BeginFrame, ReadBuf, ReadStale, Poll,
              MoreData, TimeOut, CheckMAXasciiMsg, AwaitMore, Awaited, vars, history
<1> QED BY <1>1, <1>2, <1>4, <1>5, <1>6, SenderFrame DEF Next

\* However the senders interleave, and whatever the line does, what each of
\* them was asked to send, if there was no NUL in it, is what it has written and
\* what it is still cutting up: the packets are the pieces of the messages, in
\* order, without a gap.  STX and ETX are bytes like any other here.
THEOREM SenderTheorem == Spec => []NothingLostBySender
<1>1. SenderInv => NothingLostBySender
  BY DEF SenderInv
<1> QED BY <1>1, SenderInit, SenderStep, PTL DEF Spec

-----------------------------------------------------------------------------
(* The packets of a message                                                *)

\* One more packet leaves those before it.
LEMMA OneMore ==
  ASSUME NEW ps \in Seq(PacketSet), NEW p \in PacketSet, NEW s
  PROVE  LET n == Len(ps)  qs == Append(ps, p)
         IN  /\ n \in Nat /\ qs \in Seq(PacketSet) /\ Len(qs) = n + 1 /\ qs[n + 1] = p
             /\ \A i \in 1..n : qs[i] = ps[i]
             /\ Of(ps, s) \subseteq 1..n
             /\ Of(qs, s) = Of(ps, s) \cup {i \in {n + 1} : p.src = s}
<1> DEFINE n == Len(ps)  qs == Append(ps, p)  m == n + 1
<1>1. /\ n \in Nat /\ qs \in Seq(PacketSet) /\ Len(qs) = m /\ qs[m] = p
      /\ \A i \in 1..n : qs[i] = ps[i]
      /\ DOMAIN ps = 1..n /\ DOMAIN qs = 1..m
  BY AppendProperties, LenProperties
<1>2. Of(ps, s) = {i \in 1..n : ps[i].src = s} /\ Of(qs, s) = {i \in 1..m : qs[i].src = s}
  BY <1>1 DEF Of
<1>3. \A i \in 1..m : i \in 1..n \/ i = m
  BY <1>1
<1>4. m \in 1..m /\ \A i \in 1..n : i \in 1..m
  BY <1>1
<1> HIDE DEF n, qs, m
<1>5. Of(qs, s) = Of(ps, s) \cup {i \in {m} : p.src = s}
  BY <1>1, <1>2, <1>3, <1>4
<1>6. Of(ps, s) \subseteq 1..n
  BY <1>2
<1> QED BY <1>1, <1>5, <1>6 DEF n, qs, m

\* What has begun before packet j does not depend on later ones.
LEMMA BegunMore ==
  ASSUME NEW ps \in Seq(PacketSet), NEW p \in PacketSet, NEW s, NEW i \in 1..Len(ps)
  PROVE  LET n == Len(ps)  qs == Append(ps, p)
         IN  /\ \A j \in 1..(n + 1) : Begun(qs, s, i, j) <=> Begun(ps, s, i, j)
             /\ Begun(qs, s, i, n + 2) <=> Begun(ps, s, i, n + 1) /\ (p.src = s => p.dataStatus = CONT)
<1> DEFINE n == Len(ps)  qs == Append(ps, p)
<1>1. /\ n \in Nat /\ qs[n + 1] = p /\ \A k \in 1..n : qs[k] = ps[k]
      /\ Of(ps, s) \subseteq 1..n
      /\ Of(qs, s) = Of(ps, s) \cup {k \in {n + 1} : p.src = s}
      /\ i \in 1..n
  BY OneMore
<1> HIDE DEF n, qs
<1>2. ASSUME NEW j \in 1..(n + 1) PROVE Begun(qs, s, i, j) <=> Begun(ps, s, i, j)
  BY <1>1, <1>2 DEF Begun
<1>3. Begun(qs, s, i, n + 2) <=> Begun(ps, s, i, n + 1) /\ (p.src = s => p.dataStatus = CONT)
  BY <1>1 DEF Begun
<1> QED BY <1>2, <1>3 DEF n, qs

\* A message is begun by one packet.
LEMMA BegunOnce ==
  ASSUME NEW ps \in Seq(PacketSet), NEW s, NEW j \in Int,
         NEW i \in Of(ps, s), NEW k \in Of(ps, s), Begun(ps, s, i, j), Begun(ps, s, k, j)
  PROVE  i = k
<1>1. i \in Int /\ k \in Int
  BY LenProperties DEF Of
<1>2. START # CONT
  BY DEF START, CONT
<1> QED BY <1>1, <1>2 DEF Begun

\* The sizes of what packets hold.
LEMMA SizeMore ==
  ASSUME NEW ps \in Seq(PacketSet), NEW p \in PacketSet, NEW s \in Senders
  PROVE  LET n == Len(ps)  qs == Append(ps, p)
         IN  /\ \A i, j \in 1..n : i <= j => SizeOf(qs, s, i, j) = SizeOf(ps, s, i, j)
             /\ \A i \in 1..n : SizeOf(qs, s, i, n + 1) = SizeOf(ps, s, i, n) + Len(PartOf(s, p))
             /\ SizeOf(qs, s, n + 1, n + 1) = Len(PartOf(s, p))
<1> DEFINE n == Len(ps)  qs == Append(ps, p)
<1>1. /\ n \in Nat /\ qs \in Seq(PacketSet) /\ Len(qs) = n + 1 /\ qs[n + 1] = p
      /\ \A k \in 1..n : qs[k] = ps[k] /\ ps[k] \in PacketSet
  BY OneMore, ElementOfSeq
<1>2. PartOf(s, p) \in Seq(Bytes)
  BY EmptySeq DEF PartOf, PacketSet
<1> HIDE DEF n, qs
<1>3. ASSUME NEW i \in 1..n, NEW j \in 1..n, i <= j
      PROVE  /\ SubSeq(ps, i, j) \in Seq(PacketSet) /\ SubSeq(qs, i, j) = SubSeq(ps, i, j)
             /\ Len(SubSeq(ps, i, j)) = j - i + 1
  <2>0. i \in Int /\ j \in Int /\ i <= j /\ j - i + 1 \in Nat
    BY <1>1, <1>3
  <2>1. (\A k \in i..j : ps[k] \in PacketSet) /\ (\A k \in i..j : qs[k] \in PacketSet)
    BY <1>1, <1>3
  <2>2. /\ SubSeq(ps, i, j) \in Seq(PacketSet) /\ Len(SubSeq(ps, i, j)) = j - i + 1
        /\ \A k \in 1..(j - i + 1) : SubSeq(ps, i, j)[k] = ps[i + k - 1]
    BY <2>0, <2>1, SubSeqProperties
  <2>3. /\ SubSeq(qs, i, j) \in Seq(PacketSet) /\ Len(SubSeq(qs, i, j)) = j - i + 1
        /\ \A k \in 1..(j - i + 1) : SubSeq(qs, i, j)[k] = qs[i + k - 1]
    BY <2>0, <2>1, SubSeqProperties
  <2>4. \A k \in 1..(j - i + 1) : i + k - 1 \in 1..n
    BY <1>1, <1>3
  <2> DEFINE a == SubSeq(ps, i, j)  b == SubSeq(qs, i, j)  l == j - i + 1
  <2>5. a \in Seq(PacketSet) /\ b \in Seq(PacketSet) /\ Len(a) = l /\ Len(b) = l
        /\ \A k \in 1..l : b[k] = a[k]
    BY <1>1, <2>2, <2>3, <2>4
  <2> HIDE DEF a, b, l
  <2>6. b = a
    BY <2>5, SeqEqual
  <2> QED BY <2>2, <2>6 DEF a, b
<1>4. ASSUME NEW i \in 1..n
      PROVE  SizeOf(qs, s, i, n + 1) = SizeOf(ps, s, i, n) + Len(PartOf(s, p))
  <2>1. n \in 1..n /\ i <= n /\ i \in Int /\ n + 1 \in Int
    BY <1>1, <1>4
  <2>2. SubSeq(ps, i, n) \in Seq(PacketSet) /\ SubSeq(qs, i, n) = SubSeq(ps, i, n)
    BY <1>3, <2>1
  <2>3. SubSeq(qs, i, n + 1) = Append(SubSeq(ps, i, n), p)
    <3>1. /\ i \in 1..Len(qs) /\ (n + 1) \in i..Len(qs) /\ (n + 1) - 1 = n
      BY <1>1, <2>1
    <3>2. SubSeq(qs, i, n + 1) = SubSeq(qs, i, (n + 1) - 1) \o <<qs[n + 1]>>
      BY <1>1, <3>1, SubSeqRecursiveSecond
    <3>3. Append(SubSeq(ps, i, n), p) = SubSeq(ps, i, n) \o <<p>>
      BY <2>2, AppendIsConcat
    <3> QED BY <1>1, <2>2, <3>1, <3>2, <3>3
  <2> DEFINE a == SubSeq(ps, i, n)  f == FlattenSeq(Parts(a, s))
  <2>4. f \in Seq(Bytes) /\ FlattenSeq(Parts(Append(a, p), s)) = f \o PartOf(s, p)
    BY <2>2, PartsAppend
  <2> HIDE DEF f
  <2>5. Len(f \o PartOf(s, p)) = Len(f) + Len(PartOf(s, p))
    BY <1>2, <2>4, ConcatProperties
  <2> QED BY <2>3, <2>4, <2>5 DEF SizeOf, f
<1>5. SizeOf(qs, s, n + 1, n + 1) = Len(PartOf(s, p))
  <2>1. SubSeq(qs, n + 1, n + 1) = Append(<<>>, p)
    <3> DEFINE a == SubSeq(qs, n + 1, n + 1)  b == Append(<<>>, p)  m == n + 1
    <3>1. m \in Int /\ m <= m /\ m - m + 1 = 1 /\ \A k \in m..m : qs[k] \in PacketSet
      BY <1>1
    <3>2. a \in Seq(PacketSet) /\ Len(a) = 1 /\ a[1] = p
      <4> HIDE DEF m
      <4>1. PICK l \in Int : l = m
        BY <3>1
      <4>2. m <= l /\ \A k \in m..l : qs[k] \in PacketSet
        BY <3>1, <4>1
      <4>3. /\ SubSeq(qs, m, l) \in Seq(PacketSet)
            /\ Len(SubSeq(qs, m, l)) = IF m <= l THEN l - m + 1 ELSE 0
            /\ \A k \in 1..(l - m + 1) : SubSeq(qs, m, l)[k] = qs[m + k - 1]
        BY <3>1, <4>2, SubSeqProperties
      <4>4. l - m + 1 = 1 /\ 1 \in 1..(l - m + 1) /\ m + 1 - 1 = m
        BY <3>1, <4>1
      <4>5. SubSeq(qs, m, l)[1] = qs[m]
        BY <4>3, <4>4
      <4>6. Len(SubSeq(qs, m, l)) = 1
        BY <4>2, <4>3, <4>4
      <4> QED BY <1>1, <4>1, <4>3, <4>5, <4>6 DEF m
    <3>3. b \in Seq(PacketSet) /\ Len(b) = 1 /\ b[1] = p
      BY EmptySeq, AppendProperties
    <3>4. \A k \in 1..1 : a[k] = b[k]
      BY <3>2, <3>3
    <3> HIDE DEF a, b
    <3>5. a = b
      BY <3>2, <3>3, <3>4, SeqEqual
    <3> QED BY <3>5 DEF a, b
  <2>2. <<>> \in Seq(PacketSet)
    BY EmptySeq
  <2>3. FlattenSeq(Parts(Append(<<>>, p), s)) = FlattenSeq(Parts(<<>>, s)) \o PartOf(s, p)
    BY <2>2, PartsAppend
  <2>4. Parts(<<>>, s) = <<>>
    BY DEF Parts
  <2>5. FlattenSeq(<<>>) = <<>>
    BY DEF FlattenSeq
  <2>6. <<>> \o PartOf(s, p) = PartOf(s, p)
    BY <1>2, ConcatEmptySeq
  <2> QED BY <2>1, <2>3, <2>4, <2>5, <2>6 DEF SizeOf
<1>6. \A i, j \in 1..n : i <= j => SizeOf(qs, s, i, j) = SizeOf(ps, s, i, j)
  BY <1>3 DEF SizeOf
<1> QED BY <1>4, <1>5, <1>6 DEF n, qs

\* What was delimited stays so.
LEMMA DelimitedMore ==
  ASSUME NEW ps \in Seq(PacketSet), NEW p \in PacketSet, NEW s \in Senders, Delimited(ps, s)
  PROVE  \A j \in Of(ps, s) : Fits(Append(ps, p), s, j)
<1> SUFFICES ASSUME NEW j \in Of(ps, s) PROVE Fits(Append(ps, p), s, j)
  OBVIOUS
<1> DEFINE n == Len(ps)  qs == Append(ps, p)
<1>1. /\ n \in Nat /\ \A k \in 1..n : qs[k] = ps[k]
      /\ Of(ps, s) \subseteq 1..n
      /\ Of(qs, s) = Of(ps, s) \cup {k \in {n + 1} : p.src = s}
  BY OneMore
<1>2. \A i, k \in 1..n : Begun(qs, s, i, k) <=> Begun(ps, s, i, k)
  <2>1. \A k \in 1..n : k \in 1..(n + 1)
    BY <1>1
  <2> QED BY <2>1, BegunMore
<1>3. \A i, k \in 1..n : i <= k => SizeOf(qs, s, i, k) = SizeOf(ps, s, i, k)
  BY SizeMore
<1> HIDE DEF n, qs
<1>4. ASSUME NEW i \in Of(qs, s), Begun(qs, s, i, j) PROVE i \in Of(ps, s) /\ i \in 1..n /\ i <= j
  BY <1>1, <1>4 DEF Begun
<1>5. /\ ps[j].dataStatus # START => ps[j].dataSize = Len(ps[j].data)
      /\ ps[j].dataStatus \in {CONT, END} => \E i \in Of(ps, s) : Begun(ps, s, i, j)
      /\ \A i \in Of(ps, s) : Begun(ps, s, i, j) =>
           /\ ps[j].dataStatus \in {CONT, END}
           /\ ps[j].dataStatus = END <=> SizeOf(ps, s, i, j) = ps[i].dataSize
  BY DEF Delimited, Fits
<1>6. j \in 1..n /\ qs[j] = ps[j]
  BY <1>1
<1>7. qs[j].dataStatus \in {CONT, END} => \E i \in Of(qs, s) : Begun(qs, s, i, j)
  BY <1>1, <1>2, <1>5, <1>6
<1>8. ASSUME NEW i \in Of(qs, s), Begun(qs, s, i, j)
      PROVE  /\ qs[j].dataStatus \in {CONT, END}
             /\ qs[j].dataStatus = END <=> SizeOf(qs, s, i, j) = qs[i].dataSize
  <2>1. i \in Of(ps, s) /\ i \in 1..n /\ i <= j /\ qs[i] = ps[i]
    BY <1>1, <1>4, <1>8
  <2>2. Begun(ps, s, i, j) /\ SizeOf(qs, s, i, j) = SizeOf(ps, s, i, j)
    BY <1>2, <1>3, <1>6, <1>8, <2>1
  <2> QED BY <1>5, <1>6, <2>1, <2>2
<1> QED BY <1>5, <1>6, <1>7, <1>8 DEF Fits, qs

\* What the loop of a sender knows of the packets it has written: none of them
\* is of a message that is not complete, or they are the front of the message
\* it is cutting up.
Cutting(o) == o.busy /\ o.count > 0

PartlySent(ps, s, o) == \E i \in Of(ps, s) :
  /\ Begun(ps, s, i, Len(ps) + 1)
  /\ ps[i].dataSize = Len(o.data)
  /\ SizeOf(ps, s, i, Len(ps)) = o.index

NothingBegun(ps, s) == \A i \in Of(ps, s) : ~ Begun(ps, s, i, Len(ps) + 1)

SentBy(ps, s, o) ==
  /\ Delimited(ps, s)
  /\ o.busy /\ o.count = 0 => o.dataStatus \in {FULL, START} /\ o.dataSize = Len(o.data)
  /\ IF Cutting(o) THEN PartlySent(ps, s, o) ELSE NothingBegun(ps, s)

PacketsInv == \A s \in Senders : Text(s) => SentBy(sent, s, out[s])

LEMMA PacketsInit == Init => PacketsInv
<1> SUFFICES ASSUME Init, NEW s \in Senders PROVE SentBy(sent, s, out[s])
  BY DEF PacketsInv
<1>1. sent = <<>> /\ out[s] = Idle
  BY DEF Init
<1>2. Of(sent, s) = {} /\ ~ out[s].busy
  BY <1>1 DEF Of, Idle
<1> QED BY <1>2 DEF SentBy, Cutting, Delimited, NothingBegun

LEMMA PacketsFrame ==
  ASSUME PacketsInv, UNCHANGED <<out, sent, asked>>
  PROVE  PacketsInv'
BY DEF PacketsInv, Text

\* sendMAXmsg begins with a message of which nothing is sent.
LEMMA PacketsCalls ==
  ASSUME SenderInv, PacketsInv, NEW s \in Senders, SendMAXmsg(s)
  PROVE  PacketsInv'
<1> DEFINE m == Head(plan.calls[s])
           o == [busy |-> TRUE, data |-> m, index |-> 0, left |-> Len(m), count |-> 0,
                 dataStatus |-> IF Len(m) <= Overflow THEN FULL ELSE START,
                 dataSize |-> Len(m)]
<1>1. sent' = sent /\ out' = [out EXCEPT ![s] = o] /\ out[s] = Idle
  BY DEF SendMAXmsg
<1>2. /\ o.busy = TRUE /\ o.count = 0 /\ o.dataStatus \in {FULL, START}
      /\ o.dataSize = Len(m) /\ o.data = m
  OBVIOUS
<1> HIDE DEF o
<1>3. out'[s] = o /\ \A t \in Senders : t # s => out'[t] = out[t]
  BY <1>1 DEF SenderInv
<1>0. \A t \in Senders : Text(t)' => Text(t)
  BY AskedGrows DEF Text
<1>4. ASSUME NEW t \in Senders, t # s, Text(t) PROVE SentBy(sent', t, out'[t])
  <2>1. SentBy(sent, t, out[t])
    BY <1>4 DEF PacketsInv
  <2> QED BY <1>1, <1>3, <1>4, <2>1
<1>5. ASSUME Text(s) PROVE SentBy(sent', s, out'[s])
  <2>1. SentBy(sent, s, Idle)
    BY <1>1, <1>5 DEF PacketsInv
  <2>2. ~ Cutting(Idle) /\ ~ Cutting(o)
    BY <1>2 DEF Cutting, Idle
  <2>3. SentBy(sent, s, o)
    BY <1>2, <2>1, <2>2 DEF SentBy
  <2> QED BY <1>1, <1>3, <2>3
<1> QED BY <1>0, <1>4, <1>5 DEF PacketsInv

\* A packet of somebody else is none of theirs.
LEMMA OthersPacket ==
  ASSUME NEW ps \in Seq(PacketSet), NEW p \in PacketSet, NEW s \in Senders, p.src # s,
         Delimited(ps, s)
  PROVE  LET n == Len(ps)  qs == Append(ps, p)
         IN  /\ Delimited(qs, s) /\ Len(qs) = n + 1 /\ Of(qs, s) = Of(ps, s)
             /\ \A i \in Of(ps, s) : /\ qs[i] = ps[i]
                                     /\ Begun(qs, s, i, (n + 1) + 1) <=> Begun(ps, s, i, n + 1)
                                     /\ SizeOf(qs, s, i, n + 1) = SizeOf(ps, s, i, n)
<1> DEFINE n == Len(ps)  qs == Append(ps, p)
<1>1. /\ n \in Nat /\ Len(qs) = n + 1 /\ \A i \in 1..n : qs[i] = ps[i]
      /\ Of(ps, s) \subseteq 1..n
      /\ Of(qs, s) = Of(ps, s) \cup {i \in {n + 1} : p.src = s}
  BY OneMore
<1>2. PartOf(s, p) = <<>> /\ Len(<<>>) = 0
  BY DEF PartOf
<1>3. \A i \in 1..n : SizeOf(qs, s, i, n + 1) = SizeOf(ps, s, i, n) + 0
  BY <1>2, SizeMore
<1>4. \A i \in 1..n : SizeOf(ps, s, i, n) \in Nat
  <2> SUFFICES ASSUME NEW i \in 1..n PROVE SizeOf(ps, s, i, n) \in Nat
    OBVIOUS
  <2>1. i \in Int /\ n \in Int /\ \A k \in i..n : ps[k] \in PacketSet
    <3>1. \A k \in i..n : k \in 1..n
      BY <1>1
    <3> QED BY <1>1, <3>1, ElementOfSeq
  <2>2. SubSeq(ps, i, n) \in Seq(PacketSet)
    BY <2>1, SubSeqProperties
  <2>3. FlattenSeq(Parts(SubSeq(ps, i, n), s)) \in Seq(Bytes)
    BY <2>2, PartsAppend
  <2> QED BY <2>3, LenProperties DEF SizeOf
<1>5. \A i \in 1..n : Begun(qs, s, i, n + 2) <=> Begun(ps, s, i, n + 1)
  BY BegunMore
<1>6. Of(qs, s) = Of(ps, s)
  BY <1>1
<1>7. Delimited(qs, s)
  <2>1. \A j \in Of(ps, s) : Fits(qs, s, j)
    BY DelimitedMore
  <2> HIDE DEF qs
  <2> QED BY <1>6, <2>1 DEF Delimited
<1>8. (n + 1) + 1 = n + 2
  BY <1>1
<1> HIDE DEF n, qs
<1>9. ASSUME NEW i \in Of(ps, s)
      PROVE  /\ qs[i] = ps[i]
             /\ Begun(qs, s, i, (n + 1) + 1) <=> Begun(ps, s, i, n + 1)
             /\ SizeOf(qs, s, i, n + 1) = SizeOf(ps, s, i, n)
  BY <1>1, <1>3, <1>4, <1>5, <1>8
<1> QED BY <1>1, <1>6, <1>7, <1>9 DEF n, qs

\* The status of the next packet tells where in the message the loop is.
LEMMA StatusIs ==
  ASSUME NEW o \in Job
  PROVE  /\ o.count > 0 => o.dataStatus \in {CONT, END}
         /\ o.dataStatus = FULL \/ o.dataStatus = END => o.left <= Overflow
         /\ o.dataStatus = START \/ o.dataStatus = CONT => o.left > Overflow
         /\ o.dataStatus \in {FULL, START, CONT, END}
         /\ o.count = 0 => o.index = 0 /\ o.left = Len(o.data)
<1>1. o.dataStatus \in FULL..END /\ o.left \in Nat /\ Overflow \in Nat /\ o.count \in Nat
      /\ o.index = o.count * Overflow /\ o.left = Len(o.data) - o.index /\ Len(o.data) \in Nat
  BY JobFields, ConstantsOK
<1>2. o.dataStatus \in {FULL, START, CONT, END}
  BY <1>1 DEF FULL, START, CONT, END
<1>3. o.count = 0 => o.index = 0 /\ o.left = Len(o.data)
  <2>1. o.count = 0 => o.index = 0 * Overflow /\ 0 * Overflow = 0
    BY <1>1
  <2>2. o.count = 0 => o.index = 0
    BY <2>1
  <2>3. o.left = Len(o.data) - o.index /\ Len(o.data) \in Nat
    BY <1>1
  <2> QED BY <2>2, <2>3
<1>4. /\ o.dataStatus = FULL  => o.count = 0 /\ o.left <= Overflow
      /\ o.dataStatus = START => o.count = 0 /\ o.left > Overflow
      /\ o.dataStatus = CONT  => o.left > Overflow
      /\ o.dataStatus = END   => o.left <= Overflow
  BY DEF Job
<1>5. o.count > 0 => o.dataStatus \in {CONT, END}
  BY <1>1, <1>2, <1>4
<1> QED BY <1>2, <1>3, <1>4, <1>5

\* The packet of the sender itself completes the message, or goes on with it.
LEMMA OwnPacket ==
  ASSUME NEW ps \in Seq(PacketSet), NEW p \in PacketSet, NEW s \in Senders, NEW o \in Job,
         NUL \notin Range(o.data), SentBy(ps, s, o), Fitting(p), p.src = s, p.data = Chunk(o),
         p.dataStatus = o.dataStatus, p.dataSize = o.dataSize
  PROVE  SentBy(Append(ps, p), s, IF o.left > Overflow THEN Advance(o) ELSE Idle)
<1> DEFINE n == Len(ps)  qs == Append(ps, p)  m == n + 1  b == Advance(o)  sz == Len(Chunk(o))  v == Overflow
           st == o.dataStatus
<1>1. /\ n \in Nat /\ Len(qs) = m /\ qs[m] = p /\ \A i \in 1..n : qs[i] = ps[i]
      /\ Of(ps, s) \subseteq 1..n /\ Of(qs, s) = Of(ps, s) \cup {m}
      /\ m + 1 = n + 2 /\ m \in Nat
  BY OneMore
<1>2. /\ o.busy = TRUE /\ o.left \in Nat /\ o.index \in Nat /\ Len(o.data) \in Nat /\ o.count \in Nat
      /\ o.left = Len(o.data) - o.index /\ v \in Nat /\ v > 0
      /\ sz = IF o.left > v THEN v ELSE o.left
  BY JobFields, ConstantsOK, ChunkIs
<1>3. /\ o.count > 0 => st \in {CONT, END}
      /\ st = FULL \/ st = END => o.left <= v
      /\ st = START \/ st = CONT => o.left > v
      /\ st \in {FULL, START, CONT, END}
      /\ o.count = 0 => o.index = 0 /\ o.left = Len(o.data)
  BY StatusIs
<1>4. FULL # CONT /\ FULL # END /\ START # CONT /\ START # END /\ CONT # END /\ FULL # START
  BY DEF FULL, START, CONT, END
<1>5. \A i \in Of(ps, s) : /\ Begun(qs, s, i, m) <=> Begun(ps, s, i, m)
                           /\ Begun(qs, s, i, m + 1) <=> Begun(ps, s, i, m) /\ st = CONT
  <2>1. \A i \in 1..n : /\ \A j \in 1..(n + 1) : Begun(qs, s, i, j) <=> Begun(ps, s, i, j)
                        /\ Begun(qs, s, i, n + 2) <=> Begun(ps, s, i, n + 1) /\ (p.src = s => p.dataStatus = CONT)
    BY BegunMore
  <2>2. m \in 1..(n + 1) /\ m = n + 1
    BY <1>1
  <2> HIDE DEF n, qs, m
  <2> QED BY <1>1, <2>1, <2>2
<1>6. /\ \A i \in Of(ps, s) : SizeOf(qs, s, i, m) = SizeOf(ps, s, i, n) + sz
      /\ SizeOf(qs, s, m, m) = sz
  <2>1. PartOf(s, p) = Chunk(o)
    BY DEF PartOf
  <2> QED BY <1>1, <2>1, SizeMore
<1>7. ~ Begun(qs, s, m, m) /\ (Begun(qs, s, m, m + 1) <=> st = START)
  <2>1. ~ (m < m) /\ m < m + 1 /\ \A k \in Of(qs, s) : ~ (m < k /\ k < m + 1)
    <3> HIDE DEF n, qs, m
    <3> QED BY <1>1
  <2> HIDE DEF n, qs, m
  <2> QED BY <1>1, <2>1 DEF Begun
<1>8. /\ Delimited(ps, s) /\ o.count = 0 => st \in {FULL, START} /\ p.dataSize = Len(o.data)
      /\ IF o.count > 0 THEN PartlySent(ps, s, o) ELSE NothingBegun(ps, s)
  BY <1>2 DEF SentBy, Cutting
<1>9. o.left > v => /\ b.busy = TRUE /\ b.count > 0 /\ b.data = o.data /\ b.index = o.index + v
  <2> SUFFICES ASSUME o.left > v PROVE b.busy = TRUE /\ b.count > 0 /\ b.data = o.data /\ b.index = o.index + v
    OBVIOUS
  <2>1. b \in Job /\ b.busy = TRUE /\ b.data = o.data /\ b.index = o.index + v
    BY AdvanceIs
  <2>2. b.count \in Nat /\ (b.count = 0 => b.index = 0)
    BY <2>1, JobFields, StatusIs
  <2> HIDE DEF b, v
  <2> QED BY <1>2, <2>1, <2>2
<1>10. sz \in Nat /\ p.dataSize \in Nat /\ (st # START => p.dataSize = sz)
  <2>1. sz \in Nat
    BY <1>2
  <2>2. Len(p.data) = IF p.dataStatus = START THEN Overflow ELSE p.dataSize
    BY DEF Fitting
  <2> QED BY <2>1, <2>2 DEF PacketSet
<1>11. Delimited(ps, s) /\ \A j \in Of(ps, s) : Fits(qs, s, j)
  <2>1. Delimited(ps, s)
    BY DEF SentBy
  <2> QED BY <2>1, DelimitedMore
<1> HIDE DEF n, qs, m, b, sz, v, st
<1>12. ASSUME o.count = 0
       PROVE  /\ NothingBegun(ps, s) /\ st \in {FULL, START} /\ p.dataSize = Len(o.data)
              /\ \A i \in Of(qs, s) : ~ Begun(qs, s, i, m)
  <2>1. NothingBegun(ps, s) /\ st \in {FULL, START} /\ p.dataSize = Len(o.data)
    BY <1>8, <1>11, <1>12
  <2>2. \A i \in Of(ps, s) : ~ Begun(ps, s, i, m)
    BY <2>1 DEF NothingBegun, m, n
  <2> QED BY <1>1, <1>5, <1>7, <2>1, <2>2
<1>13. ASSUME o.count > 0
       PROVE  \E i \in Of(ps, s) : /\ Begun(qs, s, i, m) /\ qs[i].dataSize = Len(o.data)
                                   /\ SizeOf(qs, s, i, m) = o.index + sz
  <2>1. PICK i \in Of(ps, s) : /\ Begun(ps, s, i, m) /\ ps[i].dataSize = Len(o.data)
                               /\ SizeOf(ps, s, i, n) = o.index
    BY <1>8, <1>13 DEF PartlySent, m, n
  <2>2. qs[i] = ps[i]
    BY <1>1
  <2> QED BY <1>5, <1>6, <2>1, <2>2
<1>14. Fits(qs, s, m)
  <2>1. CASE o.count = 0
    BY <1>1, <1>4, <1>10, <1>12, <2>1 DEF Fits, st, sz
  <2>2. CASE o.count > 0
    <3>1. PICK i \in Of(ps, s) : /\ Begun(qs, s, i, m) /\ qs[i].dataSize = Len(o.data)
                                 /\ SizeOf(qs, s, i, m) = o.index + sz
      BY <1>13, <2>2
    <3>2. \A k \in Of(qs, s) : Begun(qs, s, k, m) => k = i
      <4>1. qs \in Seq(PacketSet) /\ m \in Int
        BY <1>1, OneMore DEF qs
      <4> QED BY <1>1, <3>1, <4>1, BegunOnce
    <3>3. st \in {CONT, END} /\ p.dataStatus = st
      BY <1>3, <2>2 DEF st
    <3>4. st = END <=> o.index + sz = Len(o.data)
      BY <1>2, <1>3, <1>4, <3>3
    <3>5. i \in Of(qs, s) /\ qs[m] = p /\ Len(p.data) = sz
      BY <1>1 DEF sz
    <3> QED BY <1>4, <1>10, <3>1, <3>2, <3>3, <3>4, <3>5 DEF Fits
  <2> QED BY <1>2, <2>1, <2>2
<1>15. Delimited(qs, s)
  BY <1>1, <1>11, <1>14 DEF Delimited
<1>16. CASE o.left > v
  <2>1. st = START \/ st = CONT
    BY <1>2, <1>3, <1>16
  <2>2. \E i \in Of(qs, s) : /\ Begun(qs, s, i, m + 1) /\ qs[i].dataSize = Len(b.data)
                             /\ SizeOf(qs, s, i, m) = b.index
    <3>1. CASE o.count = 0
      <4>1. st = START /\ p.dataSize = Len(o.data) /\ o.index = 0
        BY <1>3, <1>4, <1>12, <2>1, <3>1
      <4>2. m \in Of(qs, s) /\ Begun(qs, s, m, m + 1) /\ qs[m].dataSize = Len(b.data)
        BY <1>1, <1>7, <1>9, <1>16, <4>1
      <4>3. SizeOf(qs, s, m, m) = b.index
        BY <1>2, <1>6, <1>9, <1>16, <4>1
      <4> QED BY <4>2, <4>3
    <3>2. CASE o.count > 0
      <4>1. PICK i \in Of(ps, s) : /\ Begun(qs, s, i, m) /\ qs[i].dataSize = Len(o.data)
                                   /\ SizeOf(qs, s, i, m) = o.index + sz
        BY <1>13, <3>2
      <4>2. st = CONT /\ sz = v
        BY <1>2, <1>3, <1>4, <1>16, <2>1, <3>2
      <4>3. Begun(qs, s, i, m + 1) /\ i \in Of(qs, s)
        BY <1>1, <1>5, <4>1, <4>2
      <4> QED BY <1>9, <1>16, <4>1, <4>2, <4>3
    <3> QED BY <1>2, <3>1, <3>2
  <2>3. PartlySent(qs, s, b)
    BY <1>1, <2>2 DEF PartlySent
  <2>4. Cutting(b)
    BY <1>9, <1>16 DEF Cutting
  <2>5. b.count # 0
    BY <1>9, <1>16
  <2>6. SentBy(qs, s, b)
    BY <1>15, <2>3, <2>4, <2>5 DEF SentBy
  <2> QED BY <1>16, <2>6 DEF qs, b, v
<1>17. CASE ~ (o.left > v)
  <2>1. st = FULL \/ st = END
    BY <1>2, <1>3, <1>17
  <2>2. \A i \in Of(qs, s) : ~ Begun(qs, s, i, m + 1)
    BY <1>1, <1>4, <1>5, <1>7, <2>1
  <2>3. NothingBegun(qs, s)
    BY <1>1, <2>2 DEF NothingBegun
  <2>4. ~ Cutting(Idle) /\ ~ Idle.busy
    BY DEF Cutting, Idle
  <2>5. SentBy(qs, s, Idle)
    BY <1>15, <2>3, <2>4 DEF SentBy
  <2> QED BY <1>17, <2>5 DEF qs, v
<1> QED BY <1>16, <1>17

LEMMA PacketsSends ==
  ASSUME SenderInv, PacketsInv, NEW s \in Senders, SendPacket(s)
  PROVE  PacketsInv'
<1> DEFINE o == out[s]
           p == Packet([src |-> s, dataStatus |-> o.dataStatus, dataSize |-> o.dataSize,
                        frame |-> Len(sent) + 1], Chunk(o))
           n == IF o.left > Overflow THEN Advance(o) ELSE Idle
<1>1. /\ o \in Job /\ p \in PacketSet /\ (Text(s) => NUL \notin Range(o.data) /\ Fitting(p))
      /\ p.src = s /\ p.data = Chunk(o)
      /\ p.dataStatus = o.dataStatus /\ p.dataSize = o.dataSize
      /\ sent' = Append(sent, p) /\ asked' = asked
      /\ out'[s] = n
      /\ \A t \in Senders : t # s => out'[t] = out[t]
  BY PacketIs
<1>2. sent \in Seq(PacketSet) /\ \A t \in Senders : Text(t) => SentBy(sent, t, out[t])
  BY DEF SenderInv, PacketsInv
<1> HIDE DEF p
<1>3. ASSUME Text(s) PROVE SentBy(sent', s, out'[s])
  <2>1. SentBy(sent, s, o) /\ NUL \notin Range(o.data) /\ Fitting(p)
    BY <1>1, <1>2, <1>3
  <2> HIDE DEF o
  <2>2. SentBy(Append(sent, p), s, n)
    BY <1>1, <1>2, <2>1, OwnPacket
  <2> QED BY <1>1, <2>2
<1>4. ASSUME NEW t \in Senders, t # s, Text(t) PROVE SentBy(sent', t, out'[t])
  <2> DEFINE a == out[t]  k == Len(sent)
  <2>1. SentBy(sent, t, a) /\ out'[t] = a /\ p.src # t
    BY <1>1, <1>2, <1>4
  <2> HIDE DEF a, n
  <2>2. /\ Delimited(sent, t)
        /\ a.busy /\ a.count = 0 => a.dataStatus \in {FULL, START} /\ a.dataSize = Len(a.data)
        /\ IF Cutting(a) THEN PartlySent(sent, t, a) ELSE NothingBegun(sent, t)
    BY <2>1 DEF SentBy
  <2>3. /\ Delimited(sent', t) /\ Len(sent') = k + 1 /\ Of(sent', t) = Of(sent, t)
        /\ \A i \in Of(sent, t) : /\ sent'[i] = sent[i]
                                  /\ Begun(sent', t, i, (k + 1) + 1) <=> Begun(sent, t, i, k + 1)
                                  /\ SizeOf(sent', t, i, k + 1) = SizeOf(sent, t, i, k)
    BY <1>1, <1>2, <2>1, <2>2, OthersPacket
  <2>4. Cutting(a) => PartlySent(sent', t, a)
    BY <2>2, <2>3 DEF PartlySent
  <2>5. ~ Cutting(a) => NothingBegun(sent', t)
    BY <2>2, <2>3 DEF NothingBegun
  <2>6. SentBy(sent', t, a)
    BY <2>2, <2>3, <2>4, <2>5 DEF SentBy
  <2> QED BY <2>1, <2>6
<1>5. \A t \in Senders : Text(t)' => Text(t)
  BY <1>1 DEF Text
<1> QED BY <1>3, <1>4, <1>5 DEF PacketsInv

LEMMA PacketsStep == SenderInv /\ PacketsInv /\ [Next]_vars => PacketsInv'
<1> SUFFICES ASSUME SenderInv, PacketsInv, [Next]_vars PROVE PacketsInv'
  OBVIOUS
<1>1. ASSUME NEW s \in Senders, SendPacket(s) PROVE PacketsInv'
  BY <1>1, PacketsSends
<1>2. ASSUME NEW s \in Senders, SendMAXmsg(s) PROVE PacketsInv'
  BY <1>2, PacketsCalls
<1>3. ASSUME \/ Arrive \/ RecMAXmsg \/ Receiver \/ UNCHANGED vars
             \/ \E x \in {STX, ETX} : WaitFor(x) \/ \E n \in 1..2 : WaitForNdata(n)
      PROVE  UNCHANGED <<out, sent, asked>>
  BY <1>3 DEF Arrive, RecMAXmsg, Receiver, FindStartMsg, BeginFrame, ReadBuf, ReadStale, Poll,
              MoreData, TimeOut, CheckMAXasciiMsg, AwaitMore, Awaited, WaitFor, WaitForNdata, vars, history
<1> QED BY <1>1, <1>2, <1>3, PacketsFrame DEF Next

\* However the senders interleave, the packets of each that was asked to send no
\* NUL delimit its messages: a packet CONT or END goes on with a message a START began, and END
\* comes with the byte that completes the size START announced.
THEOREM PacketsTheorem == Spec => []PacketsDelimit
<1>1. PacketsInv => PacketsDelimit
  BY DEF PacketsInv, PacketsDelimit, SentBy
<1>2. Init => SenderInv /\ PacketsInv
  BY SenderInit, PacketsInit
<1>3. (SenderInv /\ PacketsInv) /\ [Next]_vars => (SenderInv /\ PacketsInv)'
  BY SenderStep, PacketsStep
<1> QED BY <1>1, <1>2, <1>3, PTL DEF Spec

-----------------------------------------------------------------------------
(* The invariant of the line                                               *)

\* Sequences of whatever symbols there are on the line and in the receiver.
Streams == \E S : wire \in Seq(S) /\ input \in Seq(S) /\ messageStr \in Seq(S) /\ buffer \in Seq(S)

LineInv == Streams /\ nChars \in Int /\ CountIsTrue

\* A fault leaves at most one symbol of one.
LEMMA OneSymbol ==
  ASSUME NEW x, NEW y \in Lost(x) \cup Altered(x) \cup Ended(x)
  PROVE  y = <<>> \/ \E z : y = <<z>>
<1>1. ASSUME y \in Lost(x) PROVE y = <<>> \/ \E z : y = <<z>>
  BY <1>1 DEF Lost
<1>2. ASSUME y \in Altered(x) PROVE y = <<>> \/ \E z : y = <<z>>
  BY <1>2 DEF Altered
<1>3. ASSUME y \in Ended(x) PROVE y = <<>> \/ \E z : y = <<z>>
  BY <1>3 DEF Ended
<1> QED BY <1>1, <1>2, <1>3

\* What is where in a frame.
LEMMA FrameIsSeq ==
  ASSUME NEW h, NEW d \in Seq(Bytes)
  PROVE  /\ \E S : Frame(h, d) \in Seq(S)
         /\ Len(Frame(h, d)) = Len(d) + 4
         /\ Frame(h, d)[1] = STX /\ Frame(h, d)[2] = Header(h)
         /\ \A i \in 1..Len(d) : Frame(h, d)[i + 2] = Symbol(d[i])
         /\ \E v : Frame(h, d)[Len(d) + 3] = Sum(v)
         /\ Frame(h, d)[Len(d) + 4] = ETX
<1> DEFINE e == Encode(d)  n == Len(d)
           body == <<Header(h)>> \o e
           v == calculateByteChecksum(body)
           S == {STX, Header(h), Sum(v), ETX} \cup {Symbol(d[i]) : i \in 1..n}
<1>1. n \in Nat /\ DOMAIN d = 1..n
  BY LenProperties
<1>2. e \in Seq(S) /\ Len(e) = n /\ \A i \in 1..n : e[i] = Symbol(d[i])
  BY <1>1 DEF Encode
<1> HIDE DEF e
<1>3. <<Header(h)>> \in Seq(S) /\ <<STX>> \in Seq(S) /\ <<Sum(v), ETX>> \in Seq(S)
  OBVIOUS
<1>4. Frame(h, d) = (<<STX>> \o body) \o <<Sum(v), ETX>>
  BY DEF Frame, e
<1> HIDE DEF v, S
<1>5. /\ body \in Seq(S) /\ Len(body) = n + 1 /\ body[1] = Header(h)
      /\ \A i \in 1..n : body[i + 1] = e[i]
  BY <1>1, <1>2, <1>3
<1> HIDE DEF body
<1> DEFINE f == <<STX>> \o body
<1>6. /\ f \in Seq(S) /\ Len(f) = n + 2 /\ f[1] = STX /\ f[2] = Header(h)
      /\ \A i \in 1..n : f[i + 2] = e[i]
  <2>1. f \in Seq(S) /\ Len(f) = n + 2 /\ f[1] = STX
    BY <1>1, <1>3, <1>5
  <2>2. \A j \in 1..(n + 1) : f[j + 1] = body[j]
    BY <1>1, <1>3, <1>5
  <2>3. f[2] = Header(h)
    <3>1. 1 \in 1..(n + 1)
      BY <1>1
    <3> QED BY <1>5, <2>2, <3>1
  <2>4. ASSUME NEW i \in 1..n PROVE f[i + 2] = e[i]
    <3> DEFINE j == i + 1
    <3>1. j \in 1..(n + 1) /\ j + 1 = i + 2
      BY <1>1
    <3>2. f[j + 1] = body[j]
      BY <2>2, <3>1
    <3> QED BY <1>5, <3>1, <3>2
  <2> QED BY <2>1, <2>3, <2>4
<1> HIDE DEF f
<1> DEFINE g == f \o <<Sum(v), ETX>>
<1>7. /\ g \in Seq(S) /\ Len(g) = n + 4 /\ g[n + 3] = Sum(v) /\ g[n + 4] = ETX
      /\ \A i \in 1..(n + 2) : g[i] = f[i]
  BY <1>1, <1>3, <1>6
<1>8. 1 \in 1..(n + 2) /\ 2 \in 1..(n + 2) /\ \A i \in 1..n : i + 2 \in 1..(n + 2)
  BY <1>1
<1> HIDE DEF g
<1>9. \A i \in 1..n : g[i + 2] = Symbol(d[i])
  BY <1>2, <1>6, <1>7, <1>8
<1>10. Frame(h, d) = g
  BY <1>4 DEF g, f
<1> QED BY <1>6, <1>7, <1>8, <1>9, <1>10

\* At first there is nothing to count.
LEMMA LineInit == Init => LineInv
BY DEF Init, LineInv, Streams, CountIsTrue

\* The beginning of a sequence over S.
LEMMA Prefix ==
  ASSUME NEW S, NEW s \in Seq(S), NEW k \in 0..Len(s)
  PROVE  SubSeq(s, 1, k) \in Seq(S)
<1>1. 1 \in Int /\ k \in Int /\ \A i \in 1..k : s[i] \in S
  BY ElementOfSeq, LenProperties
<1> QED BY <1>1, SubSeqProperties

\* Two collections of sequences, one collection.
LEMMA TwoStreams ==
  ASSUME NEW S, NEW a \in Seq(S), NEW b \in Seq(S), NEW d \in Seq(S), NEW e \in Seq(S),
         NEW T, NEW t \in Seq(T)
  PROVE  \E U : /\ a \in Seq(U) /\ b \in Seq(U) /\ d \in Seq(U) /\ e \in Seq(U) /\ t \in Seq(U)
<1> DEFINE U == S \cup T
<1>1. S \subseteq U /\ T \subseteq U
  OBVIOUS
<1> HIDE DEF U
<1> QED BY <1>1, SeqMonotonic

\* A frame on the wire, cut or not, leaves the count alone.
LEMMA LineSends ==
  ASSUME SenderInv, LineInv, NEW s \in Senders, SendPacket(s)
  PROVE  LineInv'
<1> DEFINE o == out[s]
           h == [src |-> s, dataStatus |-> o.dataStatus, dataSize |-> o.dataSize,
                 frame |-> Len(sent) + 1]
           f == Frame(h, Chunk(o))
<1>1. Chunk(o) \in Seq(Bytes)
  BY ChunkType DEF SenderInv, SendPacket, Idle
<1>2. PICK T : f \in Seq(T)
  <2> HIDE DEF h, o
  <2> QED BY <1>1, FrameIsSeq
<1>3. \E t \in Seq(T) : wire' = wire \o t
  <2>1. CASE wire' = wire \o f
    BY <1>2, <2>1
  <2>2. CASE \E k \in 0..(Len(f) - 1) : wire' = wire \o SubSeq(f, 1, k)
    <3> HIDE DEF f
    <3>1. PICK k \in 0..(Len(f) - 1) : wire' = wire \o SubSeq(f, 1, k)
      BY <2>2
    <3>2. k \in 0..Len(f)
      BY <1>2, LenProperties
    <3> QED BY <1>2, <3>1, <3>2, Prefix
  <2> QED BY <2>1, <2>2 DEF SendPacket
<1>4. PICK t \in Seq(T) : wire' = wire \o t
  BY <1>3
<1>5. PICK S : wire \in Seq(S) /\ input \in Seq(S) /\ messageStr \in Seq(S) /\ buffer \in Seq(S)
  BY DEF LineInv, Streams
<1>6. PICK U : /\ wire \in Seq(U) /\ input \in Seq(U) /\ messageStr \in Seq(U) /\ buffer \in Seq(U)
               /\ t \in Seq(U)
  BY <1>5, TwoStreams
<1>7. wire \o t \in Seq(U)
  BY <1>6, ConcatProperties
<1>8. UNCHANGED <<input, messageStr, buffer, nChars, pc>>
  BY DEF SendPacket, receiver
<1> QED BY <1>4, <1>6, <1>7, <1>8 DEF LineInv, Streams, CountIsTrue

\* What arrives, whole, altered or lost, never makes the buffer shorter.
LEMMA LineArrives == LineInv /\ Arrive => LineInv'
<1> SUFFICES ASSUME LineInv, Arrive PROVE LineInv'
  OBVIOUS
<1>1. PICK S : wire \in Seq(S) /\ input \in Seq(S) /\ messageStr \in Seq(S) /\ buffer \in Seq(S)
  BY DEF LineInv, Streams
<1>2. wire # <<>> /\ wire' = Tail(wire) /\ UNCHANGED <<messageStr, buffer, nChars, pc>>
  BY DEF Arrive, receiver
<1>3. \E y : (y = <<>> \/ \E z : y = <<z>>) /\ input' = input \o y
  <2>1. CASE input' = Append(input, wire[1])
    <3>1. Append(input, wire[1]) = input \o <<wire[1]>>
      <4>1. wire[1] \in S
        BY <1>1, <1>2, ElementOfSeq, EmptySeq, LenProperties
      <4> QED BY <1>1, <4>1, AppendIsConcat
    <3> QED BY <2>1, <3>1
  <2>2. CASE \E y \in Lost(wire[1]) \cup Altered(wire[1]) \cup Ended(wire[1]) : input' = input \o y
    BY <2>2, OneSymbol
  <2>3. ASSUME NEW y \in (IF "lose" \in Faults THEN Lost(wire[1]) ELSE {})
                   \cup (IF "alter" \in Faults THEN Altered(wire[1]) ELSE {})
                   \cup (IF "end" \in Faults THEN Ended(wire[1]) ELSE {})
        PROVE  y \in Lost(wire[1]) \cup Altered(wire[1]) \cup Ended(wire[1])
    BY <2>3
  <2> QED BY <2>1, <2>2, <2>3 DEF Arrive
<1>4. PICK y : (y = <<>> \/ \E z : y = <<z>>) /\ input' = input \o y
  BY <1>3
<1>5. \E T : y \in Seq(T)
  <2>1. CASE y = <<>>
    BY <2>1, EmptySeq
  <2>2. ASSUME NEW z, y = <<z>> PROVE y \in Seq({z})
    BY <2>2
  <2> QED BY <1>4, <2>1, <2>2
<1>6. PICK T : y \in Seq(T)
  BY <1>5
<1> DEFINE U == S \cup T
<1>7. /\ wire \in Seq(U) /\ input \in Seq(U) /\ messageStr \in Seq(U) /\ buffer \in Seq(U)
      /\ y \in Seq(U)
  <2>1. S \subseteq U /\ T \subseteq U
    OBVIOUS
  <2> HIDE DEF U
  <2>2. wire \in Seq(U) /\ input \in Seq(U)
    BY <1>1, <2>1, SeqMonotonic
  <2>3. messageStr \in Seq(U) /\ buffer \in Seq(U)
    BY <1>1, <2>1, SeqMonotonic
  <2>4. y \in Seq(U)
    BY <1>6, <2>1, SeqMonotonic
  <2> QED BY <2>2, <2>3, <2>4
<1> HIDE DEF U
<1>8. /\ input \o y \in Seq(U) /\ Len(input \o y) = Len(input) + Len(y)
      /\ Len(y) \in Nat /\ Len(input) \in Nat
  BY <1>7, ConcatProperties, LenProperties
<1>9. Tail(wire) \in Seq(U)
  BY <1>2, <1>7, HeadTailProperties
<1> HIDE DEF Arrive
<1>10. Streams'
  BY <1>2, <1>4, <1>7, <1>8, <1>9 DEF Streams
<1>11. CountIsTrue' /\ nChars' \in Int
  BY <1>2, <1>4, <1>8 DEF LineInv, CountIsTrue
<1> QED BY <1>10, <1>11 DEF LineInv

\* One turn of the receiver's loop, with the symbol x.
LEMMA GotStreams ==
  ASSUME NEW x, Got(x), NEW S, messageStr \in Seq(S), buffer \in Seq(S)
  PROVE  \E T : S \subseteq T /\ messageStr' \in Seq(T) /\ buffer' \in Seq(T)
<1> DEFINE T == S \cup {x, STX}
<1>1. S \subseteq T /\ x \in T /\ STX \in T
  OBVIOUS
<1> HIDE DEF T
<1>2. messageStr \in Seq(T) /\ buffer \in Seq(T) /\ <<STX>> \in Seq(T) /\ <<>> \in Seq(T)
  BY <1>1, SeqMonotonic, EmptySeq
<1>3. Append(buffer, x) \in Seq(T)
  BY <1>1, <1>2, AppendProperties
<1>4. messageStr \o Append(buffer, x) \in Seq(T)
  BY <1>2, <1>3, ConcatProperties
<1>5. buffer' \in {<<STX>>, <<>>, Append(buffer, x)}
  BY DEF Got
<1>6. messageStr' \in {<<>>, messageStr \o Append(buffer, x), messageStr}
  BY DEF Got
<1> QED BY <1>1, <1>2, <1>3, <1>4, <1>5, <1>6

\* A turn counts down by one, or has stopped counting.
LEMMA GotCount ==
  ASSUME NEW x, Got(x), nChars \in Int
  PROVE  nChars' \in Int /\ (pc' = "read" => nChars' # 0)
         /\ (nChars' > 0 => nChars > 0 /\ nChars' = nChars - 1)
<1> DEFINE left == IF nChars <= 0 THEN -1 ELSE nChars - 1
<1>1. /\ nChars' = left
      /\ pc' = CASE x = ETX -> "check"
                 [] x # ETX /\ left = 0 -> "wait"
                 [] x # ETX /\ left # 0 -> "read"
  BY DEF Got
<1>2. left \in Int /\ (left > 0 => nChars > 0 /\ left = nChars - 1)
  OBVIOUS
<1>3. nChars' = left /\ (pc' = "read" => left # 0)
  BY <1>1
<1> QED BY <1>2, <1>3

\* What a return leaves of the state that matters here.
LEMMA ReturnIs ==
  ASSUME NEW r, Return(r)
  PROVE  pc' = "idle" /\ nChars' = 0 /\ buffer' = <<>> /\ messageStr' = <<>>
BY DEF Return

\* A call that returns counts nothing.
LEMMA LineReturns ==
  ASSUME LineInv, NEW r, Return(r), UNCHANGED wire,
         input' = input \/ input' = <<>> \/ (input # <<>> /\ input' = Tail(input))
  PROVE  LineInv'
<1>1. PICK S : wire \in Seq(S) /\ input \in Seq(S)
  BY DEF LineInv, Streams
<1>2. input' \in Seq(S) /\ messageStr' \in Seq(S) /\ buffer' \in Seq(S)
  BY <1>1, ReturnIs, EmptySeq, HeadTailProperties
<1>3. pc' = "idle" /\ nChars' = 0
  BY ReturnIs
<1> QED BY <1>1, <1>2, <1>3 DEF LineInv, Streams, CountIsTrue

\* A symbol that is read is counted; a stale one only lowers the count.
LEMMA LineReads ==
  ASSUME LineInv, ReadBuf \/ ReadStale
  PROVE  LineInv'
<1>1. PICK S : wire \in Seq(S) /\ input \in Seq(S) /\ messageStr \in Seq(S) /\ buffer \in Seq(S)
  BY DEF LineInv, Streams
<1>2. ASSUME ReadBuf PROVE LineInv'
  <2>1. /\ Got(input[1]) /\ input # <<>> /\ input' = Tail(input) /\ wire' = wire
        /\ pc = "read" /\ nChars \in Int
    BY <1>2 DEF ReadBuf, LineInv
  <2>2. PICK T : S \subseteq T /\ messageStr' \in Seq(T) /\ buffer' \in Seq(T)
    BY <1>1, <2>1, GotStreams
  <2>3. wire' \in Seq(T) /\ input' \in Seq(T)
    BY <1>1, <2>1, <2>2, SeqMonotonic, HeadTailProperties
  <2>4. Len(input) \in Nat /\ Len(input') = Len(input) - 1
    BY <1>1, <2>1, HeadTailProperties, LenProperties
  <2>5. nChars' \in Int /\ (nChars' > 0 => nChars > 0 /\ nChars' = nChars - 1)
    BY <2>1, GotCount
  <2>6. nChars > 0 => Len(input) >= nChars
    BY <2>1 DEF LineInv, CountIsTrue
  <2> QED BY <2>1, <2>2, <2>3, <2>4, <2>5, <2>6 DEF LineInv, Streams, CountIsTrue
<1>3. ASSUME ReadStale, NEW x, Got(x) PROVE LineInv'
  <2>1. input' = input /\ wire' = wire /\ pc = "read" /\ nChars \in Int
    BY <1>3 DEF ReadStale, LineInv
  <2>2. PICK T : S \subseteq T /\ messageStr' \in Seq(T) /\ buffer' \in Seq(T)
    BY <1>1, <1>3, GotStreams
  <2>3. wire' \in Seq(T) /\ input' \in Seq(T)
    BY <1>1, <2>1, <2>2, SeqMonotonic
  <2>4. Len(input) \in Nat
    BY <1>1, LenProperties
  <2>5. nChars' \in Int /\ (nChars' > 0 => nChars > 0 /\ nChars' = nChars - 1)
    BY <1>3, <2>1, GotCount
  <2>6. nChars > 0 => Len(input) >= nChars
    BY <2>1 DEF LineInv, CountIsTrue
  <2> QED BY <2>1, <2>2, <2>3, <2>4, <2>5, <2>6 DEF LineInv, Streams, CountIsTrue
<1>4. ASSUME ReadStale, nChars' = -1, UNCHANGED <<pc, buffer, messageStr, input, wire>> PROVE LineInv'
  BY <1>1, <1>4 DEF LineInv, Streams, CountIsTrue
<1>5. ReadStale => \/ \E x : Got(x)
                   \/ nChars' = -1 /\ UNCHANGED <<pc, buffer, messageStr, input, wire>>
  BY DEF ReadStale
<1> QED BY <1>2, <1>3, <1>4, <1>5

\* findStartMsg does not count.
LEMMA LineFinds == ASSUME LineInv, FindStartMsg PROVE LineInv'
<1>1. PICK S : wire \in Seq(S) /\ input \in Seq(S) /\ messageStr \in Seq(S) /\ buffer \in Seq(S)
  BY DEF LineInv, Streams
<1>2. CASE input' = <<>> /\ Return("error")
  BY <1>2, LineReturns DEF FindStartMsg
<1>3. CASE ~ (input' = <<>> /\ Return("error"))
  <2>1. /\ buffer' = <<STX>> /\ pc' = "begin" /\ UNCHANGED <<nChars, messageStr, wire>>
        /\ \E i \in Starts(input) : input' = SubSeq(input, i + 1, Len(input))
    BY <1>3 DEF FindStartMsg
  <2>2. PICK i \in Starts(input) : input' = SubSeq(input, i + 1, Len(input))
    BY <2>1
  <2>3. input' \in Seq(S)
    <3> DEFINE j == i + 1  k == Len(input)
    <3>1. j \in Int /\ k \in Int /\ \A m \in j..k : input[m] \in S
      BY <1>1, ElementOfSeq, LenProperties DEF Starts
    <3> HIDE DEF j, k
    <3> QED BY <1>1, <2>2, <3>1, SubSeqProperties DEF j, k
  <2>4. <<STX>> \in Seq({STX})
    OBVIOUS
  <2>5. PICK U : /\ wire \in Seq(U) /\ input' \in Seq(U) /\ messageStr \in Seq(U) /\ buffer \in Seq(U)
                 /\ <<STX>> \in Seq(U)
    <3> DEFINE a == input'  t == <<STX>>  T == {STX}
    <3>1. a \in Seq(S) /\ t \in Seq(T)
      BY <2>3, <2>4
    <3> HIDE DEF a, t, T
    <3>2. wire \in Seq(S) /\ messageStr \in Seq(S) /\ buffer \in Seq(S)
      BY <1>1
    <3>3. \E U : /\ wire \in Seq(U) /\ a \in Seq(U) /\ messageStr \in Seq(U) /\ buffer \in Seq(U)
                 /\ t \in Seq(U)
      BY <3>1, <3>2, TwoStreams
    <3> QED BY <3>3 DEF a, t
  <2> QED BY <2>1, <2>5 DEF LineInv, Streams, CountIsTrue
<1> QED BY <1>2, <1>3

\* No step makes the count too high.
LEMMA LineStep == SenderInv /\ LineInv /\ [Next]_vars => LineInv'
<1> SUFFICES ASSUME SenderInv, LineInv, [Next]_vars PROVE LineInv'
  OBVIOUS
<1>0. PICK S : wire \in Seq(S) /\ input \in Seq(S) /\ messageStr \in Seq(S) /\ buffer \in Seq(S)
  BY DEF LineInv, Streams
<1>1. ASSUME NEW s \in Senders, SendPacket(s) PROVE LineInv'
  BY <1>1, LineSends
<1>2. ASSUME UNCHANGED <<wire, input, messageStr, buffer, nChars>>, pc' # "read" \/ pc' = pc PROVE LineInv'
  BY <1>2 DEF LineInv, Streams, CountIsTrue
<1>3. ASSUME NEW s \in Senders, SendMAXmsg(s) PROVE LineInv'
  BY <1>2, <1>3 DEF SendMAXmsg, line, receiver
<1>4. ASSUME RecMAXmsg \/ (\E x : WaitFor(x)) \/ (\E n : WaitForNdata(n)) \/ Poll \/ UNCHANGED vars
      PROVE  LineInv'
  <2>1. UNCHANGED <<wire, input, messageStr, buffer, nChars>> /\ (pc' # "read" \/ pc' = pc)
    BY <1>4 DEF RecMAXmsg, WaitFor, WaitForNdata, Poll, vars, line, receiver
  <2> QED BY <1>2, <2>1
<1>5. ASSUME BeginFrame \/ MoreData PROVE LineInv'
  <2>1. UNCHANGED <<wire, input, messageStr, buffer>> /\ nChars' = Len(input)
    BY <1>5 DEF BeginFrame, MoreData, line
  <2>2. Len(input) \in Nat
    BY <1>0, LenProperties
  <2> QED BY <1>0, <2>1, <2>2 DEF LineInv, Streams, CountIsTrue
<1>6. ASSUME Arrive PROVE LineInv'
  BY <1>6, LineArrives
<1>7. ASSUME FindStartMsg PROVE LineInv'
  BY <1>7, LineFinds
<1>8. ASSUME ReadBuf \/ ReadStale PROVE LineInv'
  BY <1>8, LineReads
<1>9. ASSUME TimeOut PROVE LineInv'
  BY <1>9, LineReturns DEF TimeOut, line
<1>10. ASSUME CheckMAXasciiMsg PROVE LineInv'
  <2>1. UNCHANGED <<wire, input>> /\ \E r : Return(r)
    BY <1>10 DEF CheckMAXasciiMsg, Reject, line
  <2> QED BY <2>1, LineReturns
<1>11. ASSUME AwaitMore PROVE LineInv'
  <2>1. UNCHANGED <<wire, input>>
    BY <1>11 DEF AwaitMore, line
  <2>2. Return("gave up") \/ UNCHANGED <<messageStr, buffer, nChars, pc>>
    BY <1>11 DEF AwaitMore
  <2> QED BY <1>2, <2>1, <2>2, LineReturns
<1>12. ASSUME Awaited PROVE LineInv'
  <2>1. UNCHANGED wire /\ (input' = input \/ (input # <<>> /\ input' = Tail(input)))
    BY <1>12, Zenon DEF Awaited
  <2>2. Return("arrived") \/ (UNCHANGED <<messageStr, buffer, nChars, pc>> /\ pc = "response")
    BY <1>12, Zenon DEF Awaited
  <2>3. CASE Return("arrived")
    BY <2>1, <2>3, LineReturns
  <2>4. CASE UNCHANGED <<messageStr, buffer, nChars, pc>> /\ pc = "response"
    <3>1. input' \in Seq(S)
      BY <1>0, <2>1, HeadTailProperties
    <3> QED BY <1>0, <2>1, <2>4, <3>1 DEF LineInv, Streams, CountIsTrue
  <2> QED BY <2>2, <2>3, <2>4
<1> QED BY <1>1, <1>3, <1>4, <1>5, <1>6, <1>7, <1>8, <1>9, <1>10, <1>11, <1>12 DEF Next, Receiver

\* The receiver's count is true: while it still counts, as many symbols as it
\* believes to be left are in the port's buffer, whatever arrives meanwhile and
\* however often it has waited; so readBuf blocks only once counting has ended.
THEOREM CountTheorem == Spec => []CountIsTrue
<1>1. LineInv => CountIsTrue
  BY DEF LineInv
<1> QED BY <1>1, SenderInit, SenderStep, LineInit, LineStep, PTL DEF Spec

-----------------------------------------------------------------------------
(* Frames                                                                  *)

\* Packets whose data are no bytes that begin or end a frame.
Ordinary == Bytes \ {START_MSG, END_MSG}
PlainSet == {p \in PacketSet : p.data \in Seq(Ordinary)}

HeadOf(ps, k) == [src |-> ps[k].src, dataStatus |-> ps[k].dataStatus,
                  dataSize |-> ps[k].dataSize, frame |-> k]

\* The frame of the k-th packet, and its length.
FrameOf(ps, k) == Frame(HeadOf(ps, k), ps[k].data)
Size(ps, k)    == Len(ps[k].data) + 4

\* STX is only at the beginning of a frame, ETX only at its end.
LEMMA FrameOfIs ==
  ASSUME NEW ps \in Seq(PlainSet), NEW k \in 1..Len(ps)
  PROVE  /\ \E S : FrameOf(ps, k) \in Seq(S)
         /\ Size(ps, k) \in Nat /\ Size(ps, k) >= 4 /\ Len(FrameOf(ps, k)) = Size(ps, k)
         /\ FrameOf(ps, k)[1] = STX /\ FrameOf(ps, k)[2] = Header(HeadOf(ps, k))
         /\ \A i \in 1..Len(ps[k].data) : FrameOf(ps, k)[i + 2] = Byte(ps[k].data[i])
         /\ \A i \in 1..Size(ps, k) : /\ FrameOf(ps, k)[i] = STX => i = 1
                                      /\ FrameOf(ps, k)[i] = ETX <=> i = Size(ps, k)
<1> DEFINE d == ps[k].data  n == Len(d)  h == HeadOf(ps, k)  f == FrameOf(ps, k)
<1>1. d \in Seq(Bytes) /\ n \in Nat /\ \A i \in 1..n : Symbol(d[i]) = Byte(d[i])
  <2>1. ps[k] \in PlainSet
    BY ElementOfSeq
  <2>2. d \in Seq(Ordinary) /\ d \in Seq(Bytes)
    BY <2>1 DEF PlainSet, PacketSet
  <2>3. \A i \in 1..n : d[i] \in Ordinary
    BY <2>2, ElementOfSeq
  <2> QED BY <2>2, <2>3, LenProperties DEF Symbol, Ordinary
<1>2. f = Frame(h, d) /\ Size(ps, k) = n + 4
  BY DEF FrameOf, Size
<1> HIDE DEF h, d, f
<1>3. /\ \E S : f \in Seq(S)
      /\ Len(f) = n + 4 /\ f[1] = STX /\ f[2] = Header(h)
      /\ \A i \in 1..n : f[i + 2] = Byte(d[i])
      /\ \E v : f[n + 3] = Sum(v)
      /\ f[n + 4] = ETX
  <2>1. \A i \in 1..n : f[i + 2] = Symbol(d[i])
    BY <1>1, <1>2, FrameIsSeq
  <2> QED BY <1>1, <1>2, <2>1, FrameIsSeq
<1> HIDE DEF n
<1>4. ASSUME NEW i \in 1..(n + 4) PROVE (f[i] = STX => i = 1) /\ (f[i] = ETX <=> i = n + 4)
  <2>1. CASE i = 1
    BY <1>1, <1>3, <2>1 DEF STX, ETX
  <2>2. CASE i = 2
    BY <1>1, <1>3, <2>2 DEF STX, ETX, Header
  <2>3. CASE i \in 3..(n + 2)
    <3> DEFINE j == i - 2
    <3>1. j \in 1..n /\ j + 2 = i
      BY <1>1, <2>3
    <3>2. f[j + 2] = Byte(d[j])
      BY <1>3, <3>1
    <3>3. i # 1 /\ i # n + 4
      BY <1>1, <2>3
    <3> QED BY <3>1, <3>2, <3>3 DEF STX, ETX, Byte
  <2>4. CASE i = n + 3
    BY <1>1, <1>3, <2>4 DEF STX, ETX, Sum
  <2>5. CASE i = n + 4
    BY <1>1, <1>3, <2>5 DEF STX, ETX
  <2> QED BY <1>1, <2>1, <2>2, <2>3, <2>4, <2>5
<1> QED BY <1>1, <1>2, <1>3, <1>4 DEF f, h, d, n

\* A further packet changes no earlier frame.
LEMMA FrameOfAppend ==
  ASSUME NEW ps \in Seq(PlainSet), NEW p \in PlainSet, NEW k \in 1..Len(ps)
  PROVE  FrameOf(Append(ps, p), k) = FrameOf(ps, k) /\ Size(Append(ps, p), k) = Size(ps, k)
<1>1. Append(ps, p)[k] = ps[k]
  BY AppendProperties
<1> QED BY <1>1 DEF FrameOf, Size, HeadOf

\* Data without such bytes.
LEMMA PlainData ==
  ASSUME NEW d \in Seq(Bytes), Range(d) \cap {START_MSG, END_MSG} = {}
  PROVE  d \in Seq(Ordinary)
<1>1. Len(d) \in Nat /\ d = [i \in 1..Len(d) |-> d[i]]
  OBVIOUS
<1>2. ASSUME NEW i \in 1..Len(d) PROVE d[i] \in Ordinary
  <2>1. d[i] \in Bytes /\ d[i] \in Range(d)
    BY ElementOfSeq, RangeEquality
  <2> QED BY <2>1 DEF Ordinary
<1> QED BY <1>1, <1>2

-----------------------------------------------------------------------------
(* What is on its way to the receiver while no fault has happened: the end *)
(* of a frame and whole frames, in the order of the packets.  num and pos  *)
(* tell for each symbol which frame it is of, and where it is in it.       *)

OnPlace(t, lo, ps, num, pos) ==
  \A i \in 1..Len(t) : /\ num[i] \in (lo + 1)..Len(ps)
                       /\ pos[i] \in 1..Size(ps, num[i])
                       /\ t[i] = FrameOf(ps, num[i])[pos[i]]

Consecutive(n, ps, num, pos) ==
  \A i, j \in 1..n : j = i + 1 /\ pos[i] # Size(ps, num[i]) => num[j] = num[i] /\ pos[j] = pos[i] + 1

InOrder(n, ps, num, pos) ==
  \A i, j \in 1..n : i < j => num[i] <= num[j] /\ (pos[i] = Size(ps, num[i]) => num[i] < num[j])

Complete(n, ps, num, pos) ==
  \A i \in 1..n : i = n => pos[i] = Size(ps, num[i])

Marks(t, lo, ps, num, pos) ==
  /\ OnPlace(t, lo, ps, num, pos)
  /\ Consecutive(Len(t), ps, num, pos)
  /\ InOrder(Len(t), ps, num, pos)
  /\ Complete(Len(t), ps, num, pos)

Stream(t, lo, ps) == \E num, pos : Marks(t, lo, ps, num, pos)

\* u is t without its first m members.
IsRest(u, t, m, l) == \A i \in 1..l : u[i] = t[i + m]

\* The symbols after the m-th are of frames after the one with number lo.
After(n, m, lo, ps, num) == \A i \in 1..n : i > m => num[i] \in (lo + 1)..Len(ps)

\* The end of such a sequence is one.
LEMMA Dropped ==
  ASSUME NEW t, NEW n \in Nat, Len(t) = n, NEW lo, NEW ps, NEW num, NEW pos, Marks(t, lo, ps, num, pos),
         NEW m \in Nat, NEW l \in Nat, n = m + l, NEW u, Len(u) = l, IsRest(u, t, m, l),
         NEW lo2, After(n, m, lo2, ps, num)
  PROVE  Stream(u, lo2, ps)
<1> DEFINE num2 == [i \in 1..l |-> num[i + m]]
           pos2 == [i \in 1..l |-> pos[i + m]]
<1>1. l \in Nat /\ \A i \in 1..l : i + m \in 1..n /\ i + m > m
  OBVIOUS
<1>2. \A i \in 1..l : num2[i] = num[i + m] /\ pos2[i] = pos[i + m]
  OBVIOUS
<1> HIDE DEF num2, pos2
<1>3. OnPlace(u, lo2, ps, num2, pos2)
  <2> SUFFICES ASSUME NEW i \in 1..l
               PROVE  /\ num2[i] \in (lo2 + 1)..Len(ps)
                      /\ pos2[i] \in 1..Size(ps, num2[i])
                      /\ u[i] = FrameOf(ps, num2[i])[pos2[i]]
    BY DEF OnPlace
  <2> DEFINE a == i + m
  <2>1. a \in 1..n /\ a > m
    BY <1>1
  <2>2. num2[i] = num[a] /\ pos2[i] = pos[a] /\ u[i] = t[a]
    BY <1>2 DEF IsRest
  <2> HIDE DEF a
  <2> QED BY <2>1, <2>2 DEF Marks, OnPlace, After
<1>4. Consecutive(l, ps, num2, pos2)
  <2> SUFFICES ASSUME NEW i \in 1..l, NEW j \in 1..l, j = i + 1, pos2[i] # Size(ps, num2[i])
               PROVE  num2[j] = num2[i] /\ pos2[j] = pos2[i] + 1
    BY DEF Consecutive
  <2> DEFINE a == i + m  b == j + m
  <2>1. a \in 1..n /\ b \in 1..n /\ b = a + 1
    <3>1. a \in 1..n /\ b \in 1..n
      BY <1>1
    <3>2. i \in Int /\ m \in Int
      BY <1>1
    <3> QED BY <3>1, <3>2
  <2>2. num2[i] = num[a] /\ num2[j] = num[b] /\ pos2[i] = pos[a] /\ pos2[j] = pos[b]
    BY <1>2
  <2> HIDE DEF a, b
  <2> QED BY <2>1, <2>2 DEF Marks, Consecutive
<1>5. InOrder(l, ps, num2, pos2)
  <2> SUFFICES ASSUME NEW i \in 1..l, NEW j \in 1..l, i < j
               PROVE  num2[i] <= num2[j] /\ (pos2[i] = Size(ps, num2[i]) => num2[i] < num2[j])
    BY DEF InOrder
  <2> DEFINE a == i + m  b == j + m
  <2>1. a \in 1..n /\ b \in 1..n /\ a < b
    BY <1>1
  <2>2. num2[i] = num[a] /\ num2[j] = num[b] /\ pos2[i] = pos[a] /\ pos2[j] = pos[b]
    BY <1>2
  <2> HIDE DEF a, b
  <2> QED BY <2>1, <2>2 DEF Marks, InOrder
<1>6. Complete(l, ps, num2, pos2)
  <2> SUFFICES ASSUME NEW i \in 1..l, i = l PROVE pos2[i] = Size(ps, num2[i])
    BY DEF Complete
  <2> DEFINE a == i + m
  <2>1. a \in 1..n /\ a = n
    BY <1>1
  <2>2. num2[i] = num[a] /\ pos2[i] = pos[a]
    BY <1>2
  <2> HIDE DEF a
  <2> QED BY <2>1, <2>2 DEF Marks, Complete
<1>7. Marks(u, lo2, ps, num2, pos2)
  BY <1>3, <1>4, <1>5, <1>6 DEF Marks
<1> QED BY <1>7 DEF Stream

\* A packet that is sent puts its frame at the end.
LEMMA Extended ==
  ASSUME NEW S, NEW t \in Seq(S), NEW lo \in Nat, NEW ps \in Seq(PlainSet), lo <= Len(ps),
         NEW num, NEW pos, Marks(t, lo, ps, num, pos), NEW p \in PlainSet,
         NEW u, Len(u) = Len(t) + Size(Append(ps, p), Len(ps) + 1),
         \A i \in 1..Len(t) : u[i] = t[i],
         \A i \in 1..Len(u) : i > Len(t) => u[i] = FrameOf(Append(ps, p), Len(ps) + 1)[i - Len(t)]
  PROVE  \E num2, pos2 : /\ Marks(u, lo, Append(ps, p), num2, pos2)
                         /\ \A i \in 1..Len(t) : num2[i] = num[i] /\ pos2[i] = pos[i]
<1> DEFINE qs == Append(ps, p)  n == Len(t)  q == Len(ps)  z == q + 1  s == Size(qs, z)  m == n + s
           f == FrameOf(qs, z)
           num2 == [i \in 1..m |-> IF i <= n THEN num[i] ELSE z]
           pos2 == [i \in 1..m |-> IF i <= n THEN pos[i] ELSE i - n]
<1>1. /\ qs \in Seq(PlainSet) /\ Len(qs) = z /\ q \in Nat /\ n \in Nat /\ z \in 1..z /\ z = q + 1
      /\ z \in Int /\ q < z /\ lo + 1 <= z
  BY AppendProperties, LenProperties
<1>2. s \in Nat /\ s >= 4 /\ m = n + s
  <2> HIDE DEF qs, z
  <2> QED BY <1>1, FrameOfIs
<1>3. \A k \in 1..q : FrameOf(qs, k) = FrameOf(ps, k) /\ Size(qs, k) = Size(ps, k)
  BY FrameOfAppend
<1>4. /\ Len(u) = m
      /\ \A i \in 1..n : u[i] = t[i]
      /\ \A i \in 1..m : i > n => u[i] = f[i - n]
  OBVIOUS
<1>5. \A i \in 1..n : num[i] \in (lo + 1)..q /\ num[i] \in 1..q /\ pos[i] \in 1..Size(ps, num[i])
                      /\ t[i] = FrameOf(ps, num[i])[pos[i]]
  <2>1. \A i \in 1..n : num[i] \in (lo + 1)..q /\ pos[i] \in 1..Size(ps, num[i])
                        /\ t[i] = FrameOf(ps, num[i])[pos[i]]
    BY DEF Marks, OnPlace
  <2> HIDE DEF q, n
  <2> QED BY <1>1, <2>1
<1>6. \A i \in 1..m : /\ i <= n => i \in 1..n /\ num2[i] = num[i] /\ pos2[i] = pos[i]
                      /\ i > n => num2[i] = z /\ pos2[i] = i - n
  BY <1>1
<1>7. Consecutive(n, ps, num, pos) /\ InOrder(n, ps, num, pos) /\ Complete(n, ps, num, pos)
  BY DEF Marks
<1> HIDE DEF m, s, f, num2, pos2, n, qs, q, z
<1>8. OnPlace(u, lo, qs, num2, pos2)
  <2> SUFFICES ASSUME NEW i \in 1..m
               PROVE  /\ num2[i] \in (lo + 1)..z
                      /\ pos2[i] \in 1..Size(qs, num2[i])
                      /\ u[i] = FrameOf(qs, num2[i])[pos2[i]]
    BY <1>1, <1>4 DEF OnPlace
  <2>1. CASE i <= n
    <3>1. num2[i] = num[i] /\ pos2[i] = pos[i] /\ i \in 1..n
      BY <1>6, <2>1
    <3>2. num[i] \in 1..q /\ num[i] \in (lo + 1)..q
      BY <1>5, <3>1
    <3>3. num[i] \in (lo + 1)..z
      BY <1>1, <3>2
    <3> QED BY <1>3, <1>4, <1>5, <3>1, <3>2, <3>3
  <2>2. CASE i > n
    <3>1. num2[i] = z /\ pos2[i] = i - n /\ u[i] = f[i - n]
      BY <1>4, <1>6, <2>2
    <3>2. i - n \in 1..s /\ z \in (lo + 1)..z
      BY <1>1, <1>2, <2>2
    <3> QED BY <3>1, <3>2 DEF f, s
  <2> QED BY <1>1, <1>2, <2>1, <2>2
<1>9. Consecutive(m, qs, num2, pos2)
  <2> SUFFICES ASSUME NEW i \in 1..m, NEW j \in 1..m, j = i + 1, pos2[i] # Size(qs, num2[i])
               PROVE  num2[j] = num2[i] /\ pos2[j] = pos2[i] + 1
    BY DEF Consecutive
  <2>1. CASE i > n
    <3>1. num2[i] = z /\ pos2[i] = i - n /\ num2[j] = z /\ pos2[j] = j - n
      BY <1>1, <1>6, <2>1
    <3> QED BY <1>1, <3>1
  <2>2. CASE i <= n
    <3>1. num2[i] = num[i] /\ pos2[i] = pos[i] /\ i \in 1..n
      BY <1>6, <2>2
    <3>2. num[i] \in 1..q /\ pos[i] # Size(ps, num[i])
      BY <1>3, <1>5, <3>1
    <3>3. i # n
      BY <1>7, <3>1, <3>2 DEF Complete
    <3>4. j <= n
      BY <1>1, <2>2, <3>3
    <3>5. num2[j] = num[j] /\ pos2[j] = pos[j] /\ j \in 1..n
      BY <1>6, <3>4
    <3> QED BY <1>7, <3>1, <3>2, <3>5 DEF Consecutive
  <2> QED BY <1>1, <2>1, <2>2
<1>10. InOrder(m, qs, num2, pos2)
  <2> SUFFICES ASSUME NEW i \in 1..m, NEW j \in 1..m, i < j
               PROVE  num2[i] <= num2[j] /\ (pos2[i] = Size(qs, num2[i]) => num2[i] < num2[j])
    BY DEF InOrder
  <2>1. CASE i > n
    <3>1. num2[i] = z /\ pos2[i] = i - n /\ num2[j] = z
      BY <1>1, <1>6, <2>1
    <3>2. i - n # s
      BY <1>1, <1>2
    <3> QED BY <1>1, <3>1, <3>2 DEF s
  <2>2. CASE i <= n /\ j > n
    <3>1. num2[i] = num[i] /\ i \in 1..n /\ num2[j] = z
      BY <1>6, <2>2
    <3>2. num[i] \in 1..q
      BY <1>5, <3>1
    <3> QED BY <1>1, <3>1, <3>2
  <2>3. CASE i <= n /\ j <= n
    <3>1. num2[i] = num[i] /\ pos2[i] = pos[i] /\ i \in 1..n /\ num2[j] = num[j] /\ j \in 1..n
      BY <1>6, <2>3
    <3>2. Size(qs, num[i]) = Size(ps, num[i])
      BY <1>3, <1>5, <3>1
    <3> QED BY <1>7, <3>1, <3>2 DEF InOrder
  <2> QED BY <1>1, <2>1, <2>2, <2>3
<1>11. Complete(m, qs, num2, pos2)
  <2> SUFFICES ASSUME NEW i \in 1..m, i = m PROVE pos2[i] = Size(qs, num2[i])
    BY DEF Complete
  <2>1. i > n /\ i - n = s
    BY <1>1, <1>2
  <2>2. num2[i] = z /\ pos2[i] = i - n
    BY <1>6, <2>1
  <2> QED BY <2>1, <2>2 DEF s
<1>12. Marks(u, lo, qs, num2, pos2)
  BY <1>4, <1>8, <1>9, <1>10, <1>11 DEF Marks
<1>13. \A i \in 1..n : num2[i] = num[i] /\ pos2[i] = pos[i]
  <2>1. \A i \in 1..n : i \in 1..m /\ i <= n
    BY <1>1, <1>2
  <2> QED BY <1>6, <2>1
<1> QED BY <1>12, <1>13 DEF qs, n

\* Where the symbols of two joined sequences are.
LEMMA Joined ==
  ASSUME NEW S, NEW a \in Seq(S), NEW b \in Seq(S)
  PROVE  /\ a \o b \in Seq(S) /\ Len(a \o b) = Len(a) + Len(b)
         /\ Len(a) \in Nat /\ Len(b) \in Nat
         /\ \A i \in 1..Len(a) : (a \o b)[i] = a[i]
         /\ \A i \in 1..Len(b) : (a \o b)[i + Len(a)] = b[i]
         /\ \A i \in 1..Len(a \o b) : i > Len(a) => (a \o b)[i] = b[i - Len(a)]
BY ConcatProperties, LenProperties

\* The frame of the next packet after such a sequence makes another.
LEMMA StreamExtends ==
  ASSUME NEW S, NEW t \in Seq(S), NEW lo \in Nat, NEW ps \in Seq(PlainSet), lo <= Len(ps),
         NEW num, NEW pos, Marks(t, lo, ps, num, pos), NEW p \in PlainSet
  PROVE  \E num2, pos2 :
           /\ Marks(t \o FrameOf(Append(ps, p), Len(ps) + 1), lo, Append(ps, p), num2, pos2)
           /\ \A i \in 1..Len(t) : num2[i] = num[i] /\ pos2[i] = pos[i]
<1> DEFINE qs == Append(ps, p)  z == Len(ps) + 1  f == FrameOf(qs, z)  u == t \o f
<1>1. qs \in Seq(PlainSet) /\ z \in 1..Len(qs)
  BY AppendProperties, LenProperties
<1>2. PICK T : f \in Seq(T)
  <2> HIDE DEF qs, z
  <2> QED BY <1>1, FrameOfIs
<1>3. Len(f) = Size(qs, z)
  <2> HIDE DEF qs, z
  <2> QED BY <1>1, FrameOfIs
<1> DEFINE U == S \cup T
<1>4. t \in Seq(U) /\ f \in Seq(U)
  <2>1. S \subseteq U /\ T \subseteq U
    OBVIOUS
  <2> HIDE DEF U, f
  <2> QED BY <1>2, <2>1, SeqMonotonic
<1> HIDE DEF U, f
<1>5. /\ Len(u) = Len(t) + Len(f)
      /\ \A i \in 1..Len(t) : u[i] = t[i]
      /\ \A i \in 1..Len(u) : i > Len(t) => u[i] = f[i - Len(t)]
  BY <1>4, Joined
<1> HIDE DEF u
<1>6. \E num2, pos2 : /\ Marks(u, lo, Append(ps, p), num2, pos2)
                      /\ \A i \in 1..Len(t) : num2[i] = num[i] /\ pos2[i] = pos[i]
  <2>1. Len(u) = Len(t) + Size(Append(ps, p), Len(ps) + 1)
    BY <1>3, <1>5 DEF qs, z
  <2>2. \A i \in 1..Len(u) : i > Len(t) => u[i] = FrameOf(Append(ps, p), Len(ps) + 1)[i - Len(t)]
    BY <1>5 DEF f, qs, z
  <2>3. \A i \in 1..Len(t) : u[i] = t[i]
    BY <1>5
  <2> QED BY <2>1, <2>2, <2>3, Extended
<1> QED BY <1>6 DEF u, f, qs, z

\* In the middle of a frame: a is its beginning, w what is still to come.
Reading(a, w, lo, ps) ==
  \E num, pos : /\ Marks(a \o w, lo, ps, num, pos)
                /\ Len(a) >= 1
                /\ \A i \in 1..Len(a) : num[i] = num[1] /\ pos[i] = i /\ i < Size(ps, num[1])

\* The same in the middle of a frame.
LEMMA ReadingExtends ==
  ASSUME NEW S, NEW a \in Seq(S), NEW w \in Seq(S), NEW lo \in Nat, NEW ps \in Seq(PlainSet),
         lo <= Len(ps), Reading(a, w, lo, ps), NEW p \in PlainSet
  PROVE  Reading(a, w \o FrameOf(Append(ps, p), Len(ps) + 1), lo, Append(ps, p))
<1> DEFINE qs == Append(ps, p)  z == Len(ps) + 1  f == FrameOf(qs, z)  t == a \o w
<1>1. PICK num, pos : /\ Marks(t, lo, ps, num, pos)
                      /\ Len(a) >= 1
                      /\ \A i \in 1..Len(a) : num[i] = num[1] /\ pos[i] = i /\ i < Size(ps, num[1])
  BY DEF Reading
<1>2. t \in Seq(S) /\ Len(t) = Len(a) + Len(w) /\ Len(a) \in Nat /\ Len(w) \in Nat
  BY Joined
<1>3. PICK num2, pos2 : /\ Marks(t \o f, lo, qs, num2, pos2)
                        /\ \A i \in 1..Len(t) : num2[i] = num[i] /\ pos2[i] = pos[i]
  <2> HIDE DEF t
  <2> QED BY <1>1, <1>2, StreamExtends
<1>4. \A i \in 1..Len(a) : i \in 1..Len(t)
  BY <1>2
<1>5. 1 \in 1..Len(a) /\ 1 \in 1..Len(t) /\ Len(ps) \in Nat
  BY <1>1, <1>2, LenProperties
<1>6. num[1] \in 1..Len(ps)
  <2>1. num[1] \in (lo + 1)..Len(ps)
    BY <1>1, <1>5 DEF Marks, OnPlace
  <2> QED BY <1>5, <2>1
<1>7. Size(qs, num[1]) = Size(ps, num[1])
  BY <1>6, FrameOfAppend
<1>8. t \o f = a \o (w \o f)
  <2>1. qs \in Seq(PlainSet) /\ z \in 1..Len(qs)
    BY AppendProperties, LenProperties
  <2>2. PICK T : f \in Seq(T)
    <3> HIDE DEF qs, z
    <3> QED BY <2>1, FrameOfIs
  <2> DEFINE U == S \cup T
  <2>3. S \subseteq U /\ T \subseteq U
    OBVIOUS
  <2> HIDE DEF U, f
  <2>4. a \in Seq(U) /\ w \in Seq(U) /\ f \in Seq(U)
    BY <2>2, <2>3, SeqMonotonic
  <2> QED BY <2>4, ConcatAssociative
<1> HIDE DEF t, f, qs, z
<1>9. \A i \in 1..Len(a) : num2[i] = num2[1] /\ pos2[i] = i /\ i < Size(qs, num2[1])
  BY <1>1, <1>3, <1>4, <1>5, <1>7
<1>10. Reading(a, w \o f, lo, qs)
  BY <1>1, <1>3, <1>8, <1>9 DEF Reading
<1> QED BY <1>10 DEF f, qs, z

\* What follows in any such sequence is one.
LEMMA StreamDrops ==
  ASSUME NEW S, NEW a \in Seq(S), NEW w \in Seq(S), NEW lo \in Nat, NEW ps, Stream(a \o w, lo, ps)
  PROVE  Stream(w, lo, ps)
<1> DEFINE t == a \o w  n == Len(t)  m == Len(a)  l == Len(w)
<1>1. PICK num, pos : Marks(t, lo, ps, num, pos)
  BY DEF Stream
<1>2. /\ n \in Nat /\ m \in Nat /\ l \in Nat /\ n = m + l /\ IsRest(w, t, m, l)
  BY Joined DEF IsRest
<1> HIDE DEF t, m
<1>3. After(n, m, lo, ps, num)
  BY <1>1 DEF Marks, OnPlace, After
<1>4. Len(t) = n /\ Len(w) = l
  OBVIOUS
<1> HIDE DEF n, l
<1> QED BY <1>1, <1>2, <1>3, <1>4, Dropped

\* What follows the symbols that have been read is such a sequence.
LEMMA ReadingStreams ==
  ASSUME NEW S, NEW a \in Seq(S), NEW w \in Seq(S), NEW lo \in Nat, NEW ps, Reading(a, w, lo, ps)
  PROVE  Stream(w, lo, ps)
<1>1. Stream(a \o w, lo, ps)
  BY DEF Reading, Stream
<1> QED BY <1>1, StreamDrops

\* From the first symbol of a frame on, the receiver is in it.
LEMMA ReadingStarts ==
  ASSUME NEW S, NEW x \in Seq(S), NEW y \in Seq(S), NEW lo \in Nat, NEW ps \in Seq(PlainSet),
         Stream(x \o y, lo, ps), NEW i \in 1..Len(x), x[i] = STX
  PROVE  Reading(<<STX>>, SubSeq(x, i + 1, Len(x)) \o y, lo, ps)
<1> DEFINE t == x \o y  n == Len(t)  p == Len(x)  r == p - i  q == Len(y)  m == i - 1  j == i + 1
           v == SubSeq(x, j, p)  w == v \o y  u == <<STX>> \o w  l == Len(u)
<1>1. PICK num, pos : Marks(t, lo, ps, num, pos)
  BY DEF Stream
<1>2. /\ p \in Nat /\ q \in Nat /\ n = p + q /\ i \in 1..p /\ m \in Nat /\ r \in Nat /\ j \in Int
      /\ j = i + 1 /\ m = i - 1 /\ r = p - i
      /\ \A a \in 1..p : t[a] = x[a]
      /\ \A a \in 1..n : a > p => t[a] = y[a - p]
  BY Joined
<1>3. /\ v \in Seq(S) /\ Len(v) = r /\ \A a \in 1..r : v[a] = x[a + i]
  <2>1. \A a \in j..p : x[a] \in S
    BY <1>2, ElementOfSeq
  <2>2. p - j + 1 = r /\ (j <= p \/ r = 0)
    BY <1>2
  <2>3. \A a \in 1..(p - j + 1) : v[a] = x[j + a - 1] /\ j + a - 1 = a + i
    <3> HIDE DEF j, p
    <3>1. \A a \in 1..(p - j + 1) : v[a] = x[j + a - 1]
      BY <1>2, <2>1, SubSeqProperties
    <3>2. \A a \in 1..(p - j + 1) : j + a - 1 = a + i
      BY <1>2
    <3> QED BY <3>1, <3>2
  <2>4. v \in Seq(S) /\ Len(v) = IF j <= p THEN p - j + 1 ELSE 0
    <3> HIDE DEF j, p
    <3> QED BY <1>2, <2>1, SubSeqProperties
  <2> QED BY <1>2, <2>2, <2>3, <2>4
<1> HIDE DEF v, t
<1>4. /\ w \in Seq(S) /\ Len(w) = r + q
      /\ \A a \in 1..r : w[a] = v[a]
      /\ \A a \in 1..Len(w) : a > r => w[a] = y[a - r]
  <2>1. v \in Seq(S) /\ y \in Seq(S)
    BY <1>3
  <2>2. /\ w \in Seq(S) /\ Len(w) = Len(v) + Len(y)
        /\ \A a \in 1..Len(v) : w[a] = v[a]
        /\ \A a \in 1..Len(w) : a > Len(v) => w[a] = y[a - Len(v)]
    BY <2>1, Joined
  <2>3. Len(v) = r /\ Len(y) = q
    BY <1>3
  <2> QED BY <2>2, <2>3
<1> HIDE DEF w
<1>5. STX \in S /\ <<STX>> \in Seq(S) /\ Len(<<STX>>) = 1 /\ <<STX>>[1] = STX
  <2>1. x[i] \in S
    BY ElementOfSeq
  <2> QED BY <2>1
<1>6. /\ u \in Seq(S) /\ l = 1 + (r + q)
      /\ u[1] = STX
      /\ \A a \in 1..l : a > 1 => u[a] = w[a - 1]
  <2> DEFINE one == <<STX>>
  <2>1. one \in Seq(S) /\ Len(one) = 1 /\ one[1] = STX /\ 1 \in 1..1
    BY <1>5
  <2> HIDE DEF one
  <2> DEFINE ow == one \o w
  <2>2. /\ ow \in Seq(S) /\ Len(ow) = Len(one) + Len(w)
        /\ \A a \in 1..Len(one) : ow[a] = one[a]
        /\ \A a \in 1..Len(ow) : a > Len(one) => ow[a] = w[a - Len(one)]
    <3>1. one \in Seq(S) /\ w \in Seq(S)
      BY <1>4, <2>1
    <3> QED BY <3>1, Joined
  <2>3. u = ow
    BY DEF one
  <2> HIDE DEF ow, u, w
  <2> QED BY <1>4, <2>1, <2>2, <2>3
<1> HIDE DEF u, l, n, p, q, r, m, j
<1>7. n = m + l /\ l \in Nat /\ n \in Nat
  BY <1>2, <1>6
<1>8. IsRest(u, t, m, l)
  <2> SUFFICES ASSUME NEW a \in 1..l PROVE u[a] = t[a + m]
    BY DEF IsRest
  <2> DEFINE e == a + m  d == a - 1  g == d - r
  <2>0. e = a + m /\ d = a - 1 /\ g = d - r /\ e \in Int /\ d \in Int
    BY <1>2, <1>7
  <2> HIDE DEF e, d, g
  <2>1. CASE a = 1
    <3>1. e = i
      BY <1>2, <2>0, <2>1
    <3> QED BY <1>2, <1>6, <2>1, <3>1 DEF e
  <2>2. CASE a > 1 /\ d <= r
    <3>1. d \in 1..r /\ d + i = e /\ e \in 1..p
      BY <1>2, <2>0, <2>2
    <3>2. u[a] = w[d] /\ w[d] = v[d] /\ v[d] = x[d + i]
      BY <1>3, <1>4, <1>6, <2>0, <2>2, <3>1
    <3> QED BY <1>2, <3>1, <3>2 DEF e
  <2>3. CASE a > 1 /\ d > r
    <3>1. d \in 1..Len(w) /\ e \in 1..n /\ e > p /\ e - p = g
      BY <1>2, <1>4, <1>6, <1>7, <2>0, <2>3
    <3>2. u[a] = w[d] /\ w[d] = y[d - r]
      BY <1>4, <1>6, <2>0, <2>3, <3>1
    <3>3. t[e] = y[e - p]
      BY <1>2, <3>1
    <3> QED BY <3>1, <3>2, <3>3 DEF e, g
  <2> QED BY <1>2, <1>7, <2>0, <2>1, <2>2, <2>3
<1>9. After(n, m, lo, ps, num)
  BY <1>1 DEF Marks, OnPlace, After, n
<1>10. PICK num2, pos2 : Marks(u, lo, ps, num2, pos2)
  <2>1. Len(t) = n /\ Len(u) = l /\ m \in Nat
    BY <1>2 DEF n, l
  <2>2. Stream(u, lo, ps)
    BY <1>1, <1>7, <1>8, <1>9, <2>1, Dropped
  <2> QED BY <2>2 DEF Stream
<1>11. num2[1] \in 1..Len(ps) /\ pos2[1] = 1 /\ 1 < Size(ps, num2[1])
  <2>1. 1 \in 1..Len(u) /\ Len(ps) \in Nat
    BY <1>2, <1>6, <1>7, LenProperties DEF l
  <2>2. /\ num2[1] \in (lo + 1)..Len(ps) /\ pos2[1] \in 1..Size(ps, num2[1])
        /\ u[1] = FrameOf(ps, num2[1])[pos2[1]]
    BY <1>10, <2>1 DEF Marks, OnPlace
  <2>3. num2[1] \in 1..Len(ps)
    BY <2>1, <2>2
  <2>4. /\ Size(ps, num2[1]) \in Nat /\ Size(ps, num2[1]) >= 4
        /\ FrameOf(ps, num2[1])[pos2[1]] = STX => pos2[1] = 1
    BY <2>2, <2>3, FrameOfIs
  <2> QED BY <1>6, <2>2, <2>3, <2>4
<1>12. Len(<<STX>>) >= 1 /\ \A a \in 1..Len(<<STX>>) : a = 1
  OBVIOUS
<1>13. \A a \in 1..Len(<<STX>>) : num2[a] = num2[1] /\ pos2[a] = a /\ a < Size(ps, num2[1])
  BY <1>11, <1>12
<1>14. Reading(<<STX>>, w, lo, ps)
  BY <1>10, <1>12, <1>13 DEF Reading, u
<1> QED BY <1>14 DEF w, v, j, p

\* The next symbol is the next one of the frame; after its last one, which is
\* ETX, the whole frame has been read.
LEMMA ReadingReads ==
  ASSUME NEW S, NEW a \in Seq(S), NEW w \in Seq(S), NEW lo \in Nat, NEW ps \in Seq(PlainSet),
         Reading(a, w, lo, ps), w # <<>>
  PROVE  /\ w[1] # STX
         /\ w[1] # ETX => Reading(Append(a, w[1]), Tail(w), lo, ps)
         /\ w[1] = ETX => \E k \in (lo + 1)..Len(ps) :
                            Append(a, w[1]) = FrameOf(ps, k) /\ Stream(Tail(w), k, ps)
<1> DEFINE t == a \o w  n == Len(a)  m == n + 1  l == Len(t)
           x == w[1]  b == Append(a, x)  v == Tail(w)
<1>1. PICK num, pos : /\ Marks(t, lo, ps, num, pos) /\ n >= 1
                      /\ \A i \in 1..n : num[i] = num[1] /\ pos[i] = i /\ i < Size(ps, num[1])
  BY DEF Reading
<1> DEFINE k == num[1]  z == Size(ps, k)
<1>2. /\ x \in S /\ v \in Seq(S) /\ Len(w) \in Nat /\ Len(w) >= 1 /\ Len(v) = Len(w) - 1
      /\ w = <<x>> \o v
  <2>1. Head(w) = x /\ w = <<Head(w)>> \o Tail(w)
    OBVIOUS
  <2> QED BY <2>1, HeadTailProperties, LenProperties
<1>3. /\ t \in Seq(S) /\ l = n + Len(w) /\ n \in Nat
      /\ \A i \in 1..n : t[i] = a[i]
      /\ \A i \in 1..l : i > n => t[i] = w[i - n]
  BY Joined
<1>4. t = b \o v /\ b \in Seq(S) /\ Len(b) = m /\ b[m] = x /\ \A i \in 1..n : b[i] = a[i]
  <2>1. b = a \o <<x>> /\ <<x>> \in Seq(S)
    BY <1>2, AppendIsConcat
  <2>2. t = (a \o <<x>>) \o v
    BY <1>2, <2>1, ConcatAssociative
  <2> QED BY <1>2, <2>1, <2>2, AppendProperties
<1> HIDE DEF t, b, v, x
<1>5. /\ m \in 1..l /\ n \in 1..l /\ 1 \in 1..l /\ m = n + 1 /\ 1 \in 1..n /\ m - n = 1 /\ m > n
      /\ \A i \in 1..n : i \in 1..l
  BY <1>1, <1>2, <1>3
<1>6. t[m] = x
  BY <1>3, <1>5 DEF x
<1>7. k \in (lo + 1)..Len(ps) /\ k \in 1..Len(ps) /\ Len(ps) \in Nat
  <2>1. k \in (lo + 1)..Len(ps)
    BY <1>1, <1>5 DEF Marks, OnPlace, l
  <2>2. Len(ps) \in Nat
    BY LenProperties
  <2> HIDE DEF k
  <2> QED BY <2>1, <2>2
<1> HIDE DEF k
<1>8. /\ z \in Nat /\ z >= 4 /\ Len(FrameOf(ps, k)) = z /\ \E T : FrameOf(ps, k) \in Seq(T)
      /\ \A i \in 1..z : FrameOf(ps, k)[i] = STX => i = 1
      /\ \A i \in 1..z : FrameOf(ps, k)[i] = ETX <=> i = z
  BY <1>7, FrameOfIs
<1> HIDE DEF z, n, m, l
<1>9. \A i \in 1..n : num[i] = k /\ pos[i] = i /\ i < z
  BY <1>1 DEF k, z
<1>10. num[m] = k /\ pos[m] = m
  <2>1. num[n] = k /\ pos[n] = n /\ n < z /\ n \in Nat
    BY <1>3, <1>5, <1>9
  <2>2. pos[n] # Size(ps, num[n])
    BY <1>8, <2>1 DEF z
  <2>3. num[m] = num[n] /\ pos[m] = pos[n] + 1
    BY <1>1, <1>5, <2>2 DEF Marks, Consecutive, l
  <2> QED BY <1>5, <2>1, <2>3
<1>11. m \in 1..z /\ x = FrameOf(ps, k)[m]
  <2>1. pos[m] \in 1..Size(ps, num[m]) /\ t[m] = FrameOf(ps, num[m])[pos[m]]
    BY <1>1, <1>5 DEF Marks, OnPlace, l
  <2> QED BY <1>6, <1>10, <2>1 DEF z
<1>12. x # STX /\ (x = ETX <=> m = z)
  <2>1. m # 1
    BY <1>1, <1>3, <1>5
  <2> QED BY <1>8, <1>11, <2>1
<1>13. ASSUME x # ETX PROVE Reading(b, v, lo, ps)
  <2>1. m < z /\ m \in Nat
    BY <1>3, <1>5, <1>8, <1>11, <1>12, <1>13
  <2>2. \A i \in 1..m : i = m \/ i \in 1..n
    BY <1>3, <1>5
  <2>3. \A i \in 1..m : num[i] = k /\ pos[i] = i /\ i < z
    BY <1>9, <1>10, <2>1, <2>2
  <2>4. Len(b) = m /\ m >= 1
    BY <1>1, <1>3, <1>4, <1>5
  <2>5. num[1] = k
    BY DEF k
  <2> QED BY <1>1, <1>4, <2>3, <2>4, <2>5 DEF Reading, z
<1>14. ASSUME x = ETX PROVE b = FrameOf(ps, k) /\ Stream(v, k, ps)
  <2>1. m = z
    BY <1>12, <1>14
  <2>2. b = FrameOf(ps, k)
    <3> DEFINE f == FrameOf(ps, k)
    <3>1. PICK T : f \in Seq(T)
      BY <1>8
    <3>2. Len(b) = Len(f)
      BY <1>4, <1>8, <2>1
    <3>3. \A i \in 1..m : i = m \/ i \in 1..n
      BY <1>3, <1>5
    <3>4. ASSUME NEW i \in 1..n PROVE b[i] = f[i]
      <4>1. t[i] = FrameOf(ps, num[i])[pos[i]]
        BY <1>1, <1>5 DEF Marks, OnPlace, l
      <4> QED BY <1>3, <1>4, <1>9, <4>1
    <3>5. b[m] = f[m]
      BY <1>4, <1>11
    <3>6. \A i \in 1..Len(b) : b[i] = f[i]
      BY <1>4, <3>3, <3>4, <3>5
    <3> DEFINE U == S \cup T
    <3>7. S \subseteq U /\ T \subseteq U
      OBVIOUS
    <3> HIDE DEF U, f
    <3>8. b \in Seq(U) /\ f \in Seq(U)
      BY <1>4, <3>1, <3>7, SeqMonotonic
    <3>9. b = f
      BY <3>2, <3>6, <3>8, SeqEqual
    <3> QED BY <3>9 DEF f
  <2>3. After(l, m, k, ps, num)
    <3> SUFFICES ASSUME NEW i \in 1..l, i > m PROVE num[i] \in (k + 1)..Len(ps)
      BY DEF After
    <3>1. num[i] \in (lo + 1)..Len(ps)
      BY <1>1 DEF Marks, OnPlace, l
    <3>2. num[m] < num[i]
      <4>1. m < i /\ pos[m] = Size(ps, num[m])
        BY <1>3, <1>5, <1>10, <2>1 DEF z
      <4> QED BY <1>1, <1>5, <4>1 DEF Marks, InOrder, l
    <3> QED BY <1>7, <1>10, <3>1, <3>2
  <2>4. IsRest(v, t, m, Len(v)) /\ l = m + Len(v) /\ Len(v) \in Nat
    <3>1. \A i \in 1..Len(v) : (b \o v)[i + Len(b)] = v[i]
      <4>1. b \in Seq(S) /\ v \in Seq(S)
        BY <1>2, <1>4
      <4> QED BY <4>1, Joined
    <3>2. Len(v) \in Nat /\ l = m + Len(v)
      <4>1. Len(w) \in Nat /\ Len(w) >= 1 /\ Len(v) = Len(w) - 1
        BY <1>2
      <4>2. l = n + Len(w) /\ m = n + 1 /\ n \in Nat
        BY <1>3, <1>5
      <4> QED BY <4>1, <4>2
    <3>3. \A i \in 1..Len(v) : v[i] = t[i + m]
      BY <1>4, <3>1
    <3>4. IsRest(v, t, m, Len(v))
      BY <3>3 DEF IsRest
    <3> QED BY <3>2, <3>4
  <2>5. Len(t) = l /\ l \in Nat /\ m \in Nat
    BY <1>2, <1>3, <1>5, <1>1 DEF l
  <2> DEFINE q == Len(v)
  <2>6. IsRest(v, t, m, q) /\ l = m + q /\ q \in Nat /\ Len(v) = q
    BY <2>4
  <2> HIDE DEF q
  <2>7. Stream(v, k, ps)
    BY <1>1, <2>3, <2>5, <2>6, Dropped
  <2> QED BY <2>2, <2>7
<1> QED BY <1>7, <1>12, <1>13, <1>14 DEF x, b, v

BodyOf(f) == SubSeq(f, 2, Len(f) - 1)

\* A frame that has come whole: its body is a header and the data, and what
\* memcpy takes from it is the data of the packet, if they are as many bytes as
\* it says.
LEMMA WholeFrame ==
  ASSUME NEW ps \in Seq(PlainSet), NEW k \in 1..Len(ps)
  PROVE  /\ BodyOf(FrameOf(ps, k)) # <<>>
         /\ BodyOf(FrameOf(ps, k))[1] = Header(HeadOf(ps, k))
         /\ Fitting(ps[k]) => DataOf(HeadOf(ps, k), BodyOf(FrameOf(ps, k))) = ps[k].data
         /\ Packet(HeadOf(ps, k), ps[k].data) = ps[k] /\ HeadOf(ps, k).frame = k
<1> DEFINE a == FrameOf(ps, k)  b == BodyOf(a)
           d == ps[k].data  n == Len(d)  h == HeadOf(ps, k)  z == n + 3
           rest == Append(Tail(b), ETX)
           size == IF h.dataStatus = START THEN Overflow ELSE h.dataSize
<1>1. ps[k] \in PacketSet
  BY ElementOfSeq DEF PlainSet
<1>2. d \in Seq(Bytes) /\ n \in Nat /\ d = [i \in 1..n |-> d[i]]
  <2>1. d \in Seq(Bytes)
    BY <1>1 DEF PacketSet
  <2> HIDE DEF d
  <2> QED BY <2>1
<1>3. /\ Packet(h, d) = ps[k] /\ h.frame = k
      /\ h.dataStatus = ps[k].dataStatus /\ h.dataSize = ps[k].dataSize
  <2>1. ps[k] = [src |-> ps[k].src, dataStatus |-> ps[k].dataStatus,
                 dataSize |-> ps[k].dataSize, data |-> ps[k].data]
    BY <1>1 DEF PacketSet
  <2> QED BY <2>1 DEF Packet, HeadOf
<1>4. Fitting(ps[k]) => size = n
  BY <1>3 DEF Fitting
<1>5. PICK S : a \in Seq(S)
  BY FrameOfIs
<1>6. /\ Len(a) = n + 4 /\ a[2] = Header(h)
      /\ \A i \in 1..n : a[i + 2] = Byte(d[i])
  BY FrameOfIs DEF Size
<1> HIDE DEF h, d, n, a
<1>7. /\ b \in Seq(S) /\ Len(b) = n + 2 /\ \A i \in 1..(n + 2) : b[i] = a[i + 1]
  <2>0. z \in Int /\ 2 \in Int /\ z = Len(a) - 1 /\ z - 2 + 1 = n + 2 /\ 2 <= z
    BY <1>2, <1>6
  <2>1. \A i \in 2..z : a[i] \in S
    BY <1>2, <1>5, <1>6, ElementOfSeq
  <2>2. b = SubSeq(a, 2, z)
    BY <2>0 DEF BodyOf
  <2> HIDE DEF z, b
  <2>3. /\ SubSeq(a, 2, z) \in Seq(S)
        /\ Len(SubSeq(a, 2, z)) = IF 2 <= z THEN z - 2 + 1 ELSE 0
        /\ \A i \in 1..(z - 2 + 1) : SubSeq(a, 2, z)[i] = a[2 + i - 1]
    BY <2>0, <2>1, SubSeqProperties
  <2>4. \A i \in 1..(n + 2) : 2 + i - 1 = i + 1
    BY <1>2
  <2> QED BY <2>0, <2>2, <2>3, <2>4
<1> HIDE DEF b
<1>8. b # <<>> /\ b[1] = Header(h)
  <2>1. 1 \in 1..(n + 2) /\ 1 + 1 = 2 /\ n + 2 # 0
    BY <1>2
  <2> QED BY <1>6, <1>7, <2>1
<1>9. /\ Tail(b) \in Seq(S) /\ Len(Tail(b)) = n + 1
      /\ \A i \in 1..(n + 1) : Tail(b)[i] = b[i + 1]
  <2> DEFINE t == Tail(b)  m == n + 1
  <2>1. b \in Seq(S) /\ b # <<>>
    BY <1>7, <1>8
  <2>2. /\ t \in Seq(S) /\ Len(t) = Len(b) - 1 /\ \A i \in 1..Len(t) : t[i] = b[i + 1]
    BY <2>1, HeadTailProperties
  <2>3. m = Len(b) - 1
    BY <1>2, <1>7
  <2> HIDE DEF t, m
  <2>4. Len(t) = m /\ \A i \in 1..m : t[i] = b[i + 1]
    BY <2>2, <2>3
  <2> QED BY <2>2, <2>4 DEF t, m
<1>10. Len(rest) = n + 2 /\ \A i \in 1..(n + 1) : rest[i] = Tail(b)[i]
  <2> DEFINE t == Tail(b)  U == S \cup {ETX}  m == n + 1  q == Append(t, ETX)
  <2>1. t \in Seq(U) /\ ETX \in U
    <3>1. S \subseteq U /\ ETX \in U
      OBVIOUS
    <3> HIDE DEF U, t
    <3>2. t \in Seq(S)
      BY <1>9 DEF t
    <3> QED BY <3>1, <3>2, SeqMonotonic
  <2>2. Len(t) = m /\ m + 1 = n + 2
    BY <1>2, <1>9
  <2> HIDE DEF t, U, m
  <2>3. Len(q) = Len(t) + 1 /\ \A i \in 1..Len(t) : q[i] = t[i]
    BY <2>1, AppendProperties
  <2>4. q = rest
    BY DEF t
  <2> HIDE DEF q, rest
  <2>5. Len(q) = n + 2 /\ \A i \in 1..m : q[i] = t[i]
    BY <2>2, <2>3
  <2> QED BY <2>4, <2>5 DEF t, m
<1> HIDE DEF rest
<1>11. ASSUME NEW i \in 1..n
       PROVE  i <= Len(rest) /\ rest[i] = Byte(d[i])
  <2> DEFINE j == i + 1
  <2>1. i \in 1..(n + 1) /\ j \in 1..(n + 2) /\ j + 1 = i + 2 /\ i <= n + 2
    BY <1>2
  <2>2. rest[i] = b[j] /\ b[j] = a[j + 1]
    BY <1>7, <1>9, <1>10, <2>1
  <2> QED BY <1>6, <1>10, <2>1, <2>2
<1> DEFINE val(i) == CASE i <= Len(rest) /\ rest[i].is = "data" -> rest[i].val
                      [] i <= Len(rest) /\ rest[i] = ETX       -> END_MSG
                      [] OTHER                                 -> Beyond
<1>12. Fitting(ps[k]) => DataOf(h, b) = [i \in 1..n |-> val(i)]
  BY <1>4 DEF DataOf, rest
<1>13. ASSUME NEW i \in 1..n
       PROVE  val(i) = d[i]
  <2> DEFINE x == rest[i]
  <2>1. i <= Len(rest) /\ x = Byte(d[i])
    BY <1>11
  <2>2. x.is = "data" /\ x.val = d[i] /\ x # ETX
    BY <2>1 DEF Byte, ETX
  <2> HIDE DEF x
  <2> QED BY <2>1, <2>2 DEF x
<1> HIDE DEF val
<1>14. Fitting(ps[k]) => DataOf(h, b) = d
  BY <1>2, <1>12, <1>13
<1> QED BY <1>3, <1>8, <1>14 DEF h, d, b, a

-----------------------------------------------------------------------------
(* The receiver while no fault has happened, and nobody asked for bytes    *)
(* that begin or end a frame                                               *)

Plain == \A s \in Senders : Range(asked[s]) \cap {START_MSG, END_MSG} = {}

\* Then the packets are plain,
LEMMA PlainSent ==
  ASSUME SenderInv, Plain
  PROVE  sent \in Seq(PlainSet) /\ Len(sent) \in Nat
<1>1. sent \in Seq(PacketSet) /\ Len(sent) \in Nat
  BY LenProperties DEF SenderInv
<1>2. ASSUME NEW k \in 1..Len(sent) PROVE sent[k] \in PlainSet
  <2>1. sent[k] \in PacketSet
    BY <1>1, ElementOfSeq
  <2> DEFINE d == sent[k].data
  <2>2. d \in Seq(Bytes) /\ sent[k].src \in Senders /\ Range(d) \subseteq Range(asked[sent[k].src])
    BY <2>1 DEF PacketSet, SenderInv
  <2>3. Range(d) \cap {START_MSG, END_MSG} = {}
    BY <2>2 DEF Plain
  <2> HIDE DEF d
  <2>4. d \in Seq(Ordinary)
    BY <2>2, <2>3, PlainData
  <2> QED BY <2>1, <2>4 DEF PlainSet, d
<1> QED BY <1>1, <1>2

\* so is the next one,
LEMMA PlainNext ==
  ASSUME SenderInv, Plain, NEW s \in Senders, SendPacket(s)
  PROVE  Packet([src |-> s, dataStatus |-> out[s].dataStatus, dataSize |-> out[s].dataSize,
                 frame |-> Len(sent) + 1], Chunk(out[s])) \in PlainSet
<1> DEFINE p == Packet([src |-> s, dataStatus |-> out[s].dataStatus,
                        dataSize |-> out[s].dataSize, frame |-> Len(sent) + 1], Chunk(out[s]))
           d == p.data
<1>1. p \in PacketSet /\ Range(d) \subseteq Range(asked[s])
  BY PacketIs
<1> HIDE DEF p
<1>2. d \in Seq(Bytes) /\ Range(d) \cap {START_MSG, END_MSG} = {}
  BY <1>1 DEF PacketSet, Plain
<1> HIDE DEF d
<1>3. d \in Seq(Ordinary)
  BY <1>2, PlainData
<1>4. p \in PlainSet
  BY <1>1, <1>3 DEF PlainSet, d
<1> QED BY <1>4 DEF p

\* and what was asked for was plain before.
LEMMA PlainBefore ==
  ASSUME SenderInv, [Next]_vars, Plain'
  PROVE  Plain
<1>1. ASSUME NEW s \in Senders, SendMAXmsg(s) PROVE Plain
  BY <1>1, AskedGrows DEF Plain
<1>2. ASSUME NEW s \in Senders, SendPacket(s) PROVE asked' = asked
  BY <1>2 DEF SendPacket
<1>3. ASSUME \/ Arrive \/ RecMAXmsg \/ (\E x : WaitFor(x)) \/ (\E n : WaitForNdata(n)) \/ Receiver
             \/ UNCHANGED vars
      PROVE  asked' = asked
  BY <1>3 DEF Arrive, RecMAXmsg, WaitFor, WaitForNdata, vars, history, Receiver, FindStartMsg,
              BeginFrame, ReadBuf, ReadStale, Poll, MoreData, TimeOut, CheckMAXasciiMsg, AwaitMore,
              Awaited
<1>4. asked' = asked => Plain
  BY DEF Plain
<1> QED BY <1>1, <1>2, <1>3, <1>4 DEF Next

Acc    == messageStr \o buffer
Coming == input \o wire

InFrame == {"begin", "read", "wait"}

Clean ==
  /\ last \in 0..Len(sent)
  /\ pc \in InFrame => Reading(Acc, Coming, last, sent)
  /\ pc = "begin" \/ (pc \in InFrame /\ c \in {STX, ETX}) => messageStr = <<>> /\ buffer = <<STX>>
  /\ pc = "check" => /\ Stream(Coming, last, sent)
                     /\ \/ Len(Acc) = 2
                        \/ \E k \in (last + 1)..Len(sent) :
                             Acc = FrameOf(sent, k) /\ Stream(Coming, k, sent)
  /\ pc \notin InFrame \cup {"check"} =>
       messageStr = <<>> /\ buffer = <<>> /\ Stream(Coming, last, sent)

CleanInv == faults \in Nat /\ (faults = 0 /\ Plain => Clean)

\* Nothing on its way is such a sequence, too.
LEMMA EmptyStream == \A lo, ps : Stream(<<>>, lo, ps)
<1> TAKE lo, ps
<1>1. Marks(<<>>, lo, ps, <<>>, <<>>)
  <2>1. Len(<<>>) = 0 /\ 1..0 = {}
    OBVIOUS
  <2> QED BY <2>1 DEF Marks, OnPlace, Consecutive, InOrder, Complete
<1> QED BY <1>1 DEF Stream

\* At first nothing is on its way.
LEMMA CleanInit == Init => CleanInv
<1> SUFFICES ASSUME Init PROVE CleanInv
  OBVIOUS
<1>1. /\ faults = 0 /\ last = 0 /\ sent = <<>> /\ pc = "idle" /\ messageStr = <<>> /\ buffer = <<>>
      /\ input = <<>> /\ wire = <<>>
  BY DEF Init
<1>2. Coming = <<>>
  BY <1>1 DEF Coming
<1>3. last \in 0..Len(sent)
  BY <1>1
<1>4. Stream(Coming, last, sent)
  BY <1>2, EmptyStream
<1> QED BY <1>1, <1>3, <1>4 DEF CleanInv, Clean, InFrame

\* A step that changes none of this.
LEMMA CleanFrame ==
  ASSUME Clean, UNCHANGED <<pc, c, messageStr, buffer, Coming, last, sent>>
  PROVE  Clean'
BY DEF Clean, Acc

\* The sequences of the invariant of the line, joined.
LEMMA SeqsOK ==
  ASSUME LineInv
  PROVE  \E S : /\ wire \in Seq(S) /\ input \in Seq(S) /\ messageStr \in Seq(S) /\ buffer \in Seq(S)
                /\ Acc \in Seq(S) /\ Coming \in Seq(S)
<1>1. PICK S : wire \in Seq(S) /\ input \in Seq(S) /\ messageStr \in Seq(S) /\ buffer \in Seq(S)
  BY DEF LineInv, Streams
<1>2. Acc \in Seq(S) /\ Coming \in Seq(S)
  BY <1>1, ConcatProperties DEF Acc, Coming
<1> QED BY <1>1, <1>2

\* A packet that is written adds a frame at the end.
LEMMA CleanSends ==
  ASSUME SenderInv, Plain, LineInv, CleanInv, NEW s \in Senders, SendPacket(s), faults' = 0
  PROVE  Clean'
<1> DEFINE o == out[s]
           h == [src |-> s, dataStatus |-> o.dataStatus, dataSize |-> o.dataSize,
                 frame |-> Len(sent) + 1]
           p == Packet(h, Chunk(o))
           z == Len(sent) + 1
           f == FrameOf(sent', z)
<1>2. p \in PlainSet
  BY PlainNext
<1>3. sent' = Append(sent, p) /\ sent \in Seq(PlainSet) /\ Len(sent) \in Nat
      /\ UNCHANGED <<pc, c, messageStr, buffer, input, last>>
  BY PlainSent DEF SendPacket, receiver
<1>4. sent'[z] = p /\ Len(sent') = z
  <2> HIDE DEF p
  <2> QED BY <1>2, <1>3, AppendProperties
<1>5. f = Frame(h, Chunk(o))
  <2>1. /\ p.src = s /\ p.dataStatus = o.dataStatus /\ p.dataSize = o.dataSize
        /\ p.data = Chunk(o)
    BY DEF Packet
  <2>2. HeadOf(sent', z) = h
    <3> HIDE DEF p
    <3> QED BY <1>4, <2>1 DEF HeadOf
  <2> HIDE DEF p, h
  <2> QED BY <1>4, <2>1, <2>2 DEF FrameOf
<1> HIDE DEF p
<1>6. faults = 0 /\ wire' = wire \o f
  <2>1. faults' # faults + 1
    BY DEF CleanInv
  <2>2. wire' = wire \o Frame(h, Chunk(o)) /\ faults' = faults
    BY <2>1 DEF SendPacket
  <2> QED BY <1>5, <2>2
<1>7. Clean
  BY <1>6 DEF CleanInv
<1>8. PICK S : /\ wire \in Seq(S) /\ input \in Seq(S) /\ messageStr \in Seq(S) /\ buffer \in Seq(S)
               /\ Acc \in Seq(S) /\ Coming \in Seq(S)
  BY SeqsOK
<1>9. Coming' = Coming \o f /\ Acc' = Acc
  <2>1. sent' \in Seq(PlainSet) /\ z \in 1..Len(sent')
    BY <1>2, <1>3, <1>4, AppendProperties
  <2>2. PICK T : f \in Seq(T)
    <3> HIDE DEF z
    <3> QED BY <2>1, FrameOfIs
  <2> DEFINE U == S \cup T
  <2>3. S \subseteq U /\ T \subseteq U
    OBVIOUS
  <2> HIDE DEF U, f
  <2>4. input \in Seq(U) /\ wire \in Seq(U) /\ f \in Seq(U)
    BY <1>8, <2>2, <2>3, SeqMonotonic
  <2>5. input \o (wire \o f) = (input \o wire) \o f
    BY <2>4, ConcatAssociative
  <2> QED BY <1>3, <1>6, <2>5 DEF Coming, Acc
<1>10. last \in Nat /\ last <= Len(sent) /\ last' \in 0..Len(sent')
  BY <1>3, <1>4, <1>7 DEF Clean
<1> DEFINE ex(lo) == Stream(Coming, lo, sent) => Stream(Coming', lo, sent')
<1>11. ASSUME NEW lo \in Nat, lo <= Len(sent) PROVE ex(lo)
  <2> SUFFICES ASSUME Stream(Coming, lo, sent) PROVE Stream(Coming', lo, sent')
    OBVIOUS
  <2>1. PICK num, pos : Marks(Coming, lo, sent, num, pos)
    BY DEF Stream
  <2>2. \E num2, pos2 :
           /\ Marks(Coming \o FrameOf(Append(sent, p), Len(sent) + 1), lo, Append(sent, p), num2, pos2)
           /\ \A i \in 1..Len(Coming) : num2[i] = num[i] /\ pos2[i] = pos[i]
    BY <1>2, <1>3, <1>8, <1>11, <2>1, StreamExtends
  <2> QED BY <1>3, <1>9, <2>2 DEF Stream, f, z
<1>12. pc \in InFrame => Reading(Acc', Coming', last', sent')
  <2> SUFFICES ASSUME pc \in InFrame PROVE Reading(Acc', Coming', last', sent')
    OBVIOUS
  <2>1. Reading(Acc, Coming, last, sent)
    BY <1>7 DEF Clean
  <2>2. Reading(Acc, Coming \o FrameOf(Append(sent, p), Len(sent) + 1), last, Append(sent, p))
    BY <1>2, <1>3, <1>8, <1>10, <2>1, ReadingExtends
  <2> QED BY <1>3, <1>9, <2>2 DEF f, z
<1>13. \A k \in (last + 1)..Len(sent) : /\ k \in (last' + 1)..Len(sent')
                                        /\ FrameOf(sent', k) = FrameOf(sent, k)
                                        /\ Stream(Coming, k, sent) => Stream(Coming', k, sent')
  <2> TAKE k \in (last + 1)..Len(sent)
  <2>1. k \in 1..Len(sent) /\ k \in Nat /\ k <= Len(sent) /\ k \in (last' + 1)..Len(sent')
    BY <1>3, <1>4, <1>10
  <2>2. FrameOf(sent', k) = FrameOf(sent, k)
    BY <1>2, <1>3, <2>1, FrameOfAppend
  <2> QED BY <1>11, <2>1, <2>2
<1>14. Stream(Coming, last, sent) => Stream(Coming', last', sent')
  BY <1>3, <1>10, <1>11
<1> HIDE DEF f, h, z, o
<1> QED BY <1>3, <1>7, <1>9, <1>10, <1>12, <1>13, <1>14 DEF Clean


\* A step that returns and leaves a sequence of frames on the line.
LEMMA Returned ==
  ASSUME NEW r, Return(r), last' \in 0..Len(sent'), Stream(Coming', last', sent')
  PROVE  Clean'
<1>1. pc' = "idle" /\ messageStr' = <<>> /\ buffer' = <<>>
  BY ReturnIs
<1> QED BY <1>1 DEF Clean, InFrame

\* One symbol less in the port's buffer.
LEMMA StreamTail ==
  ASSUME NEW S, input \in Seq(S), wire \in Seq(S), input # <<>>, NEW lo \in Nat, NEW ps,
         Stream(Coming, lo, ps)
  PROVE  Stream(Tail(input) \o wire, lo, ps)
<1>1. /\ input[1] \in S /\ Tail(input) \in Seq(S) /\ input = <<input[1]>> \o Tail(input)
  <2>1. Head(input) = input[1] /\ input = <<Head(input)>> \o Tail(input)
    OBVIOUS
  <2> QED BY <2>1, HeadTailProperties
<1> DEFINE x == <<input[1]>>  y == Tail(input)
<1>2. x \in Seq(S) /\ y \in Seq(S) /\ input = x \o y
  BY <1>1
<1> HIDE DEF x, y
<1>3. Coming = x \o (y \o wire) /\ y \o wire \in Seq(S)
  BY <1>2, ConcatAssociative, ConcatProperties DEF Coming
<1>4. Stream(y \o wire, lo, ps)
  BY <1>2, <1>3, StreamDrops
<1> QED BY <1>4 DEF y

\* findStartMsg puts the receiver at the beginning of a frame.
LEMMA CleanFinds ==
  ASSUME SenderInv, Plain, LineInv, Clean, FindStartMsg
  PROVE  Clean'
<1>1. PICK S : /\ wire \in Seq(S) /\ input \in Seq(S) /\ messageStr \in Seq(S) /\ buffer \in Seq(S)
               /\ Acc \in Seq(S) /\ Coming \in Seq(S)
  BY SeqsOK
<1>2. /\ pc = "find" /\ UNCHANGED <<wire, last, sent>> /\ last \in 0..Len(sent) /\ last \in Nat
      /\ messageStr = <<>> /\ buffer = <<>> /\ Stream(Coming, last, sent)
  <2>1. pc = "find" /\ UNCHANGED <<wire, last, sent>>
    BY DEF FindStartMsg, history
  <2> QED BY <2>1, LenProperties DEF Clean, InFrame, SenderInv
<1>3. ASSUME input' = <<>>, Return("error") PROVE Clean'
  <2>1. Stream(wire, last, sent)
    BY <1>1, <1>2, StreamDrops DEF Coming
  <2>2. <<>> \o wire = wire
    BY <1>1, ConcatEmptySeq
  <2> QED BY <1>2, <1>3, <2>1, <2>2, Returned DEF Coming
<1>4. ASSUME NEW i \in Starts(input), input' = SubSeq(input, i + 1, Len(input)), buffer' = <<STX>>,
             pc' = "begin", UNCHANGED messageStr
      PROVE  Clean'
  <2>1. i \in 1..Len(input) /\ input[i] = STX
    BY <1>1, LenProperties DEF Starts
  <2>2. Reading(<<STX>>, SubSeq(input, i + 1, Len(input)) \o wire, last, sent)
    BY <1>1, <1>2, <2>1, PlainSent, ReadingStarts DEF Coming
  <2>3. Acc' = <<STX>>
    <3>1. <<>> \o <<STX>> = <<STX>>
      OBVIOUS
    <3> QED BY <1>2, <1>4, <3>1 DEF Acc
  <2>4. Reading(Acc', Coming', last', sent')
    BY <1>2, <1>4, <2>2, <2>3 DEF Coming
  <2> QED BY <1>2, <1>4, <2>4 DEF Clean, InFrame
<1> QED BY <1>3, <1>4 DEF FindStartMsg

\* A turn adds the symbol to the frame, or begins a new one.
LEMMA GotAcc ==
  ASSUME NEW x, Got(x), LineInv
  PROVE  /\ x = STX => Acc' = <<STX>> /\ messageStr' = <<>> /\ buffer' = <<STX>>
         /\ x # STX => Acc' = Append(Acc, x)
         /\ c' = x
         /\ x = ETX => pc' = "check"
         /\ x # ETX => pc' \in {"wait", "read"}
<1>1. PICK S : messageStr \in Seq(S) /\ buffer \in Seq(S)
  BY DEF LineInv, Streams
<1> DEFINE T == S \cup {x}
<1>2. S \subseteq T /\ x \in T
  OBVIOUS
<1> HIDE DEF T
<1>3. messageStr \in Seq(T) /\ buffer \in Seq(T)
  BY <1>1, <1>2, SeqMonotonic
<1>4. /\ Append(buffer, x) = buffer \o <<x>> /\ Append(Acc, x) = Acc \o <<x>>
      /\ <<x>> \in Seq(T) /\ Acc \in Seq(T)
  <2>1. <<x>> \in Seq(T) /\ Acc \in Seq(T)
    BY <1>2, <1>3, ConcatProperties DEF Acc
  <2> QED BY <1>2, <1>3, <2>1, AppendIsConcat
<1>5. messageStr \o Append(buffer, x) = Append(Acc, x)
  <2>1. messageStr \o (buffer \o <<x>>) = (messageStr \o buffer) \o <<x>>
    BY <1>3, <1>4, ConcatAssociative
  <2> QED BY <1>4, <2>1 DEF Acc
<1>6. Append(Acc, x) \in Seq(T) /\ Append(Acc, x) \o <<>> = Append(Acc, x)
  BY <1>2, <1>4, AppendProperties, ConcatEmptySeq
<1>7. CASE x = STX
  <2>1. messageStr' = <<>> /\ buffer' = <<STX>>
    BY <1>7 DEF Got
  <2>2. <<>> \o <<STX>> = <<STX>>
    OBVIOUS
  <2>3. Acc' = <<STX>> /\ STX # ETX
    BY <2>1, <2>2 DEF Acc, STX, ETX
  <2>4. c' = x /\ pc' \in {"wait", "read"}
    BY <1>7, <2>3 DEF Got
  <2> QED BY <1>7, <2>1, <2>3, <2>4
<1>8. CASE x # STX /\ Full(buffer)
  <2>1. messageStr' = messageStr \o Append(buffer, x) /\ buffer' = <<>>
    BY <1>8 DEF Got
  <2>2. Acc' = Append(Acc, x)
    BY <1>5, <1>6, <2>1 DEF Acc
  <2>3. c' = x /\ (x = ETX => pc' = "check") /\ (x # ETX => pc' \in {"wait", "read"})
    BY DEF Got
  <2> QED BY <1>8, <2>2, <2>3
<1>9. CASE x # STX /\ ~ Full(buffer)
  <2>1. messageStr' = messageStr /\ buffer' = Append(buffer, x)
    BY <1>9 DEF Got
  <2>2. Acc' = Append(Acc, x)
    BY <1>5, <2>1 DEF Acc
  <2>3. c' = x /\ (x = ETX => pc' = "check") /\ (x # ETX => pc' \in {"wait", "read"})
    BY DEF Got
  <2> QED BY <1>9, <2>2, <2>3
<1> QED BY <1>7, <1>8, <1>9

\* Frames after the k-th are frames after an earlier one.
LEMMA StreamLower ==
  ASSUME NEW t, NEW lo \in Nat, NEW k \in Nat, lo <= k, NEW ps, Stream(t, k, ps)
  PROVE  Stream(t, lo, ps)
<1>1. PICK num, pos : Marks(t, k, ps, num, pos)
  BY DEF Stream
<1>2. OnPlace(t, lo, ps, num, pos)
  <2> SUFFICES ASSUME NEW i \in 1..Len(t)
               PROVE  /\ num[i] \in (lo + 1)..Len(ps)
                      /\ pos[i] \in 1..Size(ps, num[i])
                      /\ t[i] = FrameOf(ps, num[i])[pos[i]]
    BY DEF OnPlace
  <2>1. /\ num[i] \in (k + 1)..Len(ps) /\ pos[i] \in 1..Size(ps, num[i])
        /\ t[i] = FrameOf(ps, num[i])[pos[i]]
    BY <1>1 DEF Marks, OnPlace
  <2>2. num[i] \in (lo + 1)..Len(ps)
    BY <2>1
  <2> QED BY <2>1, <2>2
<1> QED BY <1>1, <1>2 DEF Marks, Stream

\* The next symbol of the port's buffer is the next one of the line.
LEMMA ComingFirst ==
  ASSUME NEW S, input \in Seq(S), wire \in Seq(S), input # <<>>
  PROVE  /\ Coming \in Seq(S) /\ Coming # <<>> /\ Coming[1] = input[1]
         /\ Tail(Coming) = Tail(input) \o wire
<1> DEFINE x == input[1]  v == Tail(input)  u == v \o wire
<1>1. x \in S /\ v \in Seq(S) /\ input = <<x>> \o v /\ Len(input) \in Nat /\ Len(input) >= 1
  <2>1. Head(input) = x /\ input = <<Head(input)>> \o Tail(input)
    OBVIOUS
  <2> QED BY <2>1, HeadTailProperties, LenProperties, EmptySeq
<1> HIDE DEF v
<1>2. u \in Seq(S) /\ Coming = <<x>> \o u /\ <<x>> \in Seq(S)
  <2> DEFINE e == <<x>>
  <2>1. e \in Seq(S) /\ input = e \o v
    BY <1>1
  <2> HIDE DEF e
  <2>2. (e \o v) \o wire = e \o (v \o wire) /\ v \o wire \in Seq(S)
    BY <1>1, <2>1, ConcatAssociative, ConcatProperties
  <2> QED BY <2>1, <2>2 DEF Coming, e
<1> HIDE DEF x, u
<1>3. <<x>> \o u # <<>> /\ (<<x>> \o u)[1] = x /\ Tail(<<x>> \o u) = u
  BY <1>2
<1> QED BY <1>2, <1>3, ConcatProperties DEF x, u, v

\* The next symbol of the frame is read, or its last.
LEMMA CleanReads ==
  ASSUME SenderInv, Plain, LineInv, Clean, ReadBuf
  PROVE  Clean'
<1> DEFINE x == input[1]
<1>1. PICK S : /\ wire \in Seq(S) /\ input \in Seq(S) /\ messageStr \in Seq(S) /\ buffer \in Seq(S)
               /\ Acc \in Seq(S) /\ Coming \in Seq(S)
  BY SeqsOK
<1>2. /\ pc = "read" /\ Got(x) /\ input # <<>> /\ input' = Tail(input) /\ UNCHANGED <<wire, last, sent>>
  BY DEF ReadBuf, history
<1>3. last \in Nat /\ last \in 0..Len(sent) /\ Reading(Acc, Coming, last, sent) /\ sent \in Seq(PlainSet)
  BY <1>2, PlainSent DEF Clean, InFrame
<1>4. Coming # <<>> /\ Coming[1] = x /\ Coming' = Tail(Coming)
  <2>1. Coming' = Tail(input) \o wire
    BY <1>2 DEF Coming
  <2> QED BY <1>1, <1>2, <2>1, ComingFirst
<1> HIDE DEF x
<1>5. /\ x # STX
      /\ x # ETX => Reading(Append(Acc, x), Coming', last, sent)
      /\ x = ETX => \E k \in (last + 1)..Len(sent) :
                       Append(Acc, x) = FrameOf(sent, k) /\ Stream(Coming', k, sent)
  BY <1>1, <1>3, <1>4, ReadingReads
<1>6. /\ Acc' = Append(Acc, x) /\ c' = x
      /\ x = ETX => pc' = "check"
      /\ x # ETX => pc' \in {"wait", "read"}
  BY <1>2, <1>5, GotAcc
<1>7. CASE x # ETX
  BY <1>2, <1>3, <1>5, <1>6, <1>7 DEF Clean, InFrame
<1>8. CASE x = ETX
  <2>1. PICK k \in (last + 1)..Len(sent) : Acc' = FrameOf(sent, k) /\ Stream(Coming', k, sent)
    BY <1>5, <1>6, <1>8
  <2>2. Stream(Coming', last, sent)
    <3>1. k \in Nat /\ last <= k
      BY <1>3
    <3> QED BY <1>3, <2>1, <3>1, StreamLower
  <2>3. pc' = "check"
    BY <1>6, <1>8
  <2> QED BY <1>2, <1>3, <2>1, <2>2, <2>3 DEF Clean, InFrame
<1> QED BY <1>7, <1>8

\* A readBuf that times out repeats STX at the beginning of a frame, which
\* changes nothing, or takes a c that happens to be ETX: the frame is rejected.
LEMMA CleanStale ==
  ASSUME SenderInv, Plain, LineInv, CleanInv, ReadStale, faults' = 0
  PROVE  Clean'
<1>1. PICK S : /\ wire \in Seq(S) /\ input \in Seq(S) /\ messageStr \in Seq(S) /\ buffer \in Seq(S)
               /\ Acc \in Seq(S) /\ Coming \in Seq(S)
  BY SeqsOK
<1>2. pc = "read" /\ UNCHANGED <<input, wire, last, sent>> /\ Coming' = Coming
  BY DEF ReadStale, history, Coming
<1>3. \/ c \in {STX, ETX} /\ Got(c) /\ faults' = faults
      \/ UNCHANGED <<pc, c, buffer, messageStr, faults>>
  <2>1. faults' # faults + 1
    BY DEF CleanInv
  <2>2. c \in {STX, ETX} => (IF c.is = "head" THEN Byte(1) ELSE c) = c
    BY DEF STX, ETX
  <2> QED BY <2>1, <2>2 DEF ReadStale
<1>4. Clean
  BY <1>3 DEF CleanInv
<1>5. CASE UNCHANGED <<pc, c, buffer, messageStr, faults>>
  BY <1>2, <1>4, <1>5, CleanFrame
<1>6. CASE c \in {STX, ETX} /\ Got(c)
  <2>1. /\ messageStr = <<>> /\ buffer = <<STX>> /\ Reading(Acc, Coming, last, sent)
        /\ last \in 0..Len(sent) /\ last \in Nat
    BY <1>2, <1>4, <1>6, LenProperties DEF Clean, InFrame, SenderInv
  <2>2. Acc = <<STX>>
    <3>1. <<>> \o <<STX>> = <<STX>>
      OBVIOUS
    <3> QED BY <2>1, <3>1 DEF Acc
  <2>3. CASE c = STX
    <3>1. /\ Acc' = <<STX>> /\ messageStr' = <<>> /\ buffer' = <<STX>> /\ c' = STX
          /\ pc' \in {"wait", "read"}
      <4>1. STX # ETX
        BY DEF STX, ETX
      <4> QED BY <1>6, <2>3, <4>1, GotAcc
    <3> QED BY <1>2, <2>1, <2>2, <3>1 DEF Clean, InFrame
  <2>4. CASE c = ETX
    <3>1. Acc' = Append(Acc, ETX) /\ pc' = "check"
      <4>1. STX # ETX
        BY DEF STX, ETX
      <4> QED BY <1>6, <2>4, <4>1, GotAcc
    <3>2. Len(Acc') = 2
      BY <2>2, <3>1
    <3>3. Stream(Coming, last, sent)
      BY <1>1, <2>1, ReadingStreams
    <3> QED BY <1>2, <2>1, <3>1, <3>2, <3>3 DEF Clean, InFrame
  <2> QED BY <1>6, <2>3, <2>4
<1> QED BY <1>3, <1>5, <1>6

\* What is accepted is a packet that was sent.
LEMMA Accepted ==
  ASSUME SenderInv, Plain, LineInv, Clean, pc = "check", Body # <<>>
  PROVE  \E k \in (last + 1)..Len(sent) :
            /\ Body[1] = Header(HeadOf(sent, k)) /\ HeadOf(sent, k).frame = k
            /\ Fitting(sent[k]) => DataOf(HeadOf(sent, k), Body) = sent[k].data
            /\ Packet(HeadOf(sent, k), sent[k].data) = sent[k]
            /\ Stream(Coming, k, sent)
<1>1. PICK S : Acc \in Seq(S)
  BY SeqsOK
<1>2. Body = BodyOf(Acc)
  BY DEF Body, Acc, BodyOf
<1>3. Len(Acc) # 2
  <2>1. SubSeq(Acc, 2, 1) = <<>>
    BY SubSeqEmpty
  <2>2. 2 - 1 = 1
    OBVIOUS
  <2> QED BY <1>2, <2>1, <2>2 DEF BodyOf
<1>4. PICK k \in (last + 1)..Len(sent) : Acc = FrameOf(sent, k) /\ Stream(Coming, k, sent)
  BY <1>3 DEF Clean
<1>5. k \in 1..Len(sent) /\ sent \in Seq(PlainSet)
  <2>1. last \in 0..Len(sent) /\ sent \in Seq(PlainSet) /\ Len(sent) \in Nat
    BY PlainSent DEF Clean
  <2> QED BY <2>1
<1> HIDE DEF Acc, Body
<1>6. /\ Body[1] = Header(HeadOf(sent, k)) /\ HeadOf(sent, k).frame = k
      /\ Fitting(sent[k]) => DataOf(HeadOf(sent, k), Body) = sent[k].data
      /\ Packet(HeadOf(sent, k), sent[k].data) = sent[k]
  BY <1>2, <1>4, <1>5, WholeFrame
<1> QED BY <1>4, <1>6

\* A symbol that arrives stays where it is in the sequence.
LEMMA CleanArrives ==
  ASSUME Plain, LineInv, CleanInv, Arrive, faults' = 0
  PROVE  Clean'
<1>1. PICK S : wire \in Seq(S) /\ input \in Seq(S)
  BY SeqsOK
<1>2. /\ wire # <<>> /\ wire' = Tail(wire) /\ UNCHANGED <<pc, c, messageStr, buffer, last, sent>>
      /\ input' = Append(input, wire[1]) /\ faults' = faults
  <2>1. faults' # faults + 1
    BY DEF CleanInv
  <2> QED BY <2>1 DEF Arrive, receiver, history
<1> DEFINE x == wire[1]  e == <<x>>  v == Tail(wire)
<1>3. x \in S /\ e \in Seq(S) /\ v \in Seq(S) /\ wire = e \o v
  <2>1. Head(wire) = x /\ wire = <<Head(wire)>> \o Tail(wire)
    BY <1>1, <1>2
  <2>2. x \in S /\ v \in Seq(S)
    BY <1>1, <1>2, <2>1, HeadTailProperties
  <2> QED BY <2>1, <2>2
<1>4. Append(input, x) = input \o e
  BY <1>1, <1>3, AppendIsConcat
<1> HIDE DEF x, e, v
<1>5. (input \o e) \o v = input \o (e \o v)
  BY <1>1, <1>3, ConcatAssociative
<1>6. Coming' = Coming
  BY <1>2, <1>3, <1>4, <1>5 DEF Coming, x, v
<1> QED BY <1>2, <1>6, CleanFrame DEF CleanInv

Busy == InFrame \cup {"check"}

\* A step outside recMAXasciiMsg.
LEMMA Waiting ==
  ASSUME Clean, pc \notin Busy, pc' \notin Busy,
         UNCHANGED <<messageStr, buffer, last, sent>>, Stream(Coming', last, sent)
  PROVE  Clean'
BY DEF Clean, Busy, InFrame

\* Outside recMAXasciiMsg, frames are on the line.
LEMMA AtRest ==
  ASSUME Clean, pc \notin Busy
  PROVE  Stream(Coming, last, sent)
BY DEF Clean, Busy

\* A step adds a fault or none.
LEMMA Counted ==
  ASSUME CleanInv, [Next]_vars
  PROVE  faults' = faults \/ faults' = faults + 1
<1>1. ASSUME NEW s \in Senders, SendPacket(s) PROVE faults' = faults \/ faults' = faults + 1
  BY <1>1 DEF SendPacket
<1>2. ASSUME NEW s \in Senders, SendMAXmsg(s) PROVE faults' = faults
  BY <1>2 DEF SendMAXmsg, line
<1>3. ASSUME Arrive PROVE faults' = faults \/ faults' = faults + 1
  BY <1>3 DEF Arrive
<1>4. ASSUME ReadStale PROVE faults' = faults \/ faults' = faults + 1
  BY <1>4 DEF ReadStale
<1>5. ASSUME \/ RecMAXmsg \/ (\E x : WaitFor(x)) \/ (\E n : WaitForNdata(n)) \/ UNCHANGED vars
             \/ FindStartMsg \/ BeginFrame \/ ReadBuf \/ Poll \/ MoreData \/ TimeOut
             \/ CheckMAXasciiMsg \/ AwaitMore \/ Awaited
      PROVE  faults' = faults
  BY <1>5 DEF RecMAXmsg, WaitFor, WaitForNdata, vars, line, FindStartMsg, BeginFrame, ReadBuf,
              Poll, MoreData, TimeOut, CheckMAXasciiMsg, AwaitMore, Awaited
<1> QED BY <1>1, <1>2, <1>3, <1>4, <1>5 DEF Next, Receiver

\* checkMAXasciiMsg goes on with the frames after the one it accepts.
LEMMA CleanChecks ==
  ASSUME SenderInv, Plain, LineInv, Clean, CheckMAXasciiMsg
  PROVE  Clean'
<1>1. pc = "check" /\ UNCHANGED <<input, wire, sent>> /\ Coming' = Coming /\ Stream(Coming, last, sent)
  BY DEF CheckMAXasciiMsg, line, Clean, Coming
<1>2. last \in 0..Len(sent) /\ Len(sent) \in Nat
  BY LenProperties DEF Clean, SenderInv
<1>3. ASSUME NEW m, Reject(m) PROVE Clean'
  BY <1>1, <1>2, <1>3, Returned DEF Reject
<1>4. ASSUME Body # <<>>, last' = Body[1].head.frame, Return("ok") PROVE Clean'
  <2>1. PICK k \in (last + 1)..Len(sent) :
            /\ Body[1] = Header(HeadOf(sent, k)) /\ HeadOf(sent, k).frame = k
            /\ Stream(Coming, k, sent)
    BY <1>1, <1>4, Accepted
  <2>2. Body[1].head.frame = k
    BY <2>1 DEF Header
  <2>3. last' = k /\ k \in 0..Len(sent)
    BY <1>2, <1>4, <2>2
  <2> QED BY <1>1, <1>4, <2>1, <2>3, Returned
<1>5. \/ \E m : Reject(m)
      \/ Body # <<>> /\ last' = Body[1].head.frame /\ Return("ok")
  BY DEF CheckMAXasciiMsg
<1> QED BY <1>3, <1>4, <1>5

\* The steps that only wait, give up, or throw symbols away.
LEMMA CleanOthers ==
  ASSUME LineInv, Clean,
         \/ RecMAXmsg \/ (\E x : WaitFor(x)) \/ (\E n : WaitForNdata(n)) \/ BeginFrame \/ MoreData
         \/ TimeOut \/ AwaitMore \/ Awaited
  PROVE  Clean'
<1>1. PICK S : /\ wire \in Seq(S) /\ input \in Seq(S) /\ messageStr \in Seq(S) /\ buffer \in Seq(S)
               /\ Acc \in Seq(S) /\ Coming \in Seq(S)
  BY SeqsOK
<1>2. ASSUME pc \notin Busy, pc' \notin Busy, UNCHANGED <<messageStr, buffer, input, wire, last, sent>>
      PROVE  Clean'
  BY <1>2, Waiting, AtRest DEF Coming
<1>3. ASSUME RecMAXmsg \/ (\E x : WaitFor(x)) \/ (\E n : WaitForNdata(n)) PROVE Clean'
  BY <1>2, <1>3 DEF RecMAXmsg, WaitFor, WaitForNdata, line, history, Busy, InFrame
<1>4. ASSUME BeginFrame \/ MoreData PROVE Clean'
  <2>1. /\ pc \in InFrame /\ pc' = "read" /\ UNCHANGED <<messageStr, buffer, input, wire, last, sent>>
        /\ (pc # "begin" => c' = c)
    BY <1>4 DEF BeginFrame, MoreData, line, history, InFrame
  <2>2. Acc' = Acc /\ Coming' = Coming
    BY <2>1 DEF Acc, Coming
  <2> QED BY <2>1, <2>2 DEF Clean, InFrame
<1>5. last \in 0..Len(sent)
  BY DEF Clean
<1>6. ASSUME TimeOut PROVE Clean'
  <2>1. pc \in InFrame /\ Return("error") /\ UNCHANGED <<input, wire, last, sent>>
    BY <1>6 DEF TimeOut, line, history, InFrame
  <2>2. Stream(Coming, last, sent)
    <3>1. Reading(Acc, Coming, last, sent)
      BY <2>1 DEF Clean
    <3>2. last \in Nat
      BY <1>5
    <3> QED BY <1>1, <3>1, <3>2, ReadingStreams
  <2> QED BY <1>5, <2>1, <2>2, Returned DEF Coming
<1>7. ASSUME AwaitMore PROVE Clean'
  <2>1. pc \notin Busy /\ UNCHANGED <<input, wire, last, sent>>
        /\ (Return("gave up") \/ UNCHANGED <<pc, messageStr, buffer>>)
    BY <1>7 DEF AwaitMore, NothingYet, line, history, Busy, InFrame
  <2>2. Stream(Coming, last, sent)
    BY <2>1, AtRest
  <2>3. CASE Return("gave up")
    BY <1>5, <2>1, <2>2, <2>3, Returned DEF Coming
  <2>4. CASE UNCHANGED <<pc, messageStr, buffer>>
    BY <1>2, <2>1, <2>4
  <2> QED BY <2>1, <2>3, <2>4
<1>8. ASSUME Awaited PROVE Clean'
  <2>1. /\ pc \notin Busy /\ UNCHANGED <<wire, last, sent>>
        /\ (input' = input \/ (input # <<>> /\ input' = Tail(input)))
    <3>1. pc = "response" \/ pc = "ndata"
      BY <1>8, Zenon DEF Awaited, Enough
    <3>2. UNCHANGED <<wire, last, sent>>
      BY <1>8 DEF Awaited, history
    <3>3. input' = input \/ (input # <<>> /\ input' = Tail(input))
      BY <1>8, Zenon DEF Awaited
    <3> QED BY <3>1, <3>2, <3>3 DEF Busy, InFrame
  <2>2. Return("arrived") \/ UNCHANGED <<pc, messageStr, buffer>>
    BY <1>8, Zenon DEF Awaited
  <2>3. Stream(Coming', last, sent)
    <3>1. Stream(Coming, last, sent) /\ last \in Nat
      BY <1>5, <2>1, AtRest
    <3>2. CASE input' = input
      BY <2>1, <3>1, <3>2 DEF Coming
    <3>3. CASE input # <<>> /\ input' = Tail(input)
      <4>1. Stream(Tail(input) \o wire, last, sent)
        BY <1>1, <3>1, <3>3, StreamTail
      <4> QED BY <2>1, <3>3, <4>1 DEF Coming
    <3> QED BY <2>1, <3>2, <3>3
  <2>4. CASE Return("arrived")
    BY <1>5, <2>1, <2>3, <2>4, Returned
  <2>5. CASE UNCHANGED <<pc, messageStr, buffer>>
    BY <2>1, <2>3, <2>5, Waiting
  <2> QED BY <2>2, <2>4, <2>5
<1> QED BY <1>3, <1>4, <1>6, <1>7, <1>8

\* No step without a fault breaks up a frame.
LEMMA CleanStep == SenderInv /\ LineInv /\ CleanInv /\ [Next]_vars => CleanInv'
<1> SUFFICES ASSUME SenderInv, LineInv, CleanInv, [Next]_vars PROVE CleanInv'
  OBVIOUS
<1>1. faults' \in Nat /\ (faults' = 0 => faults = 0)
  BY Counted DEF CleanInv
<1> SUFFICES ASSUME faults' = 0, Plain' PROVE Clean'
  BY <1>1 DEF CleanInv
<1>2. Plain /\ Clean
  BY <1>1, PlainBefore DEF CleanInv
<1>3. ASSUME NEW s \in Senders, SendPacket(s) PROVE Clean'
  BY <1>2, <1>3, CleanSends
<1>4. ASSUME UNCHANGED <<pc, c, messageStr, buffer, input, wire, last, sent>> PROVE Clean'
  BY <1>2, <1>4, CleanFrame DEF Coming
<1>5. ASSUME NEW s \in Senders, SendMAXmsg(s) PROVE Clean'
  BY <1>4, <1>5 DEF SendMAXmsg, line, receiver
<1>6. ASSUME Poll \/ UNCHANGED vars PROVE Clean'
  BY <1>4, <1>6 DEF Poll, vars, line, receiver, history
<1>7. ASSUME Arrive PROVE Clean'
  BY <1>2, <1>7, CleanArrives
<1>8. ASSUME FindStartMsg PROVE Clean'
  BY <1>2, <1>8, CleanFinds
<1>9. ASSUME ReadBuf PROVE Clean'
  BY <1>2, <1>9, CleanReads
<1>10. ASSUME ReadStale PROVE Clean'
  BY <1>2, <1>10, CleanStale
<1>11. ASSUME CheckMAXasciiMsg PROVE Clean'
  BY <1>2, <1>11, CleanChecks
<1>12. ASSUME \/ RecMAXmsg \/ (\E x : WaitFor(x)) \/ (\E n : WaitForNdata(n)) \/ BeginFrame \/ MoreData
              \/ TimeOut \/ AwaitMore \/ Awaited
       PROVE  Clean'
  BY <1>2, <1>12, CleanOthers
<1> QED BY <1>3, <1>5, <1>6, <1>7, <1>8, <1>9, <1>10, <1>11, <1>12 DEF Next, Receiver

-----------------------------------------------------------------------------
(* The caller's structure, and the link                                    *)

DataKept == message.data = IF got = <<>> THEN <<>> ELSE Last(got).data

CallerInv ==
  /\ message = [head |-> message.head, data |-> message.data]
  /\ \E S : got \in Seq(S)
  /\ DataKept
  /\ faults = 0 /\ Plain /\ ret = "ok" =>
       /\ last \in 1..Len(sent)
       /\ Link!Arrived(sent[last], Packet(message.head.head, message.data))

\* At first the structure is empty.
LEMMA CallerInit == Init => CallerInv
<1> SUFFICES ASSUME Init PROVE CallerInv
  OBVIOUS
<1>1. message = [head |-> Nothing, data |-> <<>>] /\ got = <<>> /\ ret = "none"
  BY DEF Init
<1>2. <<>> \in Seq({})
  OBVIOUS
<1> QED BY <1>1, <1>2 DEF CallerInv, DataKept

\* Either a packet is added to those that were sent, or they stay.
LEMMA SentGrows ==
  ASSUME SenderInv, [Next]_vars
  PROVE  sent' = sent \/ \E p \in PacketSet : sent' = Append(sent, p) /\ UNCHANGED <<got, last>>
<1>1. ASSUME NEW s \in Senders, SendPacket(s)
      PROVE  \E p \in PacketSet : sent' = Append(sent, p) /\ UNCHANGED <<got, last>>
  <2> DEFINE o == out[s]
             h == [src |-> s, dataStatus |-> o.dataStatus, dataSize |-> o.dataSize,
                   frame |-> Len(sent) + 1]
             p == Packet(h, Chunk(o))
             d == Chunk(o)  st == o.dataStatus  sz == o.dataSize
  <2>1. o \in Job
    BY <1>1 DEF SenderInv, SendPacket, Idle
  <2>2. d \in Seq(Bytes) /\ st \in FULL..END /\ sz \in Nat
    BY <2>1, JobFields, ChunkType
  <2>3. p = [src |-> s, dataStatus |-> st, dataSize |-> sz, data |-> d]
    BY DEF Packet
  <2>4. sent' = Append(sent, p) /\ UNCHANGED <<got, last>>
    BY <1>1 DEF SendPacket
  <2> HIDE DEF p, d, st, sz
  <2>5. p \in PacketSet
    BY <2>2, <2>3 DEF PacketSet
  <2> QED BY <2>4, <2>5
<1>2. ASSUME NEW s \in Senders, SendMAXmsg(s) PROVE sent' = sent
  BY <1>2 DEF SendMAXmsg
<1>3. ASSUME \/ Arrive \/ RecMAXmsg \/ (\E x : WaitFor(x)) \/ (\E n : WaitForNdata(n)) \/ Receiver
             \/ UNCHANGED vars
      PROVE  sent' = sent
  BY <1>3 DEF Arrive, RecMAXmsg, WaitFor, WaitForNdata, vars, history, Receiver, FindStartMsg,
              BeginFrame, ReadBuf, ReadStale, Poll, MoreData, TimeOut, CheckMAXasciiMsg, AwaitMore,
              Awaited
<1> QED BY <1>1, <1>2, <1>3 DEF Next

\* Only checkMAXasciiMsg touches the structure, and only it returns OK.
LEMMA OnlyChecks ==
  ASSUME [Next]_vars, ~ CheckMAXasciiMsg
  PROVE  UNCHANGED <<message, got, last>> /\ (ret' = ret \/ ret' # "ok")
<1>1. ASSUME NEW s \in Senders, SendPacket(s) \/ SendMAXmsg(s)
      PROVE  UNCHANGED <<message, got, last, ret>>
  BY <1>1 DEF SendPacket, SendMAXmsg, receiver
<1>2. ASSUME Arrive \/ RecMAXmsg \/ (\E x : WaitFor(x)) \/ (\E n : WaitForNdata(n)) \/ UNCHANGED vars
      PROVE  UNCHANGED <<message, got, last>> /\ (ret' = ret \/ ret' # "ok")
  BY <1>2 DEF Arrive, RecMAXmsg, WaitFor, WaitForNdata, vars, history, receiver
<1>3. ASSUME BeginFrame \/ Poll \/ MoreData PROVE UNCHANGED <<message, got, last, ret>>
  BY <1>3 DEF BeginFrame, Poll, MoreData, history
<1>4. ASSUME FindStartMsg \/ TimeOut \/ AwaitMore
      PROVE  UNCHANGED <<message, got, last>> /\ (ret' = ret \/ ret' # "ok")
  BY <1>4 DEF FindStartMsg, TimeOut, AwaitMore, history, Return
<1>5. ASSUME Awaited PROVE UNCHANGED <<message, got, last>> /\ (ret' = ret \/ ret' # "ok")
  <2>1. UNCHANGED <<message, got, last>>
    BY <1>5 DEF Awaited, history
  <2>2. Return("arrived") \/ ret' = ret
    BY <1>5, Zenon DEF Awaited
  <2> QED BY <2>1, <2>2 DEF Return
<1>6. ASSUME ReadBuf \/ ReadStale PROVE UNCHANGED <<message, got, last, ret>>
  BY <1>6 DEF ReadBuf, ReadStale, history, Got
<1> QED BY <1>1, <1>2, <1>3, <1>4, <1>5, <1>6 DEF Next, Receiver

\* What checkMAXasciiMsg may do.
LEMMA ChecksIs ==
  ASSUME SenderInv, LineInv, CheckMAXasciiMsg
  PROVE  \/ \E x : Reject([message EXCEPT !.head = x])
         \/ Reject(message)
         \/ /\ Body # <<>> /\ Return("ok")
            /\ message' = [head |-> Body[1], data |-> DataOf(Body[1].head, Body)]
            /\ got' = Append(got, Packet(Body[1].head, DataOf(Body[1].head, Body)))
            /\ last' = Body[1].head.frame
BY DEF CheckMAXasciiMsg

\* A packet with the header of a sent one, and its data if it is as long as it
\* says, has arrived.
LEMMA ArrivedIs ==
  ASSUME NEW k, NEW d, Packet(HeadOf(sent, k), sent[k].data) = sent[k],
         Fitting(sent[k]) => d = sent[k].data
  PROVE  Link!Arrived(sent[k], Packet(HeadOf(sent, k), d))
<1> DEFINE h == HeadOf(sent, k)  q == Packet(h, d)  p == Packet(h, sent[k].data)
<1>1. q.data = d /\ Link!HeaderOf(q) = Link!HeaderOf(p)
  BY DEF Packet, Link!HeaderOf
<1> HIDE DEF q, h
<1>2. sent[k] \in Sound => d = sent[k].data
  BY DEF Sound
<1> QED BY <1>1, <1>2 DEF Link!Arrived, q, h

\* A call that returns OK has filled the structure from a packet that was sent.
LEMMA CallerStep ==
  SenderInv /\ LineInv /\ CleanInv /\ CleanInv' /\ CallerInv /\ [Next]_vars => CallerInv'
<1> SUFFICES ASSUME SenderInv, LineInv, CleanInv, CallerInv, [Next]_vars PROVE CallerInv'
  OBVIOUS
<1>1. faults' = 0 /\ Plain' => faults = 0 /\ Plain /\ Clean
  BY Counted, PlainBefore DEF CleanInv
<1>2. CASE ~ CheckMAXasciiMsg
  <2>1. UNCHANGED <<message, got, last>> /\ (ret' = ret \/ ret' # "ok")
    BY <1>2, OnlyChecks
  <2>2. last \in 1..Len(sent) => last \in 1..Len(sent') /\ sent'[last] = sent[last]
    <3>1. CASE sent' = sent
      BY <3>1
    <3>2. ASSUME NEW p \in PacketSet, sent' = Append(sent, p), last \in 1..Len(sent)
          PROVE  last \in 1..Len(sent') /\ sent'[last] = sent[last]
      <4>1. /\ sent \in Seq(PacketSet) /\ Len(sent) \in Nat /\ Len(Append(sent, p)) = Len(sent) + 1
            /\ Append(sent, p)[last] = sent[last]
        BY <3>2, AppendProperties, LenProperties DEF SenderInv
      <4> QED BY <3>2, <4>1
    <3> QED BY <3>1, <3>2, SentGrows
  <2> QED BY <1>1, <2>1, <2>2 DEF CallerInv, DataKept
<1>3. CASE CheckMAXasciiMsg
  <2>1. sent' = sent /\ pc = "check" /\ faults' = faults
    BY <1>3 DEF CheckMAXasciiMsg, line
  <2>2. ASSUME NEW x, Reject([message EXCEPT !.head = x]) PROVE CallerInv'
    <3>1. message' = [head |-> x, data |-> message.data] /\ got' = got /\ ret' = "error"
      BY <2>2 DEF Reject, Return, CallerInv
    <3> QED BY <3>1 DEF CallerInv, DataKept
  <2>3. ASSUME Reject(message) PROVE CallerInv'
    <3>1. message' = message /\ got' = got /\ ret' = "error"
      BY <2>3 DEF Reject, Return
    <3> QED BY <3>1 DEF CallerInv, DataKept
  <2>4. ASSUME /\ Body # <<>>
               /\ message' = [head |-> Body[1], data |-> DataOf(Body[1].head, Body)]
               /\ got' = Append(got, Packet(Body[1].head, DataOf(Body[1].head, Body)))
               /\ last' = Body[1].head.frame
        PROVE  CallerInv'
    <3> DEFINE h == Body[1].head  d == DataOf(h, Body)  p == Packet(h, d)
    <3>1. message' = [head |-> Body[1], data |-> d] /\ got' = Append(got, p) /\ last' = h.frame
      BY <2>4
    <3>2. p.data = d
      BY DEF Packet
    <3>3. /\ message' = [head |-> message'.head, data |-> message'.data]
          /\ message'.head = Body[1] /\ message'.data = d
      BY <3>1
    <3>4. (\E S : got' \in Seq(S)) /\ DataKept'
      <4>1. PICK S : got \in Seq(S)
        BY DEF CallerInv
      <4> DEFINE T == S \cup {p}
      <4>2. S \subseteq T /\ p \in T
        OBVIOUS
      <4> HIDE DEF T, p, d
      <4>3. got \in Seq(T)
        BY <4>1, <4>2, SeqMonotonic
      <4>4. /\ got' \in Seq(T) /\ Len(got') = Len(got) + 1 /\ got'[Len(got) + 1] = p
            /\ Len(got) \in Nat
        BY <3>1, <4>2, <4>3, AppendProperties, LenProperties
      <4>5. got' # <<>> /\ Last(got') = p
        BY <4>4 DEF Last
      <4> QED BY <3>2, <3>3, <4>4, <4>5 DEF DataKept
    <3>5. ASSUME faults' = 0, Plain'
          PROVE  /\ last' \in 1..Len(sent')
                 /\ Link!Arrived(sent'[last'], Packet(message'.head.head, message'.data))
      <4>1. PICK k \in (last + 1)..Len(sent) :
            /\ Body[1] = Header(HeadOf(sent, k)) /\ HeadOf(sent, k).frame = k
            /\ Fitting(sent[k]) => DataOf(HeadOf(sent, k), Body) = sent[k].data
            /\ Packet(HeadOf(sent, k), sent[k].data) = sent[k]
        BY <1>1, <2>1, <2>4, <3>5, Accepted
      <4>2. h = HeadOf(sent, k)
        BY <4>1 DEF Header
      <4>3. last' = k /\ Link!Arrived(sent[k], p)
        BY <3>1, <4>1, <4>2, ArrivedIs
      <4>4. k \in 1..Len(sent)
        <5>1. last \in 0..Len(sent) /\ Len(sent) \in Nat
          BY <1>1, <3>5, LenProperties DEF Clean, SenderInv
        <5> QED BY <5>1
      <4> QED BY <2>1, <3>3, <4>3, <4>4
    <3> HIDE DEF h, d, p
    <3> QED BY <3>3, <3>4, <3>5 DEF CallerInv
  <2> QED BY <1>3, <2>2, <2>3, <2>4, ChecksIs
<1> QED BY <1>2, <1>3

IInv == SenderInv /\ LineInv /\ CleanInv /\ CallerInv

\* The invariant that the results below rest on: what the senders have written,
\* what the receiver counts, how, while no fault has happened, what is on its
\* way is made of frames, and what the caller's structure holds.
THEOREM Invariant == Spec => []IInv
<1>1. Init => IInv
  BY SenderInit, LineInit, CleanInit, CallerInit DEF IInv
<1>2. IInv /\ [Next]_vars => IInv'
  BY SenderStep, LineStep, CleanStep, CallerStep DEF IInv
<1> QED BY <1>1, <1>2, PTL DEF Spec

\* As long as no fault has happened on the line, and no sender was asked for
\* bytes that begin or end a frame: when a call returns OK, the header in the
\* caller's structure is that of one packet that was sent, and so are the data,
\* unless a NUL has made them shorter than the packet says; and they are always
\* those of the packet accepted last.
THEOREM CallerTheorem == Spec => [](faults = 0 /\ Plain => CallersMessage)
<1>1. IInv => (faults = 0 /\ Plain => CallersMessage)
  BY DEF IInv, CallerInv, CallersMessage, DataKept
<1> QED BY <1>1, Invariant, PTL

\* On any line: a frame that is rejected, or a call that gives up, never
\* touches the data of the packet accepted before.
THEOREM DataTheorem == Spec => []DataKept
<1>1. IInv => DataKept
  BY DEF IInv, CallerInv
<1> QED BY <1>1, Invariant, PTL

\* The link begins where the program does.
LEMMA LinkInit == Init => Link!LInit
BY DEF Init, Link!LInit

\* A sequence with one more element begins with what it was.
LEMMA AppendKeeps ==
  ASSUME NEW S, NEW q \in Seq(S), NEW x
  PROVE  /\ Len(Append(q, x)) = Len(q) + 1 /\ Append(q, x)[Len(Append(q, x))] = x
         /\ SubSeq(Append(q, x), 1, Len(q)) = q
<1> DEFINE T == S \cup {x}  n == Len(q)  r == Append(q, x)  u == SubSeq(r, 1, n)
<1>1. S \subseteq T /\ x \in T
  OBVIOUS
<1> HIDE DEF T
<1>2. q \in Seq(T) /\ n \in Nat
  BY <1>1, SeqMonotonic, LenProperties
<1>3. r \in Seq(T) /\ Len(r) = n + 1 /\ r[n + 1] = x /\ \A i \in 1..n : r[i] = q[i]
  BY <1>1, <1>2, AppendProperties
<1> HIDE DEF r
<1>4. 1 \in Int /\ n \in Int /\ \A i \in 1..n : r[i] \in T
  BY <1>2, <1>3, ElementOfSeq
<1>5. Len(q) = n
  OBVIOUS
<1> HIDE DEF n
<1>6. /\ u \in Seq(T) /\ Len(u) = IF 1 <= n THEN n - 1 + 1 ELSE 0
      /\ \A i \in 1..(n - 1 + 1) : u[i] = r[1 + i - 1]
  BY <1>4, SubSeqProperties
<1>7. Len(u) = n /\ \A i \in 1..n : u[i] = r[i]
  <2>1. n - 1 + 1 = n /\ \A i \in 1..n : 1 + i - 1 = i
    BY <1>2
  <2> QED BY <1>2, <1>6, <2>1
<1> HIDE DEF u
<1>8. u = q
  BY <1>2, <1>3, <1>5, <1>6, <1>7, SeqEqual
<1> QED BY <1>3, <1>8 DEF u, n, r

\* Every step of the program without a fault is a step of the link, or none.
LEMMA LinkStep ==
  ASSUME IInv, faults' = 0, Plain', [Next]_vars
  PROVE  [Link!LNext]_(Link!lvars)
<1>0. SenderInv /\ LineInv /\ CleanInv /\ CallerInv /\ faults = 0 /\ Plain /\ Clean
  BY Counted, PlainBefore DEF IInv, CleanInv
<1>1. sent \in Seq(PacketSet) /\ Len(sent) \in Nat
  BY <1>0, LenProperties DEF SenderInv
<1>2. ASSUME NEW p \in PacketSet, sent' = Append(sent, p), UNCHANGED <<got, last>> PROVE Link!LSend
  <2>1. /\ Len(sent') = Len(sent) + 1 /\ sent'[Len(sent')] = p
        /\ SubSeq(sent', 1, Len(sent)) = sent
    BY <1>1, <1>2, AppendKeeps
  <2> QED BY <1>2, <2>1 DEF Link!LSend
<1>3. ASSUME sent' = sent, ~ CheckMAXasciiMsg PROVE UNCHANGED <<sent, got, last>>
  BY <1>3, OnlyChecks
<1>4. ASSUME CheckMAXasciiMsg
      PROVE  UNCHANGED <<sent, got, last>> \/ \E i \in (last + 1)..Len(sent) : Link!LReceive(i)
  <2>1. sent' = sent /\ pc = "check"
    BY <1>4 DEF CheckMAXasciiMsg
  <2>2. ASSUME NEW m, Reject(m) PROVE UNCHANGED <<sent, got, last>>
    BY <2>1, <2>2 DEF Reject
  <2>3. ASSUME /\ Body # <<>>
               /\ got' = Append(got, Packet(Body[1].head, DataOf(Body[1].head, Body)))
               /\ last' = Body[1].head.frame
        PROVE  \E i \in (last + 1)..Len(sent) : Link!LReceive(i)
    <3>1. PICK k \in (last + 1)..Len(sent) :
            /\ Body[1] = Header(HeadOf(sent, k)) /\ HeadOf(sent, k).frame = k
            /\ Fitting(sent[k]) => DataOf(HeadOf(sent, k), Body) = sent[k].data
            /\ Packet(HeadOf(sent, k), sent[k].data) = sent[k]
      BY <1>0, <2>1, <2>3, Accepted
    <3>2. Body[1].head = HeadOf(sent, k)
      BY <3>1 DEF Header
    <3> DEFINE p == Packet(Body[1].head, DataOf(Body[1].head, Body))
    <3>3. got' = Append(got, p) /\ last' = k /\ Link!Arrived(sent[k], p)
      BY <2>3, <3>1, <3>2, ArrivedIs
    <3>4. /\ Len(got') = Len(got) + 1 /\ got'[Len(got')] = p
          /\ SubSeq(got', 1, Len(got)) = got
      <4>1. PICK S : got \in Seq(S)
        BY <1>0 DEF CallerInv
      <4> HIDE DEF p
      <4> QED BY <3>3, <4>1, AppendKeeps
    <3> HIDE DEF p
    <3> QED BY <2>1, <3>3, <3>4 DEF Link!LReceive
  <2> QED BY <1>0, <1>4, <2>2, <2>3, ChecksIs
<1> QED BY <1>0, <1>2, <1>3, <1>4, SentGrows DEF Link!LNext, Link!lvars

\* In every behaviour without a fault in which nobody asks for bytes that begin
\* or end a frame, however senders and receiver interleave and however often
\* the receiver times out, the accepted packets are packets that were sent, in
\* order, none twice, and their data unchanged where no NUL cut them short.
THEOREM FaultlessTheorem == Spec /\ [](faults = 0 /\ Plain) => ImplementsLink
<1>1. IInv /\ (faults = 0 /\ Plain)' /\ [Next]_vars => [Link!LNext]_(Link!lvars)
  BY LinkStep
<1> QED BY <1>1, LinkInit, Invariant, PTL DEF Spec, ImplementsLink, Link!LSpec

\* Messages without such bytes.
PlainPlan == plan.calls \in [Senders -> Seq(Seq(Ordinary))]

\* A call of sendMAXmsg takes a message of the plan.
LEMMA PlainCalls ==
  ASSUME SenderInv, PlainPlan, Plain, NEW s \in Senders, SendMAXmsg(s)
  PROVE  PlainPlan' /\ Plain'
<1> DEFINE q == plan.calls[s]  m == Head(q)
<1>1. q \in Seq(Seq(Ordinary)) /\ q # <<>> /\ plan.calls \in [Senders -> Seq(Seq(Ordinary))]
  BY DEF SendMAXmsg, PlainPlan
<1>2. plan' = [plan EXCEPT !.calls[s] = Tail(@)] /\ asked' = [asked EXCEPT ![s] = @ \o m]
  BY DEF SendMAXmsg
<1>3. plan \in [calls : [Senders -> Seq(Seq(Bytes))], waits : Nat, faults : Nat]
      /\ asked \in [Senders -> Seq(Bytes)]
  BY DEF SenderInv
<1>4. plan'.calls = [plan.calls EXCEPT ![s] = Tail(q)]
  BY <1>2, <1>3
<1> HIDE DEF q
<1>5. m \in Seq(Ordinary) /\ Tail(q) \in Seq(Seq(Ordinary))
  BY <1>1, HeadTailProperties
<1>6. PlainPlan'
  BY <1>1, <1>4, <1>5 DEF PlainPlan
<1> HIDE DEF m
<1>7. Range(m) \subseteq Ordinary /\ m \in Seq(Bytes)
  <2>1. Ordinary \subseteq Bytes
    BY DEF Ordinary
  <2> QED BY <1>5, <2>1, RangeOfSeq, SeqMonotonic
<1>8. asked[s] \in Seq(Bytes)
  BY <1>3
<1>9. Range(asked[s] \o m) = Range(asked[s]) \cup Range(m)
  BY <1>7, <1>8, RangeConcatenation
<1>10. \A t \in Senders : asked'[t] = IF t = s THEN asked[s] \o m ELSE asked[t]
  BY <1>2, <1>3
<1>11. Plain'
  BY <1>7, <1>9, <1>10 DEF Plain, Ordinary
<1> QED BY <1>6, <1>11

\* In particular where no fault and no other message is planned.
THEOREM LinkTheorem == Spec /\ plan.faults = 0 /\ PlainPlan => ImplementsLink
<1> DEFINE Q == plan \in [calls : [Senders -> Seq(Seq(Bytes))], waits : Nat, faults : Nat]
                /\ plan.faults = 0 /\ faults = 0 /\ PlainPlan /\ Plain
<1>1. Init /\ plan.faults = 0 /\ PlainPlan => Q
  <2>1. Range(<<>>) \cap {START_MSG, END_MSG} = {}
    BY DEF Range
  <2>2. Init => Plain
    BY <2>1 DEF Init, Plain
  <2> QED BY <2>2, LinkAssumption DEF Init
<1>2. IInv /\ IInv' /\ Q /\ [Next]_vars => Q'
  <2> SUFFICES ASSUME IInv, IInv', Q, [Next]_vars PROVE Q'
    OBVIOUS
  <2>1. plan' \in [calls : [Senders -> Seq(Seq(Bytes))], waits : Nat, faults : Nat]
    BY DEF IInv, SenderInv
  <2>2. ~ (faults < plan.faults)
    OBVIOUS
  <2>3. ASSUME plan'.faults = plan.faults, plan'.calls = plan.calls, faults' = faults, asked' = asked
        PROVE  Q'
    BY <2>1, <2>3 DEF PlainPlan, Plain
  <2>4. ASSUME NEW s \in Senders, SendPacket(s) PROVE Q'
    <3>1. plan' = plan /\ faults' = faults /\ asked' = asked
      BY <2>2, <2>4 DEF SendPacket
    <3> QED BY <2>3, <3>1
  <2>5. ASSUME NEW s \in Senders, SendMAXmsg(s) PROVE Q'
    <3>1. plan'.faults = plan.faults /\ faults' = faults
      BY <2>5 DEF SendMAXmsg, line
    <3> QED BY <2>1, <2>5, <3>1, PlainCalls DEF IInv
  <2>6. ASSUME NEW x, WaitFor(x) PROVE Q'
    <3>1. plan'.faults = plan.faults /\ plan'.calls = plan.calls /\ faults' = faults /\ asked' = asked
      BY <2>6 DEF WaitFor, line, history
    <3> QED BY <2>3, <3>1
  <2>7. ASSUME NEW n, WaitForNdata(n) PROVE Q'
    <3>1. plan'.faults = plan.faults /\ plan'.calls = plan.calls /\ faults' = faults /\ asked' = asked
      BY <2>7 DEF WaitForNdata, line, history
    <3> QED BY <2>3, <3>1
  <2>8. ASSUME Arrive \/ ReadStale PROVE Q'
    <3>1. plan' = plan /\ faults' = faults /\ asked' = asked
      BY <2>2, <2>8 DEF Arrive, ReadStale, history
    <3> QED BY <2>3, <3>1
  <2>9. ASSUME \/ RecMAXmsg \/ UNCHANGED vars \/ FindStartMsg \/ BeginFrame \/ ReadBuf \/ Poll
               \/ MoreData \/ TimeOut \/ CheckMAXasciiMsg \/ AwaitMore \/ Awaited
        PROVE  Q'
    <3>1. plan' = plan /\ faults' = faults /\ asked' = asked
      BY <2>9 DEF RecMAXmsg, vars, line, history, FindStartMsg, BeginFrame, ReadBuf, Poll, MoreData,
                  TimeOut, CheckMAXasciiMsg, AwaitMore, Awaited
    <3> QED BY <2>3, <3>1
  <2> HIDE DEF Q
  <2> QED BY <2>4, <2>5, <2>6, <2>7, <2>8, <2>9 DEF Next, Receiver
<1>3. Q => faults = 0 /\ Plain
  OBVIOUS
<1> HIDE DEF Q
<1> QED BY <1>1, <1>2, <1>3, Invariant, FaultlessTheorem, PTL DEF Spec
=============================================================================
