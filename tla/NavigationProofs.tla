--------------------------- MODULE NavigationProofs ---------------------------
(***************************************************************************)
(* That the program gets through its file, whatever the file and the       *)
(* bounds of the loop are, and what its records and averages are; that a   *)
(* vehicle at rest stays where it is, in the filter and in the equations.  *)
(*                                                                         *)
(* Turns and RecordPerLine speak of the end of the loop only.  LoopInv     *)
(* says how index and n hang together before it, ReadInv what the lines    *)
(* are that are not read yet; RingInv says which record each element of    *)
(* the rings belongs to, where MeansOfLast only speaks of their sums, and  *)
(* FilterInv that filter and state stay in the field.                      *)
(***************************************************************************)
EXTENDS Navigation, FilterProofs, SequenceTheorems, FiniteSetTheorems

LoopInv ==
  /\ pc \in {"open", "read"} => n = 0 /\ index = Start
  /\ pc = "loop" => /\ n = index - Start
                    /\ index = Start \/ index <= Len(sensor)

FileInv == lines \in Seq(AnyLine) /\ sensor \in Seq(AnyRecord)

CountInv == n \in Nat /\ index \in Start..(Last + 1)

PcInv == pc \in {"open", "read", "loop", "save", "exited", "crashed"}

IInv == PcInv /\ FileInv /\ CountInv /\ LoopInv /\ Turns

-----------------------------------------------------------------------------

LEMMA Maximum == ASSUME NEW a \in Int, NEW b \in Int
                 PROVE  Max({a, b}) = IF a >= b THEN a ELSE b
<1> DEFINE m == IF a >= b THEN a ELSE b
<1>1. m \in {a, b} /\ \A y \in {a, b} : m >= y
  OBVIOUS
<1>2. \A k \in {a, b} : (\A y \in {a, b} : k >= y) => k = m
  OBVIOUS
<1> QED BY <1>1, <1>2 DEF Max

LEMMA Minimum == ASSUME NEW a \in Int, NEW b \in Int
                 PROVE  Min({a, b}) = IF a <= b THEN a ELSE b
<1> DEFINE m == IF a <= b THEN a ELSE b
<1>1. m \in {a, b} /\ \A y \in {a, b} : m <= y
  OBVIOUS
<1>2. \A k \in {a, b} : (\A y \in {a, b} : k <= y) => k = m
  OBVIOUS
<1> QED BY <1>1, <1>2 DEF Min

\* What Turns says, without Max and Min.
LEMMA TurnsIs ==
  ASSUME NEW len \in Nat
  PROVE  Max({0, Min({len, Last + 2}) - Start})
           = IF len < Start THEN 0 ELSE IF len <= Last + 2 THEN len - Start ELSE Last + 2 - Start
<1>1. Start \in Nat /\ Last \in Nat /\ Start <= Last
  BY LoopAssumption
<1>2. Min({len, Last + 2}) = IF len <= Last + 2 THEN len ELSE Last + 2
  BY <1>1, Minimum
<1>3. Min({len, Last + 2}) - Start \in Int
  BY <1>1, <1>2
<1>4. Max({0, Min({len, Last + 2}) - Start})
        = IF 0 >= Min({len, Last + 2}) - Start THEN 0 ELSE Min({len, Last + 2}) - Start
  BY <1>3, Maximum
<1> QED BY <1>1, <1>2, <1>4

LEMMA Initially == Init => IInv
<1> SUFFICES ASSUME Init PROVE IInv
  OBVIOUS
<1>1. FileInv
  BY FileAssumption DEF Init, FileInv
<1>2. PcInv /\ CountInv /\ LoopInv /\ Turns
  BY LoopAssumption DEF Init, PcInv, CountInv, LoopInv, Turns
<1> QED BY <1>1, <1>2 DEF IInv

\* A line less, or the end of the file.
LEMMA ReadStep ==
  ASSUME IInv, NEW g \in Garbage, ReadALine(g)
  PROVE  IInv' /\ (pc' = "loop" \/ Len(lines') < Len(lines))
<1>1. lines' \in Seq(AnyLine) /\ (lines # <<>> => Len(lines') < Len(lines))
  <2>1. CASE lines = <<>>
    BY <2>1 DEF IInv, FileInv, ReadALine
  <2>2. CASE lines # <<>>
    BY <2>2, HeadTailProperties DEF IInv, FileInv, ReadALine
  <2> QED BY <2>1, <2>2
<1>2. sensor' \in Seq(AnyRecord)
  <2>1. CASE lines = <<>> \/ ~Head(lines).newline
    BY <2>1 DEF IInv, FileInv, ReadALine
  <2>2. CASE lines # <<>> /\ Head(lines).newline
    <3>1. Head(lines) \in AnyLine
      BY <2>2, HeadTailProperties DEF IInv, FileInv
    <3>2. (IF Records(Head(lines)) THEN Head(lines).record ELSE g) \in AnyRecord
      BY <3>1 DEF AnyRecord
    <3> QED BY <2>2, <3>2, AppendProperties DEF IInv, FileInv, ReadALine
  <2> QED BY <2>1, <2>2
<1>3. pc = "read" /\ pc' \in {"read", "loop"} /\ (lines = <<>> => pc' = "loop")
      /\ UNCHANGED <<index, n>>
  BY DEF ReadALine, IInv, PcInv, loop
<1>4. LoopInv'
  BY <1>3, LoopAssumption DEF IInv, LoopInv, CountInv
<1>5. PcInv' /\ CountInv' /\ Turns'
  BY <1>3 DEF IInv, PcInv, CountInv, Turns
<1> QED BY <1>1, <1>2, <1>3, <1>4, <1>5 DEF IInv, FileInv

\* A record less, or the end of the loop.
LEMMA TurnStep ==
  ASSUME IInv, Turn
  PROVE  IInv' /\ (pc' = "save" \/ (index < index' /\ index' <= Len(sensor)))
<1>1. /\ pc = "loop" /\ index < Len(sensor)
      /\ n' = n + 1 /\ UNCHANGED <<lines, sensor>>
      /\ IF index > Last THEN pc' = "save" /\ index' = index
         ELSE index' = index + 1 /\ pc' = "loop"
  BY DEF Turn, Step
<1>2. Len(sensor) \in Nat /\ Start \in Nat /\ Last \in Nat /\ Start <= Last
  BY LoopAssumption, LenProperties DEF IInv, FileInv
<1>3. n = index - Start /\ n \in Nat /\ index \in Start..(Last + 1)
  BY <1>1 DEF IInv, LoopInv, CountInv
<1>4. FileInv' /\ PcInv'
  BY <1>1 DEF IInv, FileInv, PcInv
<1>5. CountInv' /\ LoopInv'
  BY <1>1, <1>2, <1>3 DEF CountInv, LoopInv
<1>6. Turns'
  <2>1. CASE index > Last
    <3>1. n' = Last + 2 - Start /\ Len(sensor) >= Last + 2
      BY <1>1, <1>2, <1>3, <2>1
    <3>2. Max({0, Min({Len(sensor), Last + 2}) - Start}) = Last + 2 - Start
      BY <1>2, <3>1, TurnsIs
    <3>3. Len(sensor') = Len(sensor) /\ n' = Max({0, Min({Len(sensor), Last + 2}) - Start})
      BY <1>1, <3>1, <3>2
    <3> QED BY <1>1, <3>3 DEF Turns
  <2>2. CASE ~(index > Last)
    BY <1>1, <2>2 DEF Turns
  <2> QED BY <2>1, <2>2
<1> QED BY <1>1, <1>2, <1>3, <1>4, <1>5, <1>6 DEF IInv

LEMMA LoopEndsStep == ASSUME IInv, LoopEnds PROVE IInv'
<1>1. pc = "loop" /\ index >= Len(sensor) /\ pc' = "save" /\ UNCHANGED <<lines, sensor, index, n>>
  BY DEF LoopEnds, loop
<1>2. Len(sensor) \in Nat /\ Start \in Nat /\ Last \in Nat /\ Start <= Last
  BY LoopAssumption, LenProperties DEF IInv, FileInv
<1>3. n = index - Start /\ index \in Start..(Last + 1) /\ (index = Start \/ index <= Len(sensor))
  BY <1>1 DEF IInv, LoopInv, CountInv
<1>4. Turns'
  BY <1>1, <1>2, <1>3, TurnsIs DEF Turns
<1> QED BY <1>1, <1>4 DEF IInv, FileInv, PcInv, CountInv, LoopInv

LEMMA OtherSteps == ASSUME IInv, Open \/ saveData \/ UNCHANGED vars PROVE IInv'
<1>1. CASE Open
  BY <1>1 DEF Open, IInv, FileInv, PcInv, CountInv, LoopInv, Turns, loop
<1>2. CASE saveData
  BY <1>2 DEF saveData, IInv, FileInv, PcInv, CountInv, LoopInv, Turns, loop
<1>3. CASE UNCHANGED vars
  BY <1>3 DEF vars, IInv, FileInv, PcInv, CountInv, LoopInv, Turns
<1> QED BY <1>1, <1>2, <1>3

LEMMA Inductive == IInv /\ [Next]_vars => IInv'
<1> SUFFICES ASSUME IInv, [Next]_vars PROVE IInv'
  OBVIOUS
<1>1. CASE \E g \in Garbage : ReadALine(g)
  BY <1>1, ReadStep
<1>2. CASE Turn
  BY <1>2, TurnStep
<1>3. CASE LoopEnds
  BY <1>3, LoopEndsStep
<1>4. CASE Open \/ saveData \/ Ended \/ UNCHANGED vars
  BY <1>4, OtherSteps DEF Ended
<1> QED BY <1>1, <1>2, <1>3, <1>4 DEF Next

-----------------------------------------------------------------------------
(* Reading.  As long as main reads, the lines left are those of the file   *)
(* that no record was stored for; each line before them had its newline.   *)

ReadInv ==
  /\ file \in Files /\ Len(sensor) <= Len(file)
  /\ \A i \in 1..Len(sensor) :
       file[i].newline /\ (Records(file[i]) => sensor[i] = file[i].record)
  /\ pc \in {"open", "read"} =>
       /\ Len(file) = Len(sensor) + Len(lines)
       /\ \A i \in 1..Len(lines) : lines[i] = file[Len(sensor) + i]
  /\ pc \in {"loop", "save", "crashed"} =>
       \/ Len(file) = Len(sensor)
       \/ Len(file) = Len(sensor) + 1 /\ ~file[Len(file)].newline

LEMMA ReadInit == Init => ReadInv
<1> SUFFICES ASSUME Init PROVE ReadInv
  OBVIOUS
<1>1. file \in Files /\ lines = file /\ sensor = <<>> /\ pc = "open"
  BY DEF Init
<1>2. Len(file) \in Nat /\ Len(<<>>) = 0
  BY <1>1, FileAssumption, LenProperties
<1> QED BY <1>1, <1>2 DEF ReadInv

LEMMA ReadInvRead ==
  ASSUME IInv, ReadInv, NEW g \in Garbage, ReadALine(g)
  PROVE  ReadInv'
<1>1. /\ pc = "read" /\ file' = file /\ file \in Files
      /\ IF lines = <<>> \/ ~Head(lines).newline
         THEN pc' = "loop" /\ sensor' = sensor
         ELSE /\ sensor' = Append(sensor, IF Records(Head(lines)) THEN Head(lines).record ELSE g)
              /\ pc' = "read"
      /\ lines' = IF lines = <<>> THEN lines ELSE Tail(lines)
  BY DEF ReadALine, ReadInv
<1>2. /\ lines \in Seq(AnyLine) /\ sensor \in Seq(AnyRecord) /\ file \in Seq(AnyLine)
      /\ Len(lines) \in Nat /\ Len(sensor) \in Nat /\ Len(file) \in Nat
      /\ DOMAIN file = 1..Len(file)
  BY <1>1, FileAssumption, LenProperties DEF IInv, FileInv
<1>3. /\ Len(file) = Len(sensor) + Len(lines)
      /\ \A i \in 1..Len(lines) : lines[i] = file[Len(sensor) + i]
      /\ \A i \in 1..Len(sensor) :
           file[i].newline /\ (Records(file[i]) => sensor[i] = file[i].record)
  BY <1>1 DEF ReadInv
<1>4. CASE lines = <<>>
  <2>1. Len(lines) = 0
    BY <1>4
  <2> QED BY <1>1, <1>2, <1>3, <1>4, <2>1 DEF ReadInv
<1>5. CASE lines # <<>>
  <2>1. Len(lines) >= 1 /\ Head(lines) = lines[1]
    BY <1>2, <1>5
  <2>2. Head(lines) = file[Len(sensor) + 1] /\ Len(sensor) + 1 \in DOMAIN file
    BY <1>2, <1>3, <2>1
  <2>3. CASE ~Head(lines).newline
    <3>1. Len(sensor) + 1 = Len(file)
      BY <1>1, <2>2, <2>3, FileAssumption
    <3> QED BY <1>1, <1>2, <1>3, <2>2, <2>3, <3>1 DEF ReadInv
  <2>4. CASE Head(lines).newline
    <3> DEFINE r == IF Records(Head(lines)) THEN Head(lines).record ELSE g
    <3>1. /\ Len(lines') = Len(lines) - 1
          /\ \A i \in 1..(Len(lines) - 1) : lines'[i] = lines[i + 1]
      BY <1>1, <1>2, <1>5, HeadTailProperties
    <3>2. r \in AnyRecord
      BY <1>2, <1>5, HeadTailProperties DEF AnyRecord
    <3>3. sensor' = Append(sensor, r) /\ pc' = "read"
      BY <1>1, <1>5, <2>4
    <3>4. Records(Head(lines)) => r = Head(lines).record
      OBVIOUS
    <3> HIDE DEF r
    <3>5. /\ Len(sensor') = Len(sensor) + 1
          /\ \A i \in 1..Len(sensor) : sensor'[i] = sensor[i]
          /\ sensor'[Len(sensor) + 1] = r
      BY <1>2, <3>2, <3>3, AppendProperties
    <3>6. \A i \in 1..Len(sensor') :
            file[i].newline /\ (Records(file[i]) => sensor'[i] = file[i].record)
      <4> SUFFICES ASSUME NEW i \in 1..Len(sensor')
                   PROVE  file[i].newline /\ (Records(file[i]) => sensor'[i] = file[i].record)
        OBVIOUS
      <4>1. CASE i = Len(sensor) + 1
        BY <2>2, <2>4, <3>4, <3>5, <4>1
      <4>2. CASE i # Len(sensor) + 1
        <5>1. i \in 1..Len(sensor)
          BY <1>2, <3>5, <4>2
        <5> QED BY <1>3, <3>5, <5>1
      <4> QED BY <4>1, <4>2
    <3>7. /\ Len(file) = Len(sensor') + Len(lines')
          /\ \A i \in 1..Len(lines') : lines'[i] = file[Len(sensor') + i]
      <4>1. Len(file) = Len(sensor') + Len(lines')
        BY <1>2, <1>3, <3>1, <3>5
      <4>2. ASSUME NEW i \in 1..Len(lines')
            PROVE  lines'[i] = file[Len(sensor') + i]
        <5>1. i \in 1..(Len(lines) - 1)
          BY <3>1
        <5>2. i \in Int /\ i + 1 \in 1..Len(lines)
          BY <1>2, <5>1
        <5>3. Len(sensor) + (i + 1) = Len(sensor') + i
          BY <1>2, <3>5, <5>2
        <5> QED BY <1>3, <3>1, <5>1, <5>2, <5>3
      <4> QED BY <4>1, <4>2
    <3>8. Len(sensor') <= Len(file')
      BY <1>1, <1>2, <1>3, <2>1, <3>5
    <3>9. file' = file /\ file' \in Files /\ pc' = "read"
      BY <1>1, <3>3
    <3> QED BY <3>6, <3>7, <3>8, <3>9 DEF ReadInv
  <2> QED BY <2>3, <2>4
<1> QED BY <1>4, <1>5

LEMMA ReadInvNext == IInv /\ ReadInv /\ [Next]_vars => ReadInv'
<1> SUFFICES ASSUME IInv, ReadInv, [Next]_vars PROVE ReadInv'
  OBVIOUS
<1>1. CASE \E g \in Garbage : ReadALine(g)
  BY <1>1, ReadInvRead
<1>2. CASE Open
  <2>1. /\ pc = "open" /\ pc' \in {"read", "exited"}
        /\ file' = file /\ lines' = lines /\ sensor' = sensor
    BY <1>2 DEF Open
  <2> QED BY <2>1 DEF ReadInv
<1>3. CASE Turn \/ LoopEnds \/ saveData \/ Ended \/ UNCHANGED vars
  <2>1. /\ file' = file /\ lines' = lines /\ sensor' = sensor
        /\ \/ pc' = pc
           \/ pc \in {"loop", "save"} /\ pc' \in {"loop", "save", "crashed", "exited"}
    <3>1. CASE Turn
      BY <3>1 DEF Turn
    <3>2. CASE LoopEnds
      BY <3>2 DEF LoopEnds
    <3>3. CASE saveData
      BY <3>3 DEF saveData
    <3>4. CASE Ended \/ UNCHANGED vars
      BY <3>4 DEF Ended, vars
    <3> QED BY <1>3, <3>1, <3>2, <3>3, <3>4
  <2>2. pc' \in {"open", "read"} => pc \in {"open", "read"}
    BY <2>1
  <2>3. pc' \in {"loop", "save", "crashed"} => pc \in {"loop", "save", "crashed"}
    BY <2>1
  <2> QED BY <2>1, <2>2, <2>3 DEF ReadInv
<1> QED BY <1>1, <1>2, <1>3 DEF Next

LEMMA LastLine ==
  ASSUME NEW l \in Nat, NEW m \in Nat, l = m \/ l = m + 1
  PROVE  1..m \subseteq 1..l /\ \A i \in 1..l : i \notin 1..m => i = l /\ l # m
OBVIOUS

LEMMA RecordPerLineHolds == IInv /\ ReadInv => RecordPerLine
<1> SUFFICES ASSUME IInv, ReadInv, pc \in {"loop", "save", "crashed"}
             PROVE  /\ Len(sensor) = Cardinality(Complete(file))
                    /\ \A i \in 1..Len(sensor) : Records(file[i]) => sensor[i] = file[i].record
  BY DEF RecordPerLine
<1>1. /\ Len(sensor) \in Nat /\ file \in Files /\ Len(file) \in Nat
      /\ DOMAIN file = 1..Len(file)
  BY FileAssumption, LenProperties DEF IInv, FileInv, ReadInv
<1>2. \A i \in 1..Len(sensor) :
        file[i].newline /\ (Records(file[i]) => sensor[i] = file[i].record)
  BY DEF ReadInv
<1>3. /\ Len(file) = Len(sensor) \/ Len(file) = Len(sensor) + 1
      /\ Len(file) # Len(sensor) => ~file[Len(file)].newline
  BY Zenon DEF ReadInv
<1>4. \A i \in 1..Len(file) : file[i].newline <=> i \in 1..Len(sensor)
  <2> SUFFICES ASSUME NEW i \in 1..Len(file)
               PROVE  file[i].newline <=> i \in 1..Len(sensor)
    OBVIOUS
  <2>1. CASE i \in 1..Len(sensor)
    BY <1>2, <2>1
  <2>2. CASE i \notin 1..Len(sensor)
    <3>1. i = Len(file) /\ Len(file) # Len(sensor)
      BY <1>1, <1>3, <2>2, LastLine
    <3>2. ~file[i].newline
      BY <1>3, <3>1
    <3> QED BY <2>2, <3>2
  <2> QED BY <2>1, <2>2
<1> DEFINE m == Len(sensor)
<1>5. m \in Int /\ m >= 0 /\ 1..m \subseteq 1..Len(file)
  <2>1. m \in Nat /\ 1..m \subseteq 1..Len(file)
    BY <1>1, <1>3, LastLine
  <2> HIDE DEF m
  <2> QED BY <2>1
<1>6. Complete(file) = 1..m
  <2> HIDE DEF m
  <2>1. \A i \in 1..Len(file) : file[i].newline <=> i \in 1..m
    BY <1>4 DEF m
  <2> QED BY <1>1, <1>5, <2>1 DEF Complete
<1>7. Cardinality(1..m) = m
  <2> HIDE DEF m
  <2>1. 1 \in Int
    OBVIOUS
  <2>2. Cardinality(1..m) = IF 1 > m THEN 0 ELSE m - 1 + 1
    BY <1>5, <2>1, FS_Interval
  <2> QED BY <1>5, <2>2
<1> QED BY <1>2, <1>6, <1>7

-----------------------------------------------------------------------------
(* Sums and rings.                                                         *)

LEMMA Sizes == /\ SUM_LEN \in Nat /\ SUM_LEN > 0 /\ SUM_LEN < Prime
               /\ Start \in Nat /\ Start > 0 /\ Last \in Nat /\ Start <= Last
BY LoopAssumption

IsSum(a, m, s) == s = [j \in 0..m |-> IF j = 0 THEN 0 ELSE s[j - 1] + a[j - 1]]

LEMMA SumExists ==
  ASSUME NEW a
  PROVE  \A m \in Nat : \E s : IsSum(a, m, s)
<1> DEFINE Has(m) == \E s : IsSum(a, m, s)
           S == {m \in Nat : ~ Has(m)}
<1> SUFFICES ASSUME S # {} PROVE FALSE
  OBVIOUS
<1>1. PICK m \in S : \A j \in S : m <= j
  BY LeastNumber
<1>2. m \in Nat /\ ~ Has(m)
  BY <1>1
<1>3. IsSum(a, 0, [i \in 0..0 |-> 0])
  BY DEF IsSum
<1>4. m # 0
  BY <1>2, <1>3
<1>5. m - 1 \in Nat /\ ~ (m - 1 \in S)
  BY <1>1, <1>2, <1>4
<1>6. PICK s : IsSum(a, m - 1, s)
  BY <1>5
<1> DEFINE h == [i \in 0..m |-> IF i = m THEN s[m - 1] + a[m - 1] ELSE s[i]]
<1>7. \A i \in 0..m : h[i] = IF i = 0 THEN 0 ELSE h[i - 1] + a[i - 1]
  <2> TAKE i \in 0..m
  <2>1. CASE i = m
    <3>1. h[m] = s[m - 1] + a[m - 1] /\ h[m - 1] = s[m - 1]
      BY <1>2, <1>4
    <3> QED BY <1>4, <2>1, <3>1
  <2>2. CASE i # m
    <3>1. i \in 0..(m - 1)
      BY <1>2, <2>2
    <3>2. s[i] = IF i = 0 THEN 0 ELSE s[i - 1] + a[i - 1]
      BY <1>6, <3>1 DEF IsSum
    <3>3. h[i] = s[i] /\ (i # 0 => h[i - 1] = s[i - 1])
      BY <1>2, <2>2, <3>1
    <3> QED BY <3>2, <3>3
  <2> QED BY <2>1, <2>2
<1>8. IsSum(a, m, h)
  <2>1. h = [i \in 0..m |-> h[i]]
    OBVIOUS
  <2> HIDE DEF h
  <2> QED BY <1>7, <2>1 DEF IsSum
<1> QED BY <1>2, <1>8

\* The partial sums of an array.
Sums(a) == CHOOSE s : IsSum(a, SUM_LEN, s)

LEMMA SumsAre ==
  ASSUME NEW a, \A j \in Ring : a[j] \in Int
  PROVE  /\ Total(a) = Sums(a)[SUM_LEN]
         /\ Sums(a)[0] = 0
         /\ \A j \in Ring : Sums(a)[j + 1] = Sums(a)[j] + a[j]
         /\ \A j \in 0..SUM_LEN : Sums(a)[j] \in Int
<1> DEFINE s == Sums(a)
<1>1. Total(a) = s[SUM_LEN]
  BY DEF Total, Sums, IsSum
<1>2. IsSum(a, SUM_LEN, s)
  BY SumExists, Sizes DEF Sums
<1> HIDE DEF s
<1>3. \A j \in 0..SUM_LEN : s[j] = IF j = 0 THEN 0 ELSE s[j - 1] + a[j - 1]
  BY <1>2 DEF IsSum
<1>4. s[0] = 0
  BY <1>3, Sizes
<1>5. ASSUME NEW j \in Ring PROVE s[j + 1] = s[j] + a[j]
  <2>1. j + 1 \in 0..SUM_LEN /\ j + 1 # 0 /\ (j + 1) - 1 = j
    BY Sizes DEF Ring
  <2> QED BY <1>3, <2>1
<1>6. \A j \in 0..SUM_LEN : s[j] \in Int
  <2> DEFINE S == {j \in Nat : j <= SUM_LEN /\ s[j] \notin Int}
  <2> SUFFICES ASSUME S # {} PROVE FALSE
    BY Sizes
  <2>1. PICK j \in S : \A i \in S : j <= i
    BY LeastNumber
  <2>2. j # 0
    BY <1>4, <2>1
  <2> DEFINE i == j - 1
  <2>3. i \in Nat /\ i \in Ring /\ i + 1 = j /\ i <= SUM_LEN /\ ~ (i \in S)
    BY <2>1, <2>2, Sizes DEF Ring
  <2> HIDE DEF i
  <2>4. s[i] \in Int /\ a[i] \in Int
    BY <2>3
  <2>5. s[j] = s[i] + a[i]
    BY <1>5, <2>3
  <2> QED BY <2>1, <2>4, <2>5
<1> QED BY <1>1, <1>4, <1>5, <1>6 DEF s

LEMMA TotalConstant ==
  ASSUME NEW a, NEW c \in Int, \A j \in Ring : a[j] = c
  PROVE  Total(a) = SUM_LEN * c
<1> DEFINE s == Sums(a)
           S == {j \in Nat : j <= SUM_LEN /\ s[j] # j * c}
<1>1. /\ Total(a) = s[SUM_LEN] /\ s[0] = 0
      /\ \A j \in Ring : s[j + 1] = s[j] + a[j]
  BY SumsAre
<1> HIDE DEF s
<1>2. ASSUME S # {} PROVE FALSE
  <2>1. PICK j \in S : \A i \in S : j <= i
    BY <1>2, LeastNumber
  <2>2. j # 0
    <3>1. 0 * c = 0
      OBVIOUS
    <3> QED BY <1>1, <2>1, <3>1
  <2> DEFINE i == j - 1
  <2>3. i \in Nat /\ i \in Ring /\ i + 1 = j /\ i <= SUM_LEN /\ ~ (i \in S)
    BY <2>1, <2>2, Sizes DEF Ring
  <2> HIDE DEF i
  <2>4. s[i] = i * c
    BY <2>3
  <2>5. s[j] = s[i] + c
    BY <1>1, <2>3
  <2>6. i * c + c = j * c
    BY <2>3
  <2> QED BY <2>1, <2>4, <2>5, <2>6
<1>3. SUM_LEN \in Nat /\ SUM_LEN <= SUM_LEN
  BY Sizes
<1> QED BY <1>1, <1>2, <1>3

\* The first one moved to the end.
LEMMA TotalShift ==
  ASSUME NEW a, \A j \in Ring : a[j] \in Int,
         NEW b, \A j \in Ring : b[j] = IF j = SUM_LEN - 1 THEN a[0] ELSE a[j + 1]
  PROVE  Total(a) = Total(b)
<1> DEFINE s == Sums(a)  r == Sums(b)
           S == {j \in Nat : j <= SUM_LEN - 1 /\ r[j] # s[j + 1] - a[0]}
<1>1. /\ Total(a) = s[SUM_LEN] /\ s[0] = 0
      /\ \A j \in Ring : s[j + 1] = s[j] + a[j]
      /\ \A j \in 0..SUM_LEN : s[j] \in Int
  BY SumsAre
<1>2. 0 \in Ring /\ SUM_LEN - 1 \in Ring /\ \A j \in Ring : j # SUM_LEN - 1 => j + 1 \in Ring
  BY Sizes DEF Ring
<1>3. \A j \in Ring : b[j] \in Int
  BY <1>2
<1>4. /\ Total(b) = r[SUM_LEN] /\ r[0] = 0
      /\ \A j \in Ring : r[j + 1] = r[j] + b[j]
      /\ \A j \in 0..SUM_LEN : r[j] \in Int
  BY <1>3, SumsAre
<1> HIDE DEF s, r
<1>5. s[1] = a[0] /\ a[0] \in Int
  <2>1. s[0 + 1] = s[0] + a[0]
    BY <1>1, <1>2
  <2> QED BY <1>1, <1>2, <2>1
<1>6. ASSUME S # {} PROVE FALSE
  <2>1. PICK j \in S : \A i \in S : j <= i
    BY <1>6, LeastNumber
  <2>2. j # 0
    <3>1. r[0] = s[0 + 1] - a[0]
      BY <1>4, <1>5
    <3> QED BY <2>1, <3>1
  <2> DEFINE i == j - 1
  <2>3. j \in Nat /\ i \in Nat /\ i \in Ring /\ i # SUM_LEN - 1 /\ i + 1 = j /\ j \in Ring /\ ~ (i \in S)
    BY <2>1, <2>2, Sizes DEF Ring
  <2> HIDE DEF i
  <2>4. r[i] = s[j] - a[0]
    BY <2>1, <2>3, Sizes DEF Ring
  <2>5. r[j] = r[i] + a[j]
    BY <1>4, <2>3
  <2>6. s[j + 1] = s[j] + a[j] /\ a[j] \in Int /\ s[j] \in Int
    BY <1>1, <2>3, Sizes DEF Ring
  <2>7. r[j] = s[j + 1] - a[0]
    BY <1>5, <2>4, <2>5, <2>6
  <2> QED BY <2>1, <2>7
<1>7. r[SUM_LEN - 1] = s[SUM_LEN] - a[0]
  <2>1. SUM_LEN - 1 \in Nat /\ (SUM_LEN - 1) + 1 = SUM_LEN /\ ~ (SUM_LEN - 1 \in S)
    BY <1>6, Sizes
  <2> QED BY <2>1, Sizes
<1>8. r[SUM_LEN] = r[SUM_LEN - 1] + a[0]
  <2>1. (SUM_LEN - 1) + 1 = SUM_LEN
    BY Sizes
  <2> QED BY <1>2, <1>4, <2>1
<1>9. s[SUM_LEN] \in Int
  BY <1>1, Sizes
<1> QED BY <1>1, <1>4, <1>5, <1>7, <1>8, <1>9

\* Where an index of updateKF is in its rings.
LEMMA RingIndex ==
  /\ \A m \in Nat : m % SUM_LEN \in Ring /\ (m + SUM_LEN) % SUM_LEN = m % SUM_LEN
  /\ \A t \in Ring : t % SUM_LEN = t
  /\ \A m \in Nat, t \in Ring : t # 0 => (m + t) % SUM_LEN # m % SUM_LEN
<1>1. SUM_LEN \in Int /\ SUM_LEN > 0
  BY Sizes
<1>2. ASSUME NEW m \in Nat
      PROVE  /\ m % SUM_LEN \in Ring
             /\ (m + SUM_LEN) % SUM_LEN = m % SUM_LEN
  <2> DEFINE q == m \div SUM_LEN  r == m % SUM_LEN
  <2>1. r = m - SUM_LEN * q /\ q \in Int /\ r \in 0..(SUM_LEN - 1)
    BY <1>1, DivMod
  <2> HIDE DEF q, r
  <2>2. m + SUM_LEN = SUM_LEN * (q + 1) + r
    BY <1>1, <2>1
  <2>3. q + 1 \in Int /\ r \in Int /\ 0 <= r /\ r < SUM_LEN /\ m + SUM_LEN \in Int
    BY <1>1, <2>1
  <2>4. (m + SUM_LEN) % SUM_LEN = r
    BY <1>1, <2>2, <2>3, Remainder
  <2> QED BY <2>1, <2>4 DEF r, Ring
<1>3. ASSUME NEW t \in Ring PROVE t % SUM_LEN = t
  <2>1. t \in Int /\ 0 <= t /\ t < SUM_LEN /\ t = SUM_LEN * 0 + t
    BY <1>1 DEF Ring
  <2> QED BY <1>1, <2>1, Remainder
<1>4. ASSUME NEW m \in Nat, NEW t \in Ring, t # 0, (m + t) % SUM_LEN = m % SUM_LEN
      PROVE  FALSE
  <2> DEFINE q == m \div SUM_LEN  r == m % SUM_LEN
             p == (m + t) \div SUM_LEN
  <2>1. r = m - SUM_LEN * q /\ q \in Int /\ r \in 0..(SUM_LEN - 1)
    BY <1>1, DivMod
  <2>2. (m + t) % SUM_LEN = (m + t) - SUM_LEN * p /\ p \in Int
    <3>1. m + t \in Int
      BY <1>1 DEF Ring
    <3> QED BY <1>1, <3>1, DivMod
  <2>3. r = (m + t) - SUM_LEN * p
    BY <1>4, <2>2
  <2> HIDE DEF q, r, p
  <2>4. t = SUM_LEN * (p - q) /\ 0 < t /\ t < SUM_LEN /\ t \in Int /\ p - q \in Int
    BY <1>1, <1>4, <2>1, <2>2, <2>3 DEF Ring
  <2> DEFINE d == p - q
  <2>5. d \in Int /\ t = SUM_LEN * d
    BY <2>4
  <2> HIDE DEF d
  <2>6. d <= 0 \/ d >= 1
    BY <2>5
  <2>7. CASE d <= 0
    <3>1. SUM_LEN * d <= 0
      BY <1>1, <2>5, <2>7
    <3> QED BY <2>4, <2>5, <3>1
  <2>8. CASE d >= 1
    <3>1. SUM_LEN * d >= SUM_LEN
      BY <1>1, <2>5, <2>8
    <3> QED BY <1>1, <2>4, <2>5, <3>1
  <2> QED BY <2>6, <2>7, <2>8
<1> QED BY <1>2, <1>3, <1>4

LEMMA TotalSame ==
  ASSUME NEW c, NEW d, \A t \in Ring : c[t] = d[t], \A t \in Ring : c[t] \in Int
  PROVE  Total(c) = Total(d)
<1> DEFINE s == Sums(c)  r == Sums(d)
           Q == {j \in Nat : j <= SUM_LEN /\ s[j] # r[j]}
<1>1. /\ Total(c) = s[SUM_LEN] /\ s[0] = 0
      /\ \A j \in Ring : s[j + 1] = s[j] + c[j]
  BY SumsAre
<1>2. /\ Total(d) = r[SUM_LEN] /\ r[0] = 0
      /\ \A j \in Ring : r[j + 1] = r[j] + d[j]
  BY SumsAre
<1> HIDE DEF s, r
<1>3. ASSUME Q # {} PROVE FALSE
  <2>1. PICK j \in Q : \A i \in Q : j <= i
    BY <1>3, LeastNumber
  <2>2. j # 0
    BY <1>1, <1>2, <2>1
  <2> DEFINE i == j - 1
  <2>3. i \in Nat /\ i \in Ring /\ i + 1 = j /\ ~ (i \in Q)
    BY <2>1, <2>2, Sizes DEF Ring
  <2> HIDE DEF i
  <2>4. s[i] = r[i]
    BY <2>1, <2>3, Sizes DEF Ring
  <2>5. s[i + 1] = r[i + 1]
    BY <1>1, <1>2, <2>3, <2>4
  <2> QED BY <2>1, <2>3, <2>5
<1>4. SUM_LEN \in Nat /\ SUM_LEN <= SUM_LEN
  BY Sizes
<1> QED BY <1>1, <1>2, <1>3, <1>4

\* However far a ring is turned, its elements have the same sum.
LEMMA TotalTurned ==
  ASSUME NEW a, \A j \in Ring : a[j] \in Int, NEW m \in Nat,
         NEW b, \A t \in Ring : b[t] = a[(m + t) % SUM_LEN]
  PROVE  Total(a) = Total(b)
<1> DEFINE T(k) == [t \in Ring |-> a[(k + t) % SUM_LEN]]
           S == {k \in Nat : Total(T(k)) # Total(a)}
<1>1. \A k \in Nat, t \in Ring : T(k)[t] = a[(k + t) % SUM_LEN] /\ T(k)[t] \in Int
  <2> SUFFICES ASSUME NEW k \in Nat, NEW t \in Ring
               PROVE  (k + t) % SUM_LEN \in Ring
    OBVIOUS
  <2>1. k + t \in Nat
    BY Sizes DEF Ring
  <2> QED BY <2>1, RingIndex
<1> HIDE DEF T
<1>3. Total(T(0)) = Total(a)
  <2>1. \A t \in Ring : (0 + t) % SUM_LEN = t
    BY RingIndex, Sizes DEF Ring
  <2>2. \A t \in Ring : T(0)[t] = a[t]
    BY <1>1, <2>1
  <2> QED BY <1>1, TotalSame, <2>2
<1>4. ASSUME NEW k \in Nat PROVE Total(T(k)) = Total(T(k + 1))
  <2>1. ASSUME NEW j \in Ring
        PROVE  T(k + 1)[j] = IF j = SUM_LEN - 1 THEN T(k)[0] ELSE T(k)[j + 1]
    <3>1. T(k + 1)[j] = a[((k + 1) + j) % SUM_LEN]
      BY <1>1
    <3>2. CASE j = SUM_LEN - 1
      <4>1. (k + 1) + j = k + SUM_LEN /\ k + 0 = k /\ 0 \in Ring
        BY <3>2, Sizes DEF Ring
      <4>2. T(k)[0] = a[(k + 0) % SUM_LEN]
        BY <1>1, <4>1
      <4> QED BY <3>1, <3>2, <4>1, <4>2, RingIndex
    <3>3. CASE j # SUM_LEN - 1
      <4>1. (k + 1) + j = k + (j + 1) /\ j + 1 \in Ring
        BY <3>3, Sizes DEF Ring
      <4>2. T(k)[j + 1] = a[(k + (j + 1)) % SUM_LEN]
        BY <1>1, <4>1
      <4> QED BY <3>1, <3>3, <4>1, <4>2
    <3> QED BY <3>2, <3>3
  <2> QED BY <1>1, <2>1, TotalShift
<1>5. ASSUME S # {} PROVE FALSE
  <2>1. PICK k \in S : \A i \in S : k <= i
    BY <1>5, LeastNumber
  <2>2. k # 0
    BY <1>3, <2>1
  <2> DEFINE i == k - 1
  <2>3. i \in Nat /\ i + 1 = k /\ ~ (i \in S)
    BY <2>1, <2>2
  <2> HIDE DEF i
  <2> QED BY <1>4, <2>1, <2>3
<1>6. Total(T(m)) = Total(a)
  BY <1>5
<1>7. Total(T(m)) = Total(b)
  BY <1>1, TotalSame
<1> QED BY <1>6, <1>7

\* A ring in which the element at m mod SUM_LEN, the oldest one, is replaced.
LEMMA RingReplaced ==
  ASSUME NEW a \in [Ring -> F], NEW m \in Nat, NEW v \in F,
         NEW w, \A t \in Ring : a[(m + t) % SUM_LEN] = w[t],
         NEW z, \A t \in Ring : z[t] = IF t = SUM_LEN - 1 THEN v ELSE w[t + 1]
  PROVE  LET b == [a EXCEPT ![m % SUM_LEN] = v]
         IN  b \in [Ring -> F] /\ \A t \in Ring : b[((m + 1) + t) % SUM_LEN] = z[t]
<1> DEFINE b == [a EXCEPT ![m % SUM_LEN] = v]
<1>1. m % SUM_LEN \in Ring
  BY RingIndex
<1>2. b \in [Ring -> F] /\ b[m % SUM_LEN] = v /\ \A i \in Ring : i # m % SUM_LEN => b[i] = a[i]
  BY <1>1
<1> HIDE DEF b
<1>3. ASSUME NEW t \in Ring PROVE b[((m + 1) + t) % SUM_LEN] = z[t]
  <2>1. CASE t = SUM_LEN - 1
    <3>1. (m + 1) + t = m + SUM_LEN
      BY <2>1, Sizes
    <3> QED BY <1>2, <2>1, <3>1, RingIndex
  <2>2. CASE t # SUM_LEN - 1
    <3>1. (m + 1) + t = m + (t + 1) /\ t + 1 \in Ring /\ t + 1 # 0 /\ m + (t + 1) \in Nat
      BY <2>2, Sizes DEF Ring
    <3>2. (m + (t + 1)) % SUM_LEN \in Ring /\ (m + (t + 1)) % SUM_LEN # m % SUM_LEN
      BY <3>1, RingIndex
    <3> QED BY <1>2, <2>2, <3>1, <3>2
  <2> QED BY <2>1, <2>2
<1> QED BY <1>2, <1>3 DEF b

-----------------------------------------------------------------------------
(* The rings of updateKF.  Element (n + t) mod SUM_LEN is the one of the   *)
(* t-th of the last SUM_LEN records, the oldest first.                     *)

Speed(i) == IF i > Start THEN Velocity(i) ELSE 0

RingInv ==
  n > 0 => /\ Start + n <= Len(sensor)
           /\ Pold \in [Ring -> F] /\ Vold \in [Ring -> F]
           /\ gps_old = Position(Start + n - 1)
           /\ \A t \in Ring : /\ Pold[(n + t) % SUM_LEN] = Position(Recent(t))
                              /\ Vold[(n + t) % SUM_LEN] = Speed(Recent(t))

LEMMA RecordIs ==
  ASSUME IInv, NEW i \in 1..Len(sensor)
  PROVE  /\ sensor[i].a \in Int /\ sensor[i].turn \in Int /\ sensor[i].w \in Int
         /\ sensor[i].tilt \in F /\ sensor[i].yaw \in F
         /\ gps2ecef(sensor[i]) \in F
<1>1. sensor \in Seq(AnyRecord) /\ sensor \in [1..Len(sensor) -> AnyRecord]
  BY LenProperties DEF IInv, FileInv
<1>2. sensor[i] \in AnyRecord
  BY <1>1
<1> QED BY <1>2, NumberAssumption DEF gps2ecef

LEMMA PositionIs ==
  ASSUME IInv, Start < Len(sensor), NEW i \in Int, i < Len(sensor)
  PROVE  Position(i) \in F /\ Speed(i) \in F
<1>1. Len(sensor) \in Nat
  BY LenProperties DEF IInv, FileInv
<1>2. ASSUME NEW j \in Int, j < Len(sensor) PROVE Position(j) \in F
  <2>1. (IF j < Start THEN Start ELSE j) + 1 \in 1..Len(sensor)
    BY <1>1, <1>2, Sizes
  <2> QED BY <2>1, RecordIs DEF Position
<1>3. Position(i) \in Int /\ Position(i - 1) \in Int
  <2>1. i - 1 \in Int /\ i - 1 < Len(sensor)
    BY <1>1
  <2> QED BY <1>2, <2>1, FieldInt
<1>4. Recip(dt) \in Int
  <2>1. dt \in Int /\ N(dt) # 0
    BY StepAssumption, NormF, FieldInt
  <2> QED BY <2>1, Reciprocal, FieldInt
<1>5. (Position(i) - Position(i - 1)) * Recip(dt) \in Int
  BY <1>3, <1>4
<1>6. Velocity(i) \in F
  BY <1>5, NormType DEF Velocity, N
<1> QED BY <1>2, <1>6, FieldInt DEF Speed

\* One turn, with its choices resolved.
LEMMA TurnIs ==
  ASSUME Turn
  PROVE  LET s == sensor[index + 1]
             y == IF index = Start THEN reset(s) ELSE x
             k == UpdateKF(kf, s, Measured(s, y, Averages(s)))
         IN  /\ pc = "loop" /\ index < Len(sensor) /\ sensor' = sensor
             /\ kf' = k /\ x' = Navigated(s, y, k.x)
             /\ Pold' = Averages(s).P /\ Vold' = Averages(s).V
             /\ gps_old' = gps2ecef(s) /\ n' = n + 1
<1>1. Step(sensor[index + 1]) /\ pc = "loop" /\ index < Len(sensor) /\ sensor' = sensor
  BY DEF Turn
<1> DEFINE s == sensor[index + 1]
           y == IF index = Start THEN reset(s) ELSE x
           m == Averages(s)
           k == UpdateKF(kf, s, Measured(s, y, m))
<1>2. \E v \in {y}, w \in {m} : \E u \in {UpdateKF(kf, s, Measured(s, v, w))} :
        /\ kf' = u /\ x' = Navigated(s, v, u.x)
        /\ Pold' = w.P /\ Vold' = w.V /\ gps_old' = gps2ecef(s) /\ n' = n + 1
  BY <1>1 DEF Step
<1>3. /\ kf' = k /\ x' = Navigated(s, y, k.x)
      /\ Pold' = m.P /\ Vold' = m.V /\ gps_old' = gps2ecef(s) /\ n' = n + 1
  <2> HIDE DEF s, y, m
  <2> QED BY <1>2
<1> QED BY <1>1, <1>3

\* What the averages are taken of, once the record of this turn is in.
LEMMA AveragesAre ==
  ASSUME IInv, RingInv, pc = "loop", index < Len(sensor)
  PROVE  LET s == sensor[index + 1]
         IN  /\ index = Start + n /\ n \in Nat /\ Start < Len(sensor)
             /\ gps2ecef(s) = Position(Start + n)
             /\ Averages(s).P \in [Ring -> F] /\ Averages(s).V \in [Ring -> F]
             /\ \A t \in Ring :
                  /\ Averages(s).P[((n + 1) + t) % SUM_LEN] = Position(Start + (n + 1) - SUM_LEN + t)
                  /\ Averages(s).V[((n + 1) + t) % SUM_LEN] = Speed(Start + (n + 1) - SUM_LEN + t)
<1> DEFINE s == sensor[index + 1]  p == gps2ecef(s)
           P == IF n = 0 THEN [j \in Ring |-> p] ELSE Pold
           V == IF n = 0 THEN [j \in Ring |-> 0] ELSE Vold
           old == IF n = 0 THEN p ELSE gps_old
           v == ((p - old) * Recip(dt)) % Prime
<1>1. n \in Nat /\ index = Start + n /\ Start < Len(sensor) /\ Len(sensor) \in Nat
      /\ Start + n < Len(sensor)
  <2>1. n \in Nat /\ n = index - Start /\ index \in Start..(Last + 1) /\ Len(sensor) \in Nat
    BY LenProperties DEF IInv, CountInv, LoopInv, FileInv
  <2> QED BY <2>1, Sizes
<1>2. p = Position(Start + n) /\ p \in F /\ p \in Int
  <2>1. ~(Start + n < Start)
    BY <1>1, Sizes
  <2>2. p = Position(Start + n)
    BY <1>1, <2>1 DEF Position
  <2>3. Start + n \in Int
    BY <1>1, Sizes
  <2> QED BY <1>1, <2>2, <2>3, PositionIs, FieldInt
<1>3. Averages(s) = [P |-> [P EXCEPT ![n % SUM_LEN] = p], V |-> [V EXCEPT ![n % SUM_LEN] = v]]
  BY DEF Averages
<1> HIDE DEF p
<1>4. v = Speed(Start + n) /\ v \in F
  <2>1. CASE n = 0
    <3>1. p - old = 0 /\ Recip(dt) \in Int
      <4>1. dt \in Int /\ N(dt) # 0
        BY StepAssumption, NormF, FieldInt
      <4>2. old = p
        BY <2>1
      <4>3. p - old = 0
        BY <1>2, <4>2
      <4> QED BY <4>1, <4>3, Reciprocal, FieldInt
    <3>2. (p - old) * Recip(dt) = 0
      BY <3>1
    <3>3. N(0) = 0 /\ 0 \in F
      BY NormF, FieldInt
    <3>4. v = 0
      BY <3>2, <3>3 DEF N
    <3> QED BY <1>1, <2>1, <3>3, <3>4, Sizes DEF Speed
  <2>2. CASE n # 0
    <3>1. old = Position(Start + n - 1) /\ Start + n > Start /\ Start + n \in Int
      BY <1>1, <2>2, Sizes DEF RingInv
    <3>2. v = Velocity(Start + n)
      <4>1. Velocity(Start + n)
              = ((Position(Start + n) - Position((Start + n) - 1)) * Recip(dt)) % Prime
        BY Zenon DEF Velocity
      <4>3. (Start + n) - 1 = Start + n - 1
        BY <1>1, Sizes
      <4>2. v = ((Position(Start + n) - Position(Start + n - 1)) * Recip(dt)) % Prime
        BY <1>2, <3>1, Zenon
      <4> QED BY <4>1, <4>2, <4>3, Zenon
    <3>3. v = Speed(Start + n)
      BY <3>1, <3>2 DEF Speed
    <3> QED BY <1>1, <3>1, <3>3, PositionIs
  <2> QED BY <2>1, <2>2
<1>5. P \in [Ring -> F] /\ V \in [Ring -> F]
  BY <1>1, <1>2, FieldInt DEF RingInv
<1> DEFINE w == [t \in Ring |-> Position(Start + n - SUM_LEN + t)]
           z == [t \in Ring |-> Position(Start + (n + 1) - SUM_LEN + t)]
           ww == [t \in Ring |-> Speed(Start + n - SUM_LEN + t)]
           zz == [t \in Ring |-> Speed(Start + (n + 1) - SUM_LEN + t)]
<1>6. ASSUME NEW t \in Ring PROVE P[(n + t) % SUM_LEN] = w[t] /\ V[(n + t) % SUM_LEN] = ww[t]
  <2>1. CASE n = 0
    <3>1. t \in Nat /\ t < SUM_LEN /\ (n + t) % SUM_LEN = t
      BY <2>1, RingIndex, Sizes DEF Ring
    <3>2. Start + n - SUM_LEN + t < Start /\ Start + n - SUM_LEN + t \in Int
      BY <2>1, <3>1, Sizes
    <3>3. Position(Start + n - SUM_LEN + t) = Position(Start + n)
      BY <2>1, <3>2, Sizes DEF Position
    <3>4. Speed(Start + n - SUM_LEN + t) = 0
      BY <3>2, Sizes DEF Speed
    <3> QED BY <1>2, <2>1, <3>1, <3>3, <3>4
  <2>2. CASE n # 0
    <3>1. n > 0
      BY <1>1, <2>2
    <3> QED BY <2>2, <3>1 DEF RingInv, Recent
  <2> QED BY <2>1, <2>2
<1>7. ASSUME NEW t \in Ring
      PROVE  /\ z[t] = IF t = SUM_LEN - 1 THEN p ELSE w[t + 1]
             /\ zz[t] = IF t = SUM_LEN - 1 THEN v ELSE ww[t + 1]
  <2>1. CASE t = SUM_LEN - 1
    <3>1. Start + (n + 1) - SUM_LEN + t = Start + n
      BY <1>1, <2>1, Sizes
    <3> QED BY <1>2, <1>4, <2>1, <3>1
  <2>2. CASE t # SUM_LEN - 1
    <3>1. t + 1 \in Ring /\ Start + (n + 1) - SUM_LEN + t = Start + n - SUM_LEN + (t + 1)
      BY <1>1, <2>2, Sizes DEF Ring
    <3> QED BY <2>2, <3>1
  <2> QED BY <2>1, <2>2
<1>8. \A t \in Ring : /\ z[t] = Position(Start + (n + 1) - SUM_LEN + t)
                      /\ zz[t] = Speed(Start + (n + 1) - SUM_LEN + t)
  OBVIOUS
<1> HIDE DEF P, V, v, w, z, ww, zz
<1>9. LET b == [P EXCEPT ![n % SUM_LEN] = p]
      IN  b \in [Ring -> F] /\ \A t \in Ring : b[((n + 1) + t) % SUM_LEN] = z[t]
  BY <1>1, <1>2, <1>5, <1>6, <1>7, RingReplaced
<1>10. LET b == [V EXCEPT ![n % SUM_LEN] = v]
       IN  b \in [Ring -> F] /\ \A t \in Ring : b[((n + 1) + t) % SUM_LEN] = zz[t]
  <2>1. /\ \A t \in Ring : V[(n + t) % SUM_LEN] = ww[t]
        /\ \A t \in Ring : zz[t] = IF t = SUM_LEN - 1 THEN v ELSE ww[t + 1]
    BY <1>6, <1>7
  <2>2. n \in Nat /\ V \in [Ring -> F] /\ v \in F
    BY <1>1, <1>4, <1>5
  <2> QED BY <2>1, <2>2, RingReplaced
<1>11. /\ Averages(s).P = [P EXCEPT ![n % SUM_LEN] = p]
       /\ Averages(s).V = [V EXCEPT ![n % SUM_LEN] = v]
  BY <1>3
<1>12. p = gps2ecef(s)
  BY DEF p
<1> QED BY <1>1, <1>2, <1>8, <1>9, <1>10, <1>11, <1>12

LEMMA RingInvNext == IInv /\ RingInv /\ [Next]_vars => RingInv'
<1> SUFFICES ASSUME IInv, RingInv, [Next]_vars PROVE RingInv'
  OBVIOUS
<1>1. CASE Turn
  <2> DEFINE s == sensor[index + 1]
  <2>1. /\ pc = "loop" /\ index < Len(sensor) /\ sensor' = sensor
        /\ Pold' = Averages(s).P /\ Vold' = Averages(s).V
        /\ gps_old' = gps2ecef(s) /\ n' = n + 1
    BY <1>1, TurnIs
  <2>2. /\ index = Start + n /\ n \in Nat /\ Start < Len(sensor)
        /\ gps2ecef(s) = Position(Start + n)
        /\ Averages(s).P \in [Ring -> F] /\ Averages(s).V \in [Ring -> F]
        /\ \A t \in Ring :
             /\ Averages(s).P[((n + 1) + t) % SUM_LEN] = Position(Start + (n + 1) - SUM_LEN + t)
             /\ Averages(s).V[((n + 1) + t) % SUM_LEN] = Speed(Start + (n + 1) - SUM_LEN + t)
    BY <2>1, AveragesAre
  <2>3. \A i : Position(i)' = Position(i) /\ Speed(i)' = Speed(i)
    BY <2>1 DEF Position, Speed, Velocity
  <2>4. \A t : Recent(t)' = Start + (n + 1) - SUM_LEN + t
    BY <2>1 DEF Recent
  <2> HIDE DEF s
  <2>5. (Start + n <= Len(sensor))' /\ (Start + n - 1)' = Start + n
    <3>1. Len(sensor) \in Nat
      BY LenProperties DEF IInv, FileInv
    <3> QED BY <2>1, <2>2, <3>1, Sizes
  <2>6. (gps_old = Position(Start + n - 1))'
    <3>1. gps_old' = Position(Start + n)
      BY <2>1, <2>2
    <3>2. Position(Start + n - 1)' = Position((Start + n - 1)')
      BY <2>1 DEF Position
    <3> QED BY <2>5, <3>1, <3>2
  <2>7. ASSUME NEW t \in Ring
        PROVE  /\ Pold'[(n' + t) % SUM_LEN] = Position(Recent(t))'
               /\ Vold'[(n' + t) % SUM_LEN] = Speed(Recent(t))'
    <3> DEFINE i == Start + (n + 1) - SUM_LEN + t
    <3>1. Pold'[(n' + t) % SUM_LEN] = Position(i) /\ Vold'[(n' + t) % SUM_LEN] = Speed(i)
      BY <2>1, <2>2
    <3>2. Position(Recent(t))' = Position(i) /\ Speed(Recent(t))' = Speed(i)
      BY <2>1 DEF Position, Speed, Velocity, Recent
    <3> QED BY <3>1, <3>2
  <2> QED BY <2>1, <2>2, <2>5, <2>6, <2>7 DEF RingInv
<1>2. CASE \E g \in Garbage : ReadALine(g)
  <2>1. n' = n /\ n = 0
    BY <1>2 DEF ReadALine, loop, IInv, LoopInv
  <2> QED BY <2>1 DEF RingInv
<1>3. CASE Open \/ LoopEnds \/ saveData \/ Ended \/ UNCHANGED vars
  <2>1. UNCHANGED <<sensor, Pold, Vold, gps_old, n>>
    BY <1>3 DEF Open, LoopEnds, saveData, Ended, vars, loop
  <2> QED BY <2>1 DEF RingInv, Position, Speed, Velocity, Recent
<1> QED BY <1>1, <1>2, <1>3 DEF Next

LEMMA MeansHold == IInv /\ RingInv => MeansOfLast
<1> SUFFICES ASSUME IInv, RingInv, n > 0
             PROVE  /\ Total(Pold) = Total([j \in Ring |-> Position(Recent(j))])
                    /\ Total(Vold) = Total([j \in Ring |-> Speed(Recent(j))])
  BY DEF MeansOfLast, Speed
<1>1. /\ Pold \in [Ring -> F] /\ Vold \in [Ring -> F] /\ n \in Nat
      /\ \A t \in Ring : /\ Pold[(n + t) % SUM_LEN] = Position(Recent(t))
                         /\ Vold[(n + t) % SUM_LEN] = Speed(Recent(t))
  BY DEF RingInv, IInv, CountInv
<1>2. \A j \in Ring : Pold[j] \in Int /\ Vold[j] \in Int
  BY <1>1, FieldInt
<1> DEFINE b == [j \in Ring |-> Position(Recent(j))]
           c == [j \in Ring |-> Speed(Recent(j))]
<1>3. \A t \in Ring : b[t] = Pold[(n + t) % SUM_LEN] /\ c[t] = Vold[(n + t) % SUM_LEN]
  BY <1>1
<1> HIDE DEF b, c
<1>4. Total(Pold) = Total(b) /\ Total(Vold) = Total(c)
  BY <1>1, <1>2, <1>3, TotalTurned
<1> QED BY <1>4 DEF b, c

-----------------------------------------------------------------------------
(* The filter in the loop.  Every sum is taken modulo the prime, so that   *)
(* state, estimate and covariance stay in the field; a slope of zero, or   *)
(* one that stays the same along a step, makes the step what it should be. *)

States4 == [States -> F]

FilterInv ==
  /\ kf = [F |-> kf.F, P |-> kf.P, K |-> kf.K, x |-> kf.x]
  /\ kf.P \in [Pairs -> F] /\ kf.x \in States4 /\ x \in States4
  /\ n = 0 => kf.x = Zeros

LEMMA ValueIs == \A e : Value(e) = e
BY Zenon DEF Value

LEMMA StateIndex == 1 \in States /\ 2 \in States /\ 3 \in States /\ 4 \in States
BY DEF States

LEMMA TupleIs ==
  ASSUME NEW a \in F, NEW b \in F, NEW c \in F, NEW d \in F
  PROVE  /\ <<a, b, c, d>> \in States4
         /\ <<a, b, c, d>>[1] = a /\ <<a, b, c, d>>[2] = b
         /\ <<a, b, c, d>>[3] = c /\ <<a, b, c, d>>[4] = d
BY DEF States4, States

LEMMA TupleOf ==
  ASSUME NEW y \in States4, y[1] = 0, y[2] = 0, y[3] = 0, y[4] = 0
  PROVE  y = Zeros
<1>1. \A i \in States : y[i] = 0
  BY DEF States
<1> QED BY <1>1 DEF Zeros, States4

LEMMA ZerosIs == Zeros \in States4 /\ \A i \in States : Zeros[i] = 0
BY FieldInt DEF Zeros, States4

LEMMA IntStates == \A y \in States4 : \A i \in States : y[i] \in Int /\ y[i] \in F
BY FieldInt DEF States4

LEMMA NormZero == N(0) = 0
BY NormF, FieldInt

LEMMA SixthInt == dt * Recip(2) \in Int /\ dt * Recip(6) \in Int /\ dt \in Int
<1>1. dt \in Int /\ Recip(2) \in Int /\ Recip(6) \in Int
  BY StepInt, HalfAndSixth, FieldInt
<1> QED BY <1>1

\* One stage of a step.
LEMMA AlongIs ==
  ASSUME NEW D, NEW y \in [D -> F], NEW k, \A i \in D : k[i] \in Int, NEW c \in Int
  PROVE  /\ Along(y, k, c) \in [D -> F]
         /\ \A i \in D : Along(y, k, c)[i] = N(y[i] + c * k[i])
         /\ \A i \in D : k[i] = 0 => Along(y, k, c)[i] = y[i]
<1>1. \A i \in D : y[i] \in Int /\ y[i] + c * k[i] \in Int
  <2> SUFFICES ASSUME NEW i \in D PROVE y[i] \in Int /\ y[i] + c * k[i] \in Int
    OBVIOUS
  <2>1. y[i] \in F
    OBVIOUS
  <2>2. y[i] \in Int
    BY <2>1, FieldInt
  <2> QED BY <2>2
<1>2. DOMAIN y = D
  OBVIOUS
<1>3. Along(y, k, c) = [i \in D |-> N(y[i] + c * k[i])]
  BY <1>2, Zenon DEF Along, N
<1>4. ASSUME NEW i \in D, k[i] = 0 PROVE N(y[i] + c * k[i]) = y[i]
  <2>1. y[i] + c * k[i] = y[i]
    BY <1>1, <1>4
  <2>2. y[i] \in F
    OBVIOUS
  <2> QED BY <2>1, <2>2, NormF
<1>5. \A i \in D : N(y[i] + c * k[i]) \in F
  BY <1>1, NormType
<1> QED BY <1>3, <1>4, <1>5

LEMMA AlongState ==
  ASSUME NEW y \in States4, NEW k, \A i \in States : k[i] \in Int, NEW c \in Int
  PROVE  /\ Along(y, k, c) \in States4
         /\ \A i \in States : Along(y, k, c)[i] = N(y[i] + c * k[i])
         /\ \A i \in States : k[i] = 0 => Along(y, k, c)[i] = y[i]
<1>1. y \in [States -> F]
  BY DEF States4
<1> DEFINE a == Along(y, k, c)
<1>2. /\ a \in [States -> F]
      /\ \A i \in States : a[i] = N(y[i] + c * k[i])
      /\ \A i \in States : k[i] = 0 => a[i] = y[i]
  BY <1>1, AlongIs
<1> HIDE DEF a
<1>3. /\ a \in States4
      /\ \A i \in States : a[i] = N(y[i] + c * k[i])
      /\ \A i \in States : k[i] = 0 => a[i] = y[i]
  BY <1>2 DEF States4
<1> QED BY <1>3 DEF a

\* The weights of the four slopes.
Weighed(D, k1, k2, k3, k4) == [i \in D |-> k1[i] + 2 * k2[i] + 2 * k3[i] + k4[i]]

LEMMA WeighedIs ==
  ASSUME NEW D, NEW k1, NEW k2, NEW k3, NEW k4,
         \A i \in D : k1[i] \in Int /\ k2[i] \in Int /\ k3[i] \in Int /\ k4[i] \in Int
  PROVE  LET w == Weighed(D, k1, k2, k3, k4)
         IN  /\ \A i \in D : w[i] \in Int
             /\ k2 = k1 /\ k3 = k1 /\ k4 = k1 => \A i \in D : w[i] = 6 * k1[i]
<1>1. \A i \in D : Weighed(D, k1, k2, k3, k4)[i] = k1[i] + 2 * k2[i] + 2 * k3[i] + k4[i]
  BY DEF Weighed
<1>2. \A i \in D : Weighed(D, k1, k2, k3, k4)[i] \in Int
  BY <1>1
<1>3. ASSUME k2 = k1, k3 = k1, k4 = k1, NEW i \in D
      PROVE  Weighed(D, k1, k2, k3, k4)[i] = 6 * k1[i]
  <2>1. k1[i] \in Int
    OBVIOUS
  <2> QED BY <1>1, <1>3, <2>1
<1> QED BY <1>2, <1>3

LEMMA InitKFIs ==
  /\ initKF = [F |-> initKF.F, P |-> initKF.P, K |-> initKF.K, x |-> initKF.x]
  /\ initKF.P \in [Pairs -> F] /\ initKF.x = Zeros
BY FieldInt DEF initKF

LEMMA FilterInit == Init => FilterInv
<1> SUFFICES ASSUME Init PROVE FilterInv
  OBVIOUS
<1>1. kf = initKF /\ x = Zeros
  BY DEF Init
<1> QED BY <1>1, InitKFIs, ZerosIs DEF FilterInv

LEMMA MeanIs ==
  ASSUME NEW a, \A j \in Ring : a[j] \in F
  PROVE  Mean(a) \in F /\ \A c \in F : Total(a) = SUM_LEN * c => Mean(a) = c
<1>1. \A j \in Ring : a[j] \in Int
  BY FieldInt
<1>2. Total(a) \in Int
  <2>1. SUM_LEN \in 0..SUM_LEN
    BY Sizes
  <2> QED BY <1>1, <2>1, SumsAre
<1> DEFINE r == Recip(SUM_LEN)
<1>3. r \in Int /\ N(SUM_LEN * r) = 1 /\ SUM_LEN \in Int
  <2>1. SUM_LEN \in F /\ SUM_LEN # 0
    BY Sizes, PrimeIs DEF F
  <2> QED BY <2>1, NormF, Reciprocal, FieldInt
<1> HIDE DEF r
<1>4. Mean(a) = N(Total(a) * r)
  BY DEF Mean, N, r
<1>5. Mean(a) \in F
  BY <1>2, <1>3, <1>4, NormType
<1>6. ASSUME NEW c \in F, Total(a) = SUM_LEN * c PROVE Mean(a) = c
  <2>1. c \in Int
    BY FieldInt
  <2>2. Total(a) * r = c * (SUM_LEN * r)
    BY <1>3, <1>6, <2>1
  <2> DEFINE e == SUM_LEN * r
  <2>3. e \in Int /\ N(e) = 1
    BY <1>3
  <2> HIDE DEF e
  <2>4. N(c * N(e)) = N(c * e)
    BY <2>1, <2>3, NormMul
  <2>5. c * 1 = c /\ N(c) = c
    BY <2>1, NormF
  <2> QED BY <1>4, <2>2, <2>3, <2>4, <2>5 DEF e
<1> QED BY <1>5, <1>6

-----------------------------------------------------------------------------
(* The equations of motion *)

LEMMA ModelIs ==
  ASSUME NEW s, s.a \in Int, s.w \in Int, s.turn \in Int, NEW y \in States4
  PROVE  /\ Model(s, y) \in States4
         /\ Model(s, y)[2] = y[1] /\ Model(s, y)[3] = N(s.w) /\ Model(s, y)[4] = N(s.w)
         /\ Model(s, y)[1] = N(-2 * Rate * y[1] - Rate * Rate * y[2]
                                 + s.turn * (Gravity - s.a - Bias))
<1> DEFINE f == -2 * Rate * y[1] - Rate * Rate * y[2] + s.turn * (Gravity - s.a - Bias)
<1>1. y[1] \in F /\ y[2] \in F /\ y[1] \in Int /\ y[2] \in Int
  BY IntStates, StateIndex
<1>2. f \in Int
  <2>1. s.turn * (Gravity - s.a - Bias) \in Int
    BY NumberAssumption
  <2>2. -2 * Rate * y[1] \in Int /\ Rate * Rate * y[2] \in Int
    BY <1>1, NumberAssumption
  <2> QED BY <2>1, <2>2
<1>3. Model(s, y) = <<N(f), y[1], N(s.w), N(s.w)>>
  BY Zenon DEF Model, N
<1> HIDE DEF f
<1>4. N(f) \in F /\ N(s.w) \in F
  BY <1>2, NormType
<1>5. Model(s, y) \in States4 /\ Model(s, y)[1] = N(f)
  BY <1>1, <1>3, <1>4, TupleIs
<1>6. Model(s, y)[2] = y[1] /\ Model(s, y)[3] = N(s.w) /\ Model(s, y)[4] = N(s.w)
  BY <1>1, <1>3, <1>4, TupleIs
<1> QED BY <1>5, <1>6 DEF f

\* Where the accelerations balance, the slope does not depend on the angles.
LEMMA ModelAtRest ==
  ASSUME NEW s, s.a \in Int, s.w \in Int, s.turn \in Int, NEW p \in F,
         Model(s, Rest(p))[1] = 0, NEW y \in States4, y[1] = 0, y[2] = p
  PROVE  Model(s, y) = <<0, 0, N(s.w), N(s.w)>>
<1>1. Rest(p) \in States4 /\ Rest(p)[1] = 0 /\ Rest(p)[2] = p
  BY TupleIs, FieldInt DEF Rest
<1>2. Model(s, y)[1] = Model(s, Rest(p))[1]
  BY <1>1, ModelIs
<1> DEFINE m == Model(s, y)
<1>3. m \in States4 /\ m[1] = 0 /\ m[2] = 0 /\ m[3] = N(s.w) /\ m[4] = N(s.w)
  BY <1>2, ModelIs
<1> HIDE DEF m
<1> DEFINE w == N(s.w)
<1>4. w \in F
  BY NormType
<1> HIDE DEF w
<1>5. <<0, 0, w, w>> \in States4 /\ \A i \in States : m[i] = <<0, 0, w, w>>[i]
  <2>1. /\ <<0, 0, w, w>> \in States4
        /\ <<0, 0, w, w>>[1] = 0 /\ <<0, 0, w, w>>[2] = 0
        /\ <<0, 0, w, w>>[3] = w /\ <<0, 0, w, w>>[4] = w
    BY <1>4, TupleIs, FieldInt
  <2> QED BY <1>3, <2>1 DEF States, w
<1> QED BY <1>3, <1>5 DEF States4, m, w

LEMMA NavigatedIs ==
  ASSUME NEW s, s.a \in Int, s.w \in Int, s.turn \in Int, s.tilt \in F,
         NEW y \in States4, NEW e \in States4
  PROVE  /\ Navigated(s, y, e) \in States4
         /\ \A p \in F : /\ Model(s, Rest(p))[1] = 0
                        /\ y[1] = 0 /\ y[2] = p /\ e[1] = 0 /\ e[2] = 0
              => /\ Navigated(s, y, e)[1] = 0 /\ Navigated(s, y, e)[2] = p
                 /\ Navigated(s, y, e)[3] = Carried(s)
<1> DEFINE v == <<(y[1] - e[1]) % Prime, (y[2] - e[2]) % Prime, s.tilt, y[4]>>
           k1 == Model(s, v)
           k2 == Model(s, Along(v, k1, dt * Recip(2)))
           k3 == Model(s, Along(v, k2, dt * Recip(2)))
           k4 == Model(s, Along(v, k3, dt))
           w == Weighed(States, k1, k2, k3, k4)
<1>1. /\ v \in States4 /\ v[1] = N(y[1] - e[1]) /\ v[2] = N(y[2] - e[2]) /\ v[3] = s.tilt
      /\ v[4] = y[4]
  <2>1. /\ y[1] \in Int /\ e[1] \in Int /\ y[2] \in Int /\ e[2] \in Int /\ y[4] \in F
    BY IntStates, StateIndex
  <2>2. N(y[1] - e[1]) \in F /\ N(y[2] - e[2]) \in F
    BY <2>1, NormType
  <2> DEFINE a == N(y[1] - e[1])  b == N(y[2] - e[2])
  <2>3. v = <<a, b, s.tilt, y[4]>>
    BY Zenon DEF N
  <2>4. a \in F /\ b \in F
    BY <2>2
  <2> HIDE DEF v, a, b
  <2>5. v \in States4 /\ v[1] = a /\ v[2] = b /\ v[3] = s.tilt /\ v[4] = y[4]
    BY <2>1, <2>3, <2>4, TupleIs
  <2> QED BY <2>5 DEF a, b
<1>2. DOMAIN v = States
  <2> HIDE DEF v
  <2> QED BY <1>1 DEF States4
<1>3. Navigated(s, y, e) = Along(v, w, dt * Recip(6))
  <2> DEFINE j1 == Value(Model(s, v))
             j2 == Value(Model(s, Value(Along(v, j1, dt * Recip(2)))))
             j3 == Value(Model(s, Value(Along(v, j2, dt * Recip(2)))))
             j4 == Value(Model(s, Value(Along(v, j3, dt))))
  <2>3. Navigated(s, y, e)
          = Along(v, [i \in DOMAIN v |-> j1[i] + 2 * j2[i] + 2 * j3[i] + j4[i]], dt * Recip(6))
    BY DEF Navigated, Integrated
  <2>4. j1 = k1
    <3> HIDE DEF v
    <3> QED BY ValueIs
  <2>5. j2 = k2
    <3> HIDE DEF v, j1, k1
    <3> QED BY <2>4, ValueIs
  <2>6. j3 = k3
    <3> HIDE DEF v, j2, k2
    <3> QED BY <2>5, ValueIs
  <2>7. j4 = k4
    <3> HIDE DEF v, j3, k3
    <3> QED BY <2>6, ValueIs
  <2>1. Navigated(s, y, e)
          = Along(v, [i \in DOMAIN v |-> k1[i] + 2 * k2[i] + 2 * k3[i] + k4[i]], dt * Recip(6))
    <3> HIDE DEF v, j1, j2, j3, j4, k1, k2, k3, k4
    <3> QED BY <2>3, <2>4, <2>5, <2>6, <2>7
  <2>2. w = [i \in DOMAIN v |-> k1[i] + 2 * k2[i] + 2 * k3[i] + k4[i]]
    <3> HIDE DEF v, k1, k2, k3, k4
    <3> QED BY <1>2 DEF Weighed
  <2> QED BY <2>1, <2>2, Zenon
<1> HIDE DEF v
<1>4. \A u \in States4 : Model(s, u) \in States4
  BY ModelIs
<1>5. ASSUME NEW k \in States4, NEW c \in Int
      PROVE  /\ Along(v, k, c) \in States4
             /\ \A i \in States : k[i] = 0 => Along(v, k, c)[i] = v[i]
  <2>1. \A i \in States : k[i] \in Int
    BY IntStates
  <2> QED BY <1>1, <2>1, AlongState
<1>6. k1 \in States4
  BY <1>1, <1>4
<1>7. k2 \in States4
  <2> HIDE DEF k1
  <2> QED BY <1>4, <1>5, <1>6, SixthInt
<1>8. k3 \in States4
  <2> HIDE DEF k2
  <2> QED BY <1>4, <1>5, <1>7, SixthInt
<1>9. k4 \in States4
  <2> HIDE DEF k3
  <2> QED BY <1>4, <1>5, <1>8, SixthInt
<1>10. ASSUME NEW p \in F, Model(s, Rest(p))[1] = 0, v[1] = 0, v[2] = p
       PROVE  LET k == <<0, 0, N(s.w), N(s.w)>>
              IN  k1 = k /\ k2 = k /\ k3 = k /\ k4 = k
  <2> DEFINE k == <<0, 0, N(s.w), N(s.w)>>
  <2>1. ASSUME NEW u \in States4, u[1] = 0, u[2] = p PROVE Model(s, u) = k
    BY <1>10, <2>1, ModelAtRest
  <2>2. k \in States4 /\ k[1] = 0 /\ k[2] = 0
    <3> DEFINE m == N(s.w)
    <3>1. m \in F
      BY NormType
    <3> HIDE DEF m
    <3>2. <<0, 0, m, m>> \in States4 /\ <<0, 0, m, m>>[1] = 0 /\ <<0, 0, m, m>>[2] = 0
      BY <3>1, TupleIs, FieldInt
    <3> QED BY <3>2 DEF m
  <2> HIDE DEF k
  <2>3. ASSUME NEW c \in Int PROVE Model(s, Along(v, k, c)) = k
    <3>1. Along(v, k, c) \in States4 /\ Along(v, k, c)[1] = 0 /\ Along(v, k, c)[2] = p
      BY <1>5, <1>10, <2>2, StateIndex
    <3> QED BY <2>1, <3>1
  <2>4. k1 = k
    BY <1>1, <1>10, <2>1
  <2>5. k2 = k
    <3> HIDE DEF k1
    <3> QED BY <2>3, <2>4, SixthInt
  <2>6. k3 = k
    <3> HIDE DEF k2
    <3> QED BY <2>3, <2>5, SixthInt
  <2>7. k4 = k
    <3> HIDE DEF k3
    <3> QED BY <2>3, <2>6, SixthInt
  <2> QED BY <2>4, <2>5, <2>6, <2>7 DEF k
<1> HIDE DEF k1, k2, k3, k4
<1>11. /\ \A i \in States : w[i] \in Int
       /\ k2 = k1 /\ k3 = k1 /\ k4 = k1 => \A i \in States : w[i] = 6 * k1[i]
  <2>1. \A i \in States : k1[i] \in Int /\ k2[i] \in Int /\ k3[i] \in Int /\ k4[i] \in Int
    BY <1>6, <1>7, <1>8, <1>9, IntStates
  <2> QED BY <2>1, WeighedIs
<1> HIDE DEF w
<1>12. /\ Along(v, w, dt * Recip(6)) \in States4
       /\ \A i \in States : Along(v, w, dt * Recip(6))[i] = N(v[i] + (dt * Recip(6)) * w[i])
       /\ \A i \in States : w[i] = 0 => Along(v, w, dt * Recip(6))[i] = v[i]
  <2> DEFINE h == dt * Recip(6)
  <2>1. h \in Int
    BY SixthInt
  <2> HIDE DEF h
  <2>2. /\ Along(v, w, h) \in States4
        /\ \A i \in States : Along(v, w, h)[i] = N(v[i] + h * w[i])
        /\ \A i \in States : w[i] = 0 => Along(v, w, h)[i] = v[i]
    BY <1>1, <1>11, <2>1, AlongState
  <2> QED BY <2>2 DEF h
<1>13. ASSUME NEW p \in F, Model(s, Rest(p))[1] = 0, y[1] = 0, y[2] = p, e[1] = 0, e[2] = 0
       PROVE  /\ Navigated(s, y, e)[1] = 0 /\ Navigated(s, y, e)[2] = p
              /\ Navigated(s, y, e)[3] = Carried(s)
  <2>1. v[1] = 0 /\ v[2] = p
    <3>1. y[1] - e[1] = 0 /\ y[2] - e[2] = p
      BY <1>13, FieldInt
    <3> QED BY <1>1, <3>1, NormZero, NormF
  <2> DEFINE m == N(s.w)
  <2>2. k1 = <<0, 0, m, m>> /\ k2 = k1 /\ k3 = k1 /\ k4 = k1
    BY <1>10, <1>13, <2>1
  <2>3. m \in F /\ m \in Int
    BY NormType
  <2>4. k1[1] = 0 /\ k1[2] = 0 /\ k1[3] = m
    <3> HIDE DEF m
    <3> QED BY <2>2, <2>3, TupleIs, FieldInt
  <2>5. w[1] = 0 /\ w[2] = 0 /\ w[3] = 6 * m
    <3> HIDE DEF m
    <3> QED BY <1>11, <2>2, <2>4, StateIndex
  <2>6. Navigated(s, y, e)[1] = 0 /\ Navigated(s, y, e)[2] = p
    BY <1>3, <1>12, <2>1, <2>5, StateIndex
  <2>7. Navigated(s, y, e)[3] = N(s.tilt + (dt * Recip(6)) * (6 * m))
    BY <1>1, <1>3, <1>12, <2>5, StateIndex
  <2>8. N(s.tilt + (dt * Recip(6)) * (6 * m)) = Carried(s)
    <3> DEFINE r == Recip(6)
    <3>1. r \in Int /\ N(6 * r) = 1 /\ dt \in Int /\ s.tilt \in Int
      <4>1. dt \in Int /\ s.tilt \in Int
        BY StepInt, FieldInt
      <4>2. r \in Int /\ N(6 * r) = 1
        <5> DEFINE six == 6
        <5>1. six \in Int /\ N(six) # 0
          BY SixNotZero
        <5> HIDE DEF six
        <5>2. Recip(six) \in F /\ N(six * Recip(six)) = 1
          BY <5>1, Reciprocal
        <5> QED BY <5>2, FieldInt DEF six
      <4> QED BY <4>1, <4>2
    <3> HIDE DEF r, m
    <3> DEFINE q == 6 * r
    <3>2. (dt * r) * (6 * m) = (dt * m) * q
      BY <2>3, <3>1
    <3>3. q \in Int /\ N(q) = 1 /\ dt * m \in Int
      BY <2>3, <3>1
    <3> HIDE DEF q
    <3> DEFINE g == dt * m
    <3>4. N(g * q) = N(g)
      <4> HIDE DEF g
      <4>1. g \in Int
        BY <3>3 DEF g
      <4>2. N(g * N(q)) = N(q * g)
        BY <3>3, <4>1, NormMul
      <4>3. g * 1 = g /\ q * g = g * q
        BY <3>3, <4>1
      <4> QED BY <3>3, <4>2, <4>3
    <3>5. N(s.tilt + g * q) = N(s.tilt + N(g * q)) /\ N(s.tilt + g) = N(s.tilt + N(g))
      <4>1. g \in Int /\ g * q \in Int
        BY <3>3
      <4> HIDE DEF g
      <4> QED BY <3>1, <4>1, NormSum
    <3>6. N(s.tilt + g) = N(s.tilt + dt * s.w)
      <4> DEFINE u == s.w
      <4>1. u \in Int
        OBVIOUS
      <4> HIDE DEF u
      <4>5. N(dt * N(u)) = N(u * dt) /\ u * dt = dt * u
        BY <3>1, <4>1, NormMul
      <4>2. N(g) = N(dt * s.w)
        BY <4>5 DEF g, m, u
      <4>3. g \in Int /\ dt * s.w \in Int
        BY <3>1, <3>3
      <4> DEFINE h == dt * s.w
      <4> HIDE DEF g, h
      <4>4. N(s.tilt + g) = N(s.tilt + N(g)) /\ N(s.tilt + h) = N(s.tilt + N(h))
        BY <3>1, <4>3, NormSum DEF h
      <4> QED BY <4>2, <4>4 DEF h
    <3>7. Carried(s) = N(s.tilt + dt * s.w)
      BY Zenon DEF Carried, N
    <3>8. (dt * r) * (6 * m) = g * q
      BY <3>2
    <3> QED BY <3>4, <3>5, <3>6, <3>7, <3>8 DEF r
  <2> QED BY <2>6, <2>7, <2>8
<1> QED BY <1>3, <1>12, <1>13

-----------------------------------------------------------------------------
(* The filter *)

LEMMA SigmaIs ==
  ASSUME NEW f, \A i \in States : f[i] \in Int
  PROVE  /\ Sigma(f) \in Int
         /\ (\A i \in States : f[i] = 0) => Sigma(f) = 0
BY StateIndex DEF Sigma

LEMMA SystemMatrixIs ==
  ASSUME NEW a \in Int, NEW w \in Int
  PROVE  SystemMatrix(a, w) \in [Pairs -> F]
<1> DEFINE e(c) == CASE c = <<1, 1>> -> -2 * Rate
                     [] c = <<1, 2>> -> -Rate * Rate
                     [] c = <<2, 1>> -> 1
                     [] c = <<1, 3>> -> a
                     [] c = <<1, 4>> -> -a
                     [] c = <<3, 4>> -> -w
                     [] c = <<4, 3>> -> w
                     [] OTHER        -> 0
<1>1. \A c \in Pairs : e(c) \in Int
  <2>1. -2 * Rate \in Int /\ -Rate * Rate \in Int /\ -a \in Int /\ -w \in Int
    BY NumberAssumption
  <2> QED BY <2>1
<1>2. SystemMatrix(a, w) = [c \in Pairs |-> N(e(c))]
  BY Zenon DEF SystemMatrix, N
<1> HIDE DEF e
<1>3. \A c \in Pairs : N(e(c)) \in F
  BY <1>1, NormType
<1> QED BY <1>2, <1>3

LEMMA PairsIs ==
  /\ \A i \in States, j \in States : <<i, j>> \in Pairs
  /\ \A c \in Pairs : c[1] \in States /\ c[2] \in States
BY DEF Pairs

\* Covariance and gain stay in the field, and a filter without estimate or
\* innovation has none after the update.
LEMMA UpdateIs ==
  ASSUME NEW k, NEW z, k.F \in [Pairs -> F], k.P \in [Pairs -> F], k.x \in States4,
         z \in States4
  PROVE  LET u == Update(k, z)
         IN  /\ u = [F |-> u.F, P |-> u.P, K |-> u.K, x |-> u.x]
             /\ u.P \in [Pairs -> F] /\ u.x \in States4
             /\ k.x = Zeros /\ z = Zeros => u.x = Zeros
<1> DEFINE pm(p) == [c \in Pairs |->
             (Sigma([j \in States |-> k.F[<<c[1], j>>] * p[<<j, c[2]>>] + p[<<c[1], j>>] * k.F[<<c[2], j>>]
                                        - k.P[<<c[1], j>>] * k.P[<<j, c[2]>>]])
                + (IF c[1] = c[2] THEN Noise ELSE 0)) % Prime]
           h == dt * Recip(2)
           p1 == pm(k.P)
           p2 == pm(Along(k.P, p1, h))
           p3 == pm(Along(k.P, p2, h))
           p4 == pm(Along(k.P, p3, dt))
           P == Along(k.P, Weighed(Pairs, p1, p2, p3, p4), dt * Recip(6))
           xm(y) == [i \in States |->
             Sigma([j \in States |-> k.F[<<i, j>>] * y[j] + P[<<i, j>>] * (z[j] - y[j])]) % Prime]
           x1 == xm(k.x)
           x2 == xm(Along(k.x, x1, h))
           x3 == xm(Along(k.x, x2, h))
           x4 == xm(Along(k.x, x3, dt))
           X == Along(k.x, Weighed(States, x1, x2, x3, x4), dt * Recip(6))
<1>0. DOMAIN k.P = Pairs /\ DOMAIN k.x = States
  BY DEF States4
<1> DEFINE along(y, g, c) == Value(Along(y, g, c))
           q1 == Value(pm(k.P))
           q2 == Value(pm(along(k.P, q1, h)))
           q3 == Value(pm(along(k.P, q2, h)))
           q4 == Value(pm(along(k.P, q3, dt)))
           Q == Value(Along(k.P, [i \in DOMAIN k.P |-> q1[i] + 2 * q2[i] + 2 * q3[i] + q4[i]],
                            dt * Recip(6)))
           ym(y) == [i \in States |->
             Sigma([j \in States |-> k.F[<<i, j>>] * y[j] + Q[<<i, j>>] * (z[j] - y[j])]) % Prime]
           y1 == Value(ym(k.x))
           y2 == Value(ym(along(k.x, y1, h)))
           y3 == Value(ym(along(k.x, y2, h)))
           y4 == Value(ym(along(k.x, y3, dt)))
           Y == Along(k.x, [i \in DOMAIN k.x |-> y1[i] + 2 * y2[i] + 2 * y3[i] + y4[i]],
                      dt * Recip(6))
<1>13. Update(k, z) = [F |-> k.F, P |-> Q, K |-> Q, x |-> Y]
  BY DEF Update, Integrated
<1>1. Update(k, z) = [F |-> k.F, P |-> P, K |-> P, x |-> X]
  <2> HIDE DEF h, pm
  <2>1. q1 = p1
    BY ValueIs
  <2>2. q2 = p2
    <3> HIDE DEF p1, q1
    <3> QED BY <2>1, ValueIs
  <2>3. q3 = p3
    <3> HIDE DEF p2, q2
    <3> QED BY <2>2, ValueIs
  <2>4. q4 = p4
    <3> HIDE DEF p3, q3
    <3> QED BY <2>3, ValueIs
  <2>5. Q = P
    <3> HIDE DEF p1, p2, p3, p4, q1, q2, q3, q4
    <3> QED BY <1>0, <2>1, <2>2, <2>3, <2>4, ValueIs DEF Weighed
  <2> HIDE DEF p1, p2, p3, p4, q1, q2, q3, q4, Q, P
  <2>6. \A y : ym(y) = xm(y)
    BY <2>5
  <2> HIDE DEF ym, xm
  <2>7. y1 = x1
    BY <2>6, ValueIs
  <2>8. y2 = x2
    <3> HIDE DEF y1, x1
    <3> QED BY <2>6, <2>7, ValueIs
  <2>9. y3 = x3
    <3> HIDE DEF y2, x2
    <3> QED BY <2>6, <2>8, ValueIs
  <2>10. y4 = x4
    <3> HIDE DEF y3, x3
    <3> QED BY <2>6, <2>9, ValueIs
  <2>11. Y = X
    <3> HIDE DEF x1, x2, x3, x4, y1, y2, y3, y4
    <3> QED BY <1>0, <2>7, <2>8, <2>9, <2>10 DEF Weighed
  <2> HIDE DEF x1, x2, x3, x4, y1, y2, y3, y4, X, Y
  <2> QED BY <1>13, <2>5, <2>11
<1> HIDE DEF along, q1, q2, q3, q4, Q, ym, y1, y2, y3, y4, Y
<1>2. h \in Int /\ dt * Recip(6) \in Int /\ dt \in Int
  BY SixthInt
<1> HIDE DEF h
<1>3. ASSUME NEW p \in [Pairs -> F] PROVE pm(p) \in [Pairs -> F]
  <2>1. ASSUME NEW c \in Pairs
        PROVE  Sigma([j \in States |-> k.F[<<c[1], j>>] * p[<<j, c[2]>>] + p[<<c[1], j>>] * k.F[<<c[2], j>>]
                                        - k.P[<<c[1], j>>] * k.P[<<j, c[2]>>]]) \in Int
    <3> DEFINE f == [j \in States |-> k.F[<<c[1], j>>] * p[<<j, c[2]>>] + p[<<c[1], j>>] * k.F[<<c[2], j>>]
                                        - k.P[<<c[1], j>>] * k.P[<<j, c[2]>>]]
    <3>1. ASSUME NEW j \in States PROVE f[j] \in Int
      <4>1. /\ <<c[1], j>> \in Pairs /\ <<j, c[2]>> \in Pairs /\ <<c[2], j>> \in Pairs
        BY PairsIs
      <4>2. /\ k.F[<<c[1], j>>] \in Int /\ p[<<j, c[2]>>] \in Int /\ p[<<c[1], j>>] \in Int
            /\ k.F[<<c[2], j>>] \in Int /\ k.P[<<c[1], j>>] \in Int /\ k.P[<<j, c[2]>>] \in Int
        BY <4>1, FieldInt
      <4> QED BY <4>2
    <3> HIDE DEF f
    <3>2. Sigma(f) \in Int
      BY <3>1, SigmaIs
    <3> QED BY <3>2 DEF f
  <2> DEFINE g(c) == Sigma([j \in States |-> k.F[<<c[1], j>>] * p[<<j, c[2]>>] + p[<<c[1], j>>] * k.F[<<c[2], j>>]
                                        - k.P[<<c[1], j>>] * k.P[<<j, c[2]>>]])
  <2>2. pm(p) = [c \in Pairs |-> N(g(c) + (IF c[1] = c[2] THEN Noise ELSE 0))]
    BY Zenon DEF N
  <2>3. \A c \in Pairs : g(c) \in Int
    BY <2>1
  <2> HIDE DEF g, pm
  <2>4. \A c \in Pairs : N(g(c) + (IF c[1] = c[2] THEN Noise ELSE 0)) \in F
    <3>1. \A c \in Pairs : g(c) + (IF c[1] = c[2] THEN Noise ELSE 0) \in Int
      BY <2>3, NumberAssumption
    <3> QED BY <3>1, NormType
  <2> QED BY <2>2, <2>4
<1> HIDE DEF pm
<1>4. ASSUME NEW p \in [Pairs -> F], NEW c \in Int PROVE Along(k.P, p, c) \in [Pairs -> F]
  <2>1. \A i \in Pairs : p[i] \in Int
    BY FieldInt
  <2> QED BY <2>1, AlongIs
<1>5. P \in [Pairs -> F]
  <2>1. p1 \in [Pairs -> F]
    BY <1>3
  <2>2. p2 \in [Pairs -> F]
    <3> HIDE DEF p1
    <3> QED BY <1>2, <1>3, <1>4, <2>1
  <2>3. p3 \in [Pairs -> F]
    <3> HIDE DEF p2
    <3> QED BY <1>2, <1>3, <1>4, <2>2
  <2>4. p4 \in [Pairs -> F]
    <3> HIDE DEF p3
    <3> QED BY <1>2, <1>3, <1>4, <2>3
  <2> HIDE DEF p1, p2, p3, p4
  <2>5. \A i \in Pairs : p1[i] \in Int /\ p2[i] \in Int /\ p3[i] \in Int /\ p4[i] \in Int
    BY <2>1, <2>2, <2>3, <2>4, FieldInt
  <2> DEFINE w == Weighed(Pairs, p1, p2, p3, p4)
  <2>6. \A i \in Pairs : w[i] \in Int
    BY <2>5, WeighedIs
  <2> HIDE DEF w
  <2>7. Along(k.P, w, dt * Recip(6)) \in [Pairs -> F]
    BY <1>2, <2>6, AlongIs
  <2> QED BY <2>7 DEF w
<1> HIDE DEF P
<1>6. ASSUME NEW y \in States4
      PROVE  xm(y) \in States4 /\ (y = Zeros /\ z = Zeros => xm(y) = Zeros)
  <2> DEFINE f(i) == [j \in States |-> k.F[<<i, j>>] * y[j] + P[<<i, j>>] * (z[j] - y[j])]
  <2>1. ASSUME NEW i \in States
        PROVE  /\ \A j \in States : f(i)[j] \in Int
               /\ y = Zeros /\ z = Zeros => \A j \in States : f(i)[j] = 0
    <3> SUFFICES ASSUME NEW j \in States
                 PROVE f(i)[j] \in Int /\ (y = Zeros /\ z = Zeros => f(i)[j] = 0)
      OBVIOUS
    <3>1. <<i, j>> \in Pairs
      BY PairsIs
    <3>2. k.F[<<i, j>>] \in Int /\ P[<<i, j>>] \in Int /\ y[j] \in Int /\ z[j] \in Int
      BY <1>5, <3>1, FieldInt, IntStates
    <3>3. f(i)[j] = k.F[<<i, j>>] * y[j] + P[<<i, j>>] * (z[j] - y[j])
      OBVIOUS
    <3>4. y = Zeros /\ z = Zeros => y[j] = 0 /\ z[j] = 0
      BY ZerosIs
    <3> DEFINE a == k.F[<<i, j>>]  b == P[<<i, j>>]  c == y[j]  d == z[j]  g == f(i)[j]
    <3>7. a \in Int /\ b \in Int /\ c \in Int /\ d \in Int /\ g = a * c + b * (d - c)
      BY <3>2, <3>3
    <3> HIDE DEF a, b, c, d, g
    <3>8. g \in Int /\ (c = 0 /\ d = 0 => g = 0)
      BY <3>7
    <3>5. f(i)[j] \in Int
      BY <3>8 DEF g
    <3>6. y[j] = 0 /\ z[j] = 0 => f(i)[j] = 0
      BY <3>8 DEF c, d, g
    <3> HIDE DEF f
    <3> QED BY <3>4, <3>5, <3>6
  <2>2. xm(y) = [i \in States |-> N(Sigma(f(i)))]
    BY Zenon DEF N
  <2> HIDE DEF f, xm
  <2>3. \A i \in States : /\ Sigma(f(i)) \in Int
                          /\ y = Zeros /\ z = Zeros => Sigma(f(i)) = 0
    BY <2>1, SigmaIs
  <2>4. \A i \in States : N(Sigma(f(i))) \in F
    BY <2>3, NormType
  <2>5. xm(y) \in States4
    BY <2>2, <2>4 DEF States4
  <2>6. ASSUME y = Zeros, z = Zeros PROVE xm(y) = Zeros
    <3>1. \A i \in States : N(Sigma(f(i))) = 0
      BY <2>3, <2>6, NormZero
    <3> QED BY <2>2, <3>1 DEF Zeros
  <2> QED BY <2>5, <2>6
<1> HIDE DEF xm
<1>7. ASSUME NEW y \in States4, NEW c \in Int
      PROVE  Along(k.x, y, c) \in States4 /\ (k.x = Zeros /\ y = Zeros => Along(k.x, y, c) = Zeros)
  <2>1. \A i \in States : y[i] \in Int
    BY IntStates
  <2> DEFINE v == k.x
  <2>2. v \in States4
    OBVIOUS
  <2>6. y \in States4 /\ c \in Int
    OBVIOUS
  <2> HIDE DEF v
  <2>5. /\ Along(v, y, c) \in States4
        /\ \A i \in States : y[i] = 0 => Along(v, y, c)[i] = v[i]
    BY <2>1, <2>2, <2>6, AlongState
  <2>3. /\ Along(k.x, y, c) \in States4
        /\ \A i \in States : y[i] = 0 => Along(k.x, y, c)[i] = k.x[i]
    BY <2>5 DEF v
  <2> DEFINE g == Along(k.x, y, c)
  <2>4. ASSUME k.x = Zeros, y = Zeros PROVE g = Zeros
    <3>1. \A i \in States : g[i] = 0
      BY <2>3, <2>4, ZerosIs
    <3>2. g \in States4
      BY <2>3
    <3> HIDE DEF g
    <3> QED BY <3>1, <3>2, TupleOf, StateIndex
  <2> QED BY <2>3, <2>4
<1>8. x1 \in States4 /\ (k.x = Zeros /\ z = Zeros => x1 = Zeros)
  BY <1>6
<1>9. x2 \in States4 /\ (k.x = Zeros /\ z = Zeros => x2 = Zeros)
  <2> HIDE DEF x1
  <2> QED BY <1>2, <1>6, <1>7, <1>8
<1>10. x3 \in States4 /\ (k.x = Zeros /\ z = Zeros => x3 = Zeros)
  <2> HIDE DEF x2
  <2> QED BY <1>2, <1>6, <1>7, <1>9
<1>11. x4 \in States4 /\ (k.x = Zeros /\ z = Zeros => x4 = Zeros)
  <2> HIDE DEF x3
  <2> QED BY <1>2, <1>6, <1>7, <1>10
<1> HIDE DEF x1, x2, x3, x4
<1>12. X \in States4 /\ (k.x = Zeros /\ z = Zeros => X = Zeros)
  <2> DEFINE w == Weighed(States, x1, x2, x3, x4)
  <2>1. \A i \in States : x1[i] \in Int /\ x2[i] \in Int /\ x3[i] \in Int /\ x4[i] \in Int
    BY <1>8, <1>9, <1>10, <1>11, IntStates
  <2>2. /\ \A i \in States : w[i] \in Int
        /\ x2 = x1 /\ x3 = x1 /\ x4 = x1 => \A i \in States : w[i] = 6 * x1[i]
    BY <2>1, WeighedIs
  <2> HIDE DEF w
  <2> DEFINE v == k.x  r == dt * Recip(6)
  <2>3. v \in States4 /\ r \in Int
    BY <1>2
  <2> HIDE DEF v, r
  <2>7. /\ Along(v, w, r) \in States4
        /\ \A i \in States : w[i] = 0 => Along(v, w, r)[i] = v[i]
    BY <2>2, <2>3, AlongState
  <2>4. /\ Along(k.x, w, dt * Recip(6)) \in States4
        /\ \A i \in States : w[i] = 0 => Along(k.x, w, dt * Recip(6))[i] = k.x[i]
    BY <2>7 DEF v, r
  <2>5. X = Along(k.x, w, dt * Recip(6))
    BY DEF w
  <2> HIDE DEF X
  <2>6. ASSUME k.x = Zeros, z = Zeros PROVE X = Zeros
    <3>1. \A i \in States : w[i] = 6 * x1[i] /\ x1[i] = 0
      BY <1>8, <1>9, <1>10, <1>11, <2>2, <2>6, ZerosIs
    <3>2. \A i \in States : w[i] = 0
      BY <3>1
    <3>3. \A i \in States : X[i] = 0
      BY <2>4, <2>5, <2>6, <3>2, ZerosIs
    <3> QED BY <2>4, <2>5, <3>3, TupleOf, StateIndex
  <2> QED BY <2>4, <2>5, <2>6
<1> HIDE DEF X
<1> QED BY <1>1, <1>5, <1>12

LEMMA UpdateKFIs ==
  ASSUME NEW k, k = [F |-> k.F, P |-> k.P, K |-> k.K, x |-> k.x],
         k.P \in [Pairs -> F], k.x \in States4,
         NEW s, s.a \in Int, s.w \in Int, s.turn \in Int, NEW z \in States4
  PROVE  LET u == UpdateKF(k, s, z)
         IN  /\ u = [F |-> u.F, P |-> u.P, K |-> u.K, x |-> u.x]
             /\ u.P \in [Pairs -> F] /\ u.x \in States4
             /\ k.x = Zeros /\ z = Zeros => u.x = Zeros
<1> DEFINE m == SystemMatrix(s.turn * s.a, s.turn * s.w)
           l == [k EXCEPT !.F = m]
<1>1. m \in [Pairs -> F]
  <2>1. s.turn * s.a \in Int /\ s.turn * s.w \in Int
    OBVIOUS
  <2> QED BY <2>1, SystemMatrixIs
<1>2. UpdateKF(k, s, z) = Update(l, z)
  BY ValueIs DEF UpdateKF
<1> HIDE DEF m
<1>3. l.F = m /\ l.P = k.P /\ l.x = k.x
  OBVIOUS
<1> HIDE DEF l
<1> DEFINE u == Update(l, z)
<1>4. /\ u = [F |-> u.F, P |-> u.P, K |-> u.K, x |-> u.x]
      /\ u.P \in [Pairs -> F] /\ u.x \in States4
      /\ l.x = Zeros /\ z = Zeros => u.x = Zeros
  BY <1>1, <1>3, UpdateIs
<1> HIDE DEF u
<1>5. u = UpdateKF(k, s, z)
  BY <1>2 DEF u
<1> QED BY <1>3, <1>4, <1>5

-----------------------------------------------------------------------------
(* A turn *)

LEMMA MeasurementIs ==
  ASSUME NEW s, s.tilt \in F, NEW y \in States4,
         NEW m, \A j \in Ring : m.P[j] \in F /\ m.V[j] \in F
  PROVE  /\ Measured(s, y, m) \in States4
         /\ y[1] = Mean(m.V) /\ y[2] = Mean(m.P) /\ y[3] = s.tilt => Measured(s, y, m) = Zeros
<1> DEFINE a == N(y[1] - Mean(m.V))  b == N(y[2] - Mean(m.P))  c == N(y[3] - s.tilt)
<1>1. y[1] \in Int /\ y[2] \in Int /\ y[3] \in Int /\ s.tilt \in Int
  BY IntStates, StateIndex, FieldInt
<1>2. Mean(m.V) \in Int /\ Mean(m.P) \in Int
  <2>1. Mean(m.V) \in F /\ Mean(m.P) \in F
    BY MeanIs
  <2> QED BY <2>1, FieldInt
<1>3. a \in F /\ b \in F /\ c \in F
  <2>1. y[1] - Mean(m.V) \in Int /\ y[2] - Mean(m.P) \in Int /\ y[3] - s.tilt \in Int
    BY <1>1, <1>2
  <2> QED BY <2>1, NormType
<1>4. ASSUME y[1] = Mean(m.V), y[2] = Mean(m.P), y[3] = s.tilt
      PROVE  a = 0 /\ b = 0 /\ c = 0
  <2>1. y[1] - Mean(m.V) = 0 /\ y[2] - Mean(m.P) = 0 /\ y[3] - s.tilt = 0
    BY <1>1, <1>2, <1>4
  <2> QED BY <2>1, NormZero
<1>5. Measured(s, y, m) = <<a, b, c, 0>>
  BY Zenon DEF Measured, N
<1> HIDE DEF a, b, c
<1> DEFINE z == <<a, b, c, 0>>
<1>6. z \in States4 /\ z[1] = a /\ z[2] = b /\ z[3] = c /\ z[4] = 0
  BY <1>3, TupleIs, FieldInt
<1> HIDE DEF z
<1>7. a = 0 /\ b = 0 /\ c = 0 => z = Zeros
  BY <1>6, TupleOf
<1>8. Measured(s, y, m) = z
  BY <1>5 DEF z
<1> QED BY <1>4, <1>6, <1>7, <1>8

\* The operands of a turn, and what it computes from them.
LEMMA TurnOperands ==
  ASSUME IInv, RingInv, FilterInv, Turn
  PROVE  LET s == sensor[index + 1]
             y == IF index = Start THEN reset(s) ELSE x
             z == Measured(s, y, Averages(s))
         IN  /\ y \in States4 /\ z \in States4
             /\ s.a \in Int /\ s.turn \in Int /\ s.w \in Int /\ s.tilt \in F
             /\ kf' = UpdateKF(kf, s, z)
             /\ x' = Navigated(s, y, UpdateKF(kf, s, z).x)
             /\ index = Start => y[1] = 0 /\ y[2] = gps2ecef(s) /\ y[3] = s.tilt
<1> DEFINE s == sensor[index + 1]
           y == IF index = Start THEN reset(s) ELSE x
<1>1. /\ pc = "loop" /\ index < Len(sensor)
      /\ kf' = UpdateKF(kf, s, Measured(s, y, Averages(s)))
      /\ x' = Navigated(s, y, UpdateKF(kf, s, Measured(s, y, Averages(s))).x)
  BY TurnIs
<1>2. index + 1 \in 1..Len(sensor)
  <2>1. index \in Nat /\ Len(sensor) \in Nat
    BY LenProperties, Sizes DEF IInv, CountInv, FileInv
  <2> QED BY <1>1, <2>1
<1>3. s.a \in Int /\ s.turn \in Int /\ s.w \in Int /\ s.tilt \in F /\ s.yaw \in F
      /\ gps2ecef(s) \in F
  BY <1>2, RecordIs
<1>4. y \in States4 /\ (index = Start => y[1] = 0 /\ y[2] = gps2ecef(s) /\ y[3] = s.tilt)
  <2> DEFINE g == gps2ecef(s)
  <2>1. g \in F
    BY <1>3
  <2> DEFINE b == s.tilt  c == s.yaw  q == <<0, g, b, c>>
  <2>2. reset(s) = q
    BY DEF reset
  <2>7. b \in F /\ c \in F /\ b = s.tilt
    BY <1>3
  <2> HIDE DEF s, g, b, c
  <2>8. q \in States4 /\ q[1] = 0 /\ q[2] = g /\ q[3] = b
    BY <2>1, <2>7, TupleIs, FieldInt
  <2> HIDE DEF q
  <2>3. reset(s) \in States4 /\ reset(s)[1] = 0 /\ reset(s)[2] = g /\ reset(s)[3] = s.tilt
    BY <2>2, <2>7, <2>8
  <2>4. y = IF index = Start THEN reset(s) ELSE x
    BY DEF s
  <2>5. x \in States4
    BY DEF FilterInv
  <2>6. g = gps2ecef(s)
    BY DEF g
  <2> HIDE DEF y
  <2> QED BY <2>3, <2>4, <2>5, <2>6
<1>5. \A j \in Ring : Averages(s).P[j] \in F /\ Averages(s).V[j] \in F
  <2>1. Averages(s).P \in [Ring -> F] /\ Averages(s).V \in [Ring -> F]
    BY <1>1, AveragesAre
  <2> QED BY <2>1
<1> HIDE DEF s, y
<1>6. Measured(s, y, Averages(s)) \in States4
  BY <1>3, <1>4, <1>5, MeasurementIs
<1> QED BY <1>1, <1>3, <1>4, <1>6 DEF s, y

LEMMA FilterInvNext == IInv /\ RingInv /\ FilterInv /\ [Next]_vars => FilterInv'
<1> SUFFICES ASSUME IInv, RingInv, FilterInv, [Next]_vars PROVE FilterInv'
  OBVIOUS
<1>1. CASE Turn
  <2> DEFINE s == sensor[index + 1]
             y == IF index = Start THEN reset(s) ELSE x
             z == Measured(s, y, Averages(s))
             k == UpdateKF(kf, s, z)
  <2>1. /\ y \in States4 /\ z \in States4 /\ s.a \in Int /\ s.turn \in Int /\ s.w \in Int
        /\ s.tilt \in F /\ kf' = k /\ x' = Navigated(s, y, k.x)
    BY <1>1, TurnOperands
  <2>2. n' = n + 1 /\ n \in Nat
    BY <1>1, TurnIs DEF IInv, CountInv
  <2> HIDE DEF z, s, y
  <2>3. /\ k = [F |-> k.F, P |-> k.P, K |-> k.K, x |-> k.x]
        /\ k.P \in [Pairs -> F] /\ k.x \in States4
    BY <2>1, UpdateKFIs DEF FilterInv
  <2> HIDE DEF k
  <2>4. Navigated(s, y, k.x) \in States4
    BY <2>1, <2>3, NavigatedIs
  <2> QED BY <2>1, <2>2, <2>3, <2>4 DEF FilterInv
<1>2. CASE UNCHANGED <<kf, x, n>>
  BY <1>2 DEF FilterInv
<1>3. Open \/ (\E g \in Garbage : ReadALine(g)) \/ LoopEnds \/ saveData \/ Ended \/ UNCHANGED vars
        => UNCHANGED <<kf, x, n>>
  BY DEF Open, ReadALine, LoopEnds, saveData, Ended, vars, loop
<1> QED BY <1>1, <1>2, <1>3 DEF Next

\* The state of a vehicle that has been at rest in every record so far.
Resting == \A i \in Used : /\ Position(i) = Position(Start)
                           /\ Model(sensor[i + 1], Rest(Position(i)))[1] = 0
                           /\ i > Start => sensor[i + 1].tilt = Carried(sensor[i])
Rested == /\ x[1] = 0 /\ x[2] = Position(Start) /\ x[3] = Carried(sensor[Start + n])
          /\ kf.x = Zeros

LEMMA AtRestTurn ==
  ASSUME IInv, RingInv, FilterInv, MeansOfLast', RingInv', AtRest, Turn, Resting'
  PROVE  Rested'
<1> DEFINE s == sensor[index + 1]
           y == IF index = Start THEN reset(s) ELSE x
           m == Averages(s)
           p == Position(Start)
<1>1. /\ pc = "loop" /\ index < Len(sensor) /\ sensor' = sensor
      /\ Pold' = m.P /\ Vold' = m.V /\ n' = n + 1
  BY TurnIs
<1>2. /\ index = Start + n /\ n \in Nat /\ Start < Len(sensor)
      /\ gps2ecef(s) = Position(Start + n)
      /\ m.P \in [Ring -> F] /\ m.V \in [Ring -> F]
  BY <1>1, AveragesAre
<1>3. \A i \in Start..(Start + n) :
        /\ Position(i) = p /\ Model(sensor[i + 1], Rest(Position(i)))[1] = 0
        /\ i > Start => sensor[i + 1].tilt = Carried(sensor[i])
  <2>1. Used' = Start..(Start + n)
    <3>1. (Start + n - 1)' = Start + n
      BY <1>1, <1>2, Sizes
    <3> QED BY <3>1 DEF Used
  <2>2. \A i : Position(i)' = Position(i)
    BY <1>1 DEF Position
  <2>3. \A i \in Used' : /\ Position(i)' = Position(Start)'
                         /\ Model(sensor'[i + 1], Rest(Position(i)'))[1] = 0
                         /\ i > Start => sensor'[i + 1].tilt = Carried(sensor'[i])
    BY DEF Resting, Model, Rest, Carried
  <2>4. Position(Start)' = Position(Start)
    BY <1>1 DEF Position
  <2> QED BY <1>1, <2>1, <2>2, <2>3, <2>4
<1>4. p \in F /\ p \in Int /\ 0 \in F
  <2>1. Start \in Int /\ Start < Len(sensor)
    BY <1>2, Sizes
  <2>2. p \in F
    BY <2>1, PositionIs
  <2> HIDE DEF p
  <2> QED BY <2>2, FieldInt
<1>5. Start + n \in Start..(Start + n) /\ Start \in Start..(Start + n)
  BY <1>2, Sizes
<1>6. gps2ecef(s) = p /\ Model(s, Rest(p))[1] = 0
  <2>1. s = sensor[(Start + n) + 1]
    BY <1>2
  <2> QED BY <1>2, <1>3, <1>5, <2>1
<1>7. /\ y[1] = 0 /\ y[2] = p /\ y[3] = s.tilt /\ kf.x = Zeros
  <2>1. CASE n = 0
    <3>1. index = Start
      BY <1>2, <2>1, Sizes
    <3>2. y[1] = 0 /\ y[2] = gps2ecef(s) /\ y[3] = s.tilt
      BY <3>1, TurnOperands
    <3>3. kf.x = Zeros
      BY <2>1 DEF FilterInv
    <3> HIDE DEF y, s
    <3> QED BY <1>6, <3>2, <3>3
  <2>2. CASE n # 0
    <3>1. index # Start /\ n > 0
      BY <1>2, <2>2, Sizes
    <3>2. \A i \in Used : i \in Start..(Start + n)
      BY <1>2, Sizes DEF Used
    <3>3. \A i \in Used : /\ Position(i) = Position(Start)
                          /\ Model(sensor[i + 1], Rest(Position(i)))[1] = 0
                          /\ i > Start => sensor[i + 1].tilt = Carried(sensor[i])
      BY <1>3, <3>2
    <3>4. /\ x[1] = 0 /\ x[2] = Position(Start) /\ x[3] = Carried(sensor[Start + n])
          /\ kf.x = Zeros
      <4> HIDE DEF s, y, m, p
      <4> QED BY <3>1, <3>3, Zenon DEF AtRest
    <3>5. s.tilt = Carried(sensor[Start + n])
      <4>1. s = sensor[(Start + n) + 1] /\ Start + n > Start
        BY <1>2, <2>2, Sizes
      <4> QED BY <1>3, <1>5, <4>1
    <3>6. y = x
      BY <3>1
    <3> HIDE DEF y, s
    <3> QED BY <3>4, <3>5, <3>6
  <2> QED BY <2>1, <2>2
<1>9. \A t \in Ring : LET i == Start + (n + 1) - SUM_LEN + t
                      IN  Position(i) = p /\ Speed(i) = 0
  <2> SUFFICES ASSUME NEW t \in Ring
               PROVE  LET i == Start + (n + 1) - SUM_LEN + t
                      IN  Position(i) = p /\ Speed(i) = 0
    OBVIOUS
  <2> DEFINE i == Start + (n + 1) - SUM_LEN + t
  <2>1. i \in Int /\ i <= Start + n
    BY <1>2, Sizes DEF Ring
  <2> HIDE DEF i
  <2>2. ASSUME NEW j \in Int, j <= Start + n PROVE Position(j) = p
    <3>1. CASE j < Start
      BY <3>1, Sizes DEF Position
    <3>2. CASE ~(j < Start)
      <4>1. j \in Start..(Start + n)
        BY <1>2, <2>2, <3>2, Sizes
      <4> QED BY <1>3, <4>1
    <3> QED BY <3>1, <3>2
  <2>3. Position(i) = p /\ Position(i - 1) = p
    BY <1>2, <2>1, <2>2, Sizes
  <2>4. Speed(i) = 0
    <3>1. CASE i > Start
      <4>1. Velocity(i) = ((p - p) * Recip(dt)) % Prime
        BY <2>3, Zenon DEF Velocity
      <4>2. Recip(dt) \in Int
        <5>1. dt \in Int /\ N(dt) # 0
          BY StepAssumption, NormF, FieldInt
        <5> QED BY <5>1, Reciprocal, FieldInt
      <4>3. (p - p) * Recip(dt) = 0
        <5> HIDE DEF p
        <5> QED BY <1>4, <4>2
      <4>4. 0 % Prime = 0
        BY NormF, FieldInt DEF N
      <4> QED BY <3>1, <4>1, <4>3, <4>4 DEF Speed
    <3>2. CASE ~(i > Start)
      BY <3>2 DEF Speed
    <3> QED BY <3>1, <3>2
  <2> QED BY <2>3, <2>4 DEF i
<1>10. /\ Total(m.P) = Total([j \in Ring |-> p])
       /\ Total(m.V) = Total([j \in Ring |-> 0])
  <2>1. \A t \in Ring : Recent(t)' = Start + (n + 1) - SUM_LEN + t
    BY <1>1 DEF Recent
  <2>2. n' > 0
    BY <1>1, <1>2
  <2>3. /\ Total(Pold') = Total([j \in Ring |-> Position(Recent(j))'])
        /\ Total(Vold') = Total([j \in Ring |-> Speed(Recent(j))'])
    BY <2>2, Zenon DEF MeansOfLast, Speed
  <2>4. \A t \in Ring : Position(Recent(t))' = p /\ Speed(Recent(t))' = 0
    <3> SUFFICES ASSUME NEW t \in Ring
                 PROVE  Position(Recent(t))' = p /\ Speed(Recent(t))' = 0
      OBVIOUS
    <3> DEFINE i == Start + (n + 1) - SUM_LEN + t
    <3>1. Position(Recent(t))' = Position(i) /\ Speed(Recent(t))' = Speed(i)
      BY <1>1 DEF Position, Speed, Velocity, Recent
    <3> QED BY <1>9, <3>1
  <2>5. /\ [j \in Ring |-> Position(Recent(j))'] = [j \in Ring |-> p]
        /\ [j \in Ring |-> Speed(Recent(j))'] = [j \in Ring |-> 0]
    BY <2>4
  <2> QED BY <1>1, <2>3, <2>5
<1>11. Mean(m.P) = p /\ Mean(m.V) = 0
  <2>1. /\ Total([j \in Ring |-> p]) = SUM_LEN * p
        /\ Total([j \in Ring |-> 0]) = SUM_LEN * 0
    <3> HIDE DEF p
    <3> QED BY <1>4, TotalConstant
  <2> HIDE DEF m, p
  <2> QED BY <1>2, <1>4, <1>10, <2>1, MeanIs
<1>12. /\ y \in States4 /\ s.a \in Int /\ s.turn \in Int /\ s.w \in Int /\ s.tilt \in F
       /\ kf' = UpdateKF(kf, s, Measured(s, y, m))
       /\ x' = Navigated(s, y, UpdateKF(kf, s, Measured(s, y, m)).x)
       /\ Measured(s, y, m) \in States4
  BY TurnOperands
<1>13. \A j \in Ring : m.P[j] \in F /\ m.V[j] \in F
  BY <1>2
<1> HIDE DEF s, y, m
<1>14. Measured(s, y, m) = Zeros
  BY <1>7, <1>11, <1>12, <1>13, MeasurementIs
<1> DEFINE k == UpdateKF(kf, s, Measured(s, y, m))
<1>15. k.x = Zeros /\ k.x \in States4
  BY <1>7, <1>12, <1>14, UpdateKFIs DEF FilterInv
<1>16. kf' = k /\ x' = Navigated(s, y, k.x)
  BY <1>12
<1> HIDE DEF k
<1>17. k.x[1] = 0 /\ k.x[2] = 0
  BY <1>15, ZerosIs, StateIndex
<1>18. Navigated(s, y, k.x)[1] = 0 /\ Navigated(s, y, k.x)[2] = p /\ Navigated(s, y, k.x)[3] = Carried(s)
  BY <1>4, <1>6, <1>7, <1>12, <1>15, <1>17, NavigatedIs
<1>19. Position(Start)' = p
  BY <1>1 DEF Position
<1>20. Carried(sensor[Start + n])' = Carried(s)
  <2>1. (Start + n)' = (Start + n) + 1 /\ index + 1 = (Start + n) + 1
    BY <1>1, <1>2, Sizes
  <2>2. (sensor[Start + n])' = s
    BY <1>1, <2>1 DEF s
  <2> QED BY <2>2 DEF Carried
<1> HIDE DEF p
<1> QED BY <1>15, <1>16, <1>18, <1>19, <1>20 DEF Rested

LEMMA AtRestNext ==
  IInv /\ RingInv /\ FilterInv /\ MeansOfLast' /\ RingInv' /\ AtRest /\ [Next]_vars => AtRest'
<1> SUFFICES ASSUME IInv, RingInv, FilterInv, MeansOfLast', RingInv', AtRest, [Next]_vars
             PROVE  AtRest'
  OBVIOUS
<1>1. CASE Turn
  <2>1. Resting' => Rested'
    BY <1>1, AtRestTurn
  <2> QED BY <2>1, Zenon DEF AtRest, Resting, Rested
<1>2. CASE \E g \in Garbage : ReadALine(g)
  <2>1. n' = n /\ n = 0
    BY <1>2 DEF ReadALine, loop, IInv, LoopInv
  <2> QED BY <2>1 DEF AtRest
<1>3. CASE Open \/ LoopEnds \/ saveData \/ Ended \/ UNCHANGED vars
  <2>1. UNCHANGED <<sensor, kf, x, n>>
    BY <1>3 DEF Open, LoopEnds, saveData, Ended, vars, loop
  <2> QED BY <2>1 DEF AtRest, Used, Position, Model, Rest, Carried
<1> QED BY <1>1, <1>2, <1>3 DEF Next

-----------------------------------------------------------------------------
(* Theorems *)

\* The loop makes a turn for every record from Start to the end of the file,
\* or to record Last + 1: for every file and all bounds of the loop.
THEOREM TurnsOfRun == Spec => []Turns
<1>1. IInv => Turns
  BY DEF IInv
<1> QED BY <1>1, Initially, Inductive, PTL DEF Spec

\* Every step goes on to a later part of main, or leaves a line or a record
\* less to do: the program cannot run for ever, whatever it reads.
THEOREM RunEnds == Spec => Ends
<1>1. IInv /\ [Next]_vars =>
        [\/ Part[pc'] > Part[pc]
         \/ pc = "read" /\ Len(lines') < Len(lines)
         \/ pc = "loop" /\ index < index' /\ index' <= Len(sensor)]_vars
  <2> SUFFICES ASSUME IInv, Next, ~UNCHANGED vars
               PROVE  \/ Part[pc'] > Part[pc]
                      \/ pc = "read" /\ Len(lines') < Len(lines)
                      \/ pc = "loop" /\ index < index' /\ index' <= Len(sensor)
    OBVIOUS
  <2>1. CASE Open
    BY <2>1 DEF Open, Part
  <2>2. CASE \E g \in Garbage : ReadALine(g)
    <3>1. pc = "read" /\ (pc' = "loop" \/ Len(lines') < Len(lines))
      BY <2>2, ReadStep DEF ReadALine
    <3> QED BY <3>1 DEF Part
  <2>3. CASE Turn
    <3>1. pc = "loop" /\ (pc' = "save" \/ (index < index' /\ index' <= Len(sensor)))
      BY <2>3, TurnStep DEF Turn
    <3> QED BY <3>1 DEF Part
  <2>4. CASE LoopEnds
    BY <2>4 DEF LoopEnds, Part
  <2>5. CASE saveData
    BY <2>5 DEF saveData, Part
  <2>6. ~Ended
    BY DEF Ended
  <2> QED BY <2>1, <2>2, <2>3, <2>4, <2>5, <2>6 DEF Next
<1> QED BY <1>1, Initially, Inductive, PTL DEF Spec, Ends

\* Each line of the file that ends in a newline gives one record, comments
\* included, and records keep the place of their line: for every file.
THEOREM RecordsTheorem == Spec => []RecordPerLine
<1>1. Init => IInv /\ ReadInv
  BY Initially, ReadInit
<1>2. (IInv /\ ReadInv) /\ [Next]_vars => (IInv /\ ReadInv)'
  BY Inductive, ReadInvNext
<1>3. IInv /\ ReadInv => RecordPerLine
  BY RecordPerLineHolds
<1> QED BY <1>1, <1>2, <1>3, PTL DEF Spec

\* The averages that updateKF takes are those of the last SUM_LEN records: for
\* every length of the rings, and however often the index has run around them.
THEOREM MeansTheorem == Spec => []MeansOfLast
<1>1. Init => IInv /\ RingInv
  BY Initially DEF Init, RingInv
<1>2. (IInv /\ RingInv) /\ [Next]_vars => (IInv /\ RingInv)'
  BY Inductive, RingInvNext
<1>3. IInv /\ RingInv => MeansOfLast
  BY MeansHold
<1> QED BY <1>1, <1>2, <1>3, PTL DEF Spec

\* A vehicle whose accelerometers balance and whose tilts agree with its rates
\* stays where it is, in the filter and in the navigation equations, however it
\* turns on the spot: for every noise of the filter, and whatever covariance the
\* Riccati equation and the columns of F have made of it.
THEOREM RestTheorem == Spec => []AtRest
<1> DEFINE RestInv == IInv /\ RingInv /\ FilterInv /\ AtRest
<1>1. Init => RestInv
  <2>1. Init => n = 0
    BY DEF Init
  <2>2. Init => RingInv /\ AtRest
    BY <2>1 DEF RingInv, AtRest
  <2> QED BY <2>2, Initially, FilterInit
<1>2. RestInv /\ [Next]_vars => RestInv'
  <2>1. RestInv /\ [Next]_vars => IInv' /\ RingInv' /\ FilterInv'
    BY Inductive, RingInvNext, FilterInvNext
  <2>2. IInv' /\ RingInv' => MeansOfLast'
    BY MeansHold, PTL
  <2> QED BY <2>1, <2>2, AtRestNext
<1> QED BY <1>1, <1>2, PTL DEF Spec
=============================================================================
