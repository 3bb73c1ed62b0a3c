------------------------------ MODULE ByteOrder ------------------------------
(***************************************************************************)
(* convertDataTypeLib: numbers are converted between the byte order and    *)
(* size of this machine and those of a message, and packed into one.       *)
(*                                                                         *)
(* An object of n bytes is a function on 0..(n - 1); machine is what       *)
(* determineMemoryType finds.  An operator is a function of the library,   *)
(* its value what is left at the pointer it writes to.  malloc does not    *)
(* fail here.                                                              *)
(***************************************************************************)
EXTENDS Integers

Orders   == {"BIG_END", "LITTLE_END"}   \* memory_t
Byte     == 0..255
Bytes(n) == [0..(n - 1) -> Byte]

\* The bytes of value the other way round.
convertDataType(value, size) == [i \in 0..(size - 1) |-> value[size - i - 1]]

\* Zeros before (BIG_END) or behind the bytes of original.
padZeros(memory, padSize, original, originalSize) ==
  LET first == IF memory = "BIG_END" THEN padSize - originalSize ELSE 0
  IN  [i \in 0..(padSize - 1) |->
         IF i \in first..(first + originalSize - 1) THEN original[i - first] ELSE 0]

reduceZeros(memory, reducedSize, original, originalSize) ==
  LET first == IF memory = "BIG_END" THEN originalSize - reducedSize ELSE 0
  IN  [i \in 0..(reducedSize - 1) |-> original[i + first]]

Swapped(machine, memory, value, size) ==
  IF memory = machine THEN value ELSE convertDataType(value, size)

\* From the order memory to that of the machine; convert is what the
\* destination holds before.
convertDataFrom(machine, convert, cnvSize, value, size, memory) ==
  IF cnvSize < size THEN convert
  ELSE Swapped(machine, memory,
               IF size # cnvSize THEN padZeros(memory, cnvSize, value, size) ELSE value,
               cnvSize)

\* From the order of the machine to memory.
convertDataTo(machine, convert, cnvSize, value, size, memory) ==
  IF cnvSize > size THEN convert
  ELSE LET v == Swapped(machine, memory, value, size)
       IN  IF size # cnvSize THEN reduceZeros(memory, cnvSize, v, size) ELSE v

\* The message after data was packed at index (which goes on to index + size).
packData(machine, dataString, index, data, size) ==
  LET cData == convertDataTo(machine, data, size, data, size, "BIG_END")
  IN  [i \in DOMAIN dataString |->
         IF i \in index..(index + size - 1) THEN cData[i - index] ELSE dataString[i]]

unpackData(machine, dataString, index, data, size) ==
  LET cData == [i \in 0..(size - 1) |-> dataString[index + i]]
  IN  convertDataFrom(machine, data, size, cData, size, "BIG_END")

\* htonf and htond, ntohf and ntohd, for a size of 4 and 8.
hton(machine, value, size) == convertDataTo(machine, [i \in 0..(size - 1) |-> 0], size, value, size, "BIG_END")
ntoh(machine, value, size) == convertDataTo(machine, [i \in 0..(size - 1) |-> 0], size, value, size, machine)

-----------------------------------------------------------------------------
\* What number the n bytes of v are, in the order o: its digits in base 256,
\* the k-th being that of 256^k.  Two objects are the same number when they
\* have the same digits.
Digit(o, n, v, k) ==
  IF k >= n THEN 0 ELSE IF o = "BIG_END" THEN v[n - 1 - k] ELSE v[k]

SameNumber(o, n, v, p, m, w) == \A k \in Nat : Digit(o, n, v, k) = Digit(p, m, w, k)
=============================================================================
