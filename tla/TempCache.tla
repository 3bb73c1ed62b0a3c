------------------------------ MODULE TempCache ------------------------------
(***************************************************************************)
(* The cache of temporary objects behind mathlib's operators               *)
(* (cBaseMath::getTmp, getTmpArray and releaseTmp) together with the       *)
(* operators that use it.  A client evaluates one expression at a time:    *)
(* stack holds its operands, each a user object or a cache slot; every     *)
(* operator is one action, which obtains its result and its scratch        *)
(* objects from the cache and releases what it consumed.                   *)
(*                                                                         *)
(* A slot number stands for the key (keys count up from 10, are never      *)
(* reused and are only compared with 0, the key of user objects).  lost is *)
(* a history variable: slots no expression refers to any more that were    *)
(* never released.                                                         *)
(***************************************************************************)
EXTENDS Shapes, Sequences, FiniteSets

CONSTANTS Names,     \* the user's objects (key = 0)
          Named,     \* their type and dimensions
          Dims,      \* sizes of the objects eye, zeros, ones and skew make
          MaxDepth,  \* bound: operands an unfinished expression may hold
          MaxLost    \* bound: no slot is lost once this many have been

ASSUME ClientAssumption ==
  /\ Named \in [Names -> Kinds]
  /\ Names \cap Nat = {}
  /\ Names \cap [kind : Kinds, data : Data] = {}   \* a name is not a value
  /\ Dims \subseteq Nat
  /\ MaxDepth \in Nat

VARIABLES cache,   \* sequence of [kind, available, data]
          user,    \* the contents of the user's objects
          stack,   \* operands evaluated so far: names and slots
          lost     \* slots dropped without a release

vars == <<cache, user, stack, lost>>

Object == [kind : Kinds, available : BOOLEAN, data : Data]

-----------------------------------------------------------------------------
(* The cache *)

\* Faulty variants (here and below, named Bad...) are slips in the code that
\* the properties must notice.
BadFitsNoArray(o, k) == o.available /\ o.kind = k /\ k.type # "array"

\* What the scan of getTmp accepts: the same type and the same shape, or an
\* array at least as long as asked for.
Fits(o, k) ==
  /\ o.available
  /\ o.kind.type = k.type
  /\ IF k.type = "array" THEN o.kind.rows >= k.rows
                         ELSE o.kind.rows = k.rows /\ o.kind.cols = k.cols

Candidates(c, k) == {i \in DOMAIN c : Fits(c[i], k)}

BadSlot(c, k) == IF Candidates(c, k) = {} THEN Len(c) + 2
                 ELSE CHOOSE i \in Candidates(c, k) : TRUE

\* The slot getTmp returns: the first that fits, or a new one at the end.
Slot(c, k) == IF Candidates(c, k) = {} THEN Len(c) + 1
              ELSE CHOOSE i \in Candidates(c, k) :
                     \A j \in Candidates(c, k) : i <= j

\* The cache getTmp leaves.
GetTmp(c, k) ==
  IF Candidates(c, k) = {}
  THEN Append(c, [kind |-> k, available |-> FALSE, data |-> Zero])
  ELSE [c EXCEPT ![Slot(c, k)].available = FALSE]

BadRelease(c, S) == c

\* releaseTmp on every member of S that is a temporary.
Release(c, S) ==
  [i \in DOMAIN c |-> IF i \in S THEN [c[i] EXCEPT !.available = TRUE] ELSE c[i]]

Store(c, i, d) == [c EXCEPT ![i].data = d]

\* What the member inv() of an n x n matrix takes: b and three index arrays.
Scratch1(c, n) == GetTmp(c, Mat(n, n))
Scratch2(c, n) == GetTmp(Scratch1(c, n), Arr(n))
Scratch3(c, n) == GetTmp(Scratch2(c, n), Arr(n))
GetScratch(c, n) == GetTmp(Scratch3(c, n), Arr(n))
ScratchSlots(c, n) == {Slot(c, Mat(n, n)), Slot(Scratch1(c, n), Arr(n)),
                       Slot(Scratch2(c, n), Arr(n)), Slot(Scratch3(c, n), Arr(n))}

-----------------------------------------------------------------------------
(* The expression *)

Kind(x)  == IF x \in Names THEN Named[x] ELSE cache[x].kind
Datum(x) == IF x \in Names THEN user[x] ELSE cache[x].data

Top    == stack[Len(stack)]
Second == stack[Len(stack) - 1]
Pop(n) == SubSeq(stack, 1, Len(stack) - n)
Push(n, x) == stack' = Append(Pop(n), x)

Temps(S) == S \ Names
Live == Temps({stack[i] : i \in DOMAIN stack})

\* A new temporary of kind k that holds d replaces the n topmost operands,
\* and the operands in S are released.
Yield(n, k, d, S) ==
  /\ cache' = Release(Store(GetTmp(cache, k), Slot(cache, k), d), S)
  /\ Push(n, Slot(cache, k))

MayLose == Cardinality(lost) < MaxLost

\* A cMLError unwinds the expression: references vanish, nothing is released.
\* c is the cache, and S the slots the operator held itself, when it is thrown.
Throw(c, S) == /\ MayLose
               /\ cache' = c
               /\ stack' = <<>>
               /\ lost' = lost \cup Live \cup S

Init == /\ cache = <<>>
        /\ user = [n \in Names |-> Zero]
        /\ stack = <<>>
        /\ lost = {}

\* A user object named in the expression.
Use(n) == /\ Len(stack) < MaxDepth
          /\ Push(0, n)
          /\ UNCHANGED <<cache, user, lost>>

\* eye, zeros, ones
Make(r, c, d) == /\ Len(stack) < MaxDepth
                 /\ Yield(0, Mat(r, c), d, {})
                 /\ UNCHANGED <<user, lost>>

\* skew(b, n) takes its result from the cache before it looks at n.
Skew(n, d) ==
  /\ Len(stack) < MaxDepth
  /\ IF n \in {3, 4}
     THEN Yield(0, Mat(n, n), d, {}) /\ UNCHANGED lost
     ELSE Throw(GetTmp(cache, Mat(n, n)), {Slot(cache, Mat(n, n))})
  /\ UNCHANGED user

BadBinary(op) ==   \* the operands are swapped
  /\ Len(stack) >= 2
  /\ <<Kind(Second).type, Kind(Top).type>> \in Overloads(op)
  /\ Conforms(op, Kind(Second), Kind(Top))
  /\ Yield(2, ResultKind(op, Kind(Top), Kind(Second)),
           Combine[op, Datum(Top), Datum(Second)], {Second, Top})
  /\ UNCHANGED <<user, lost>>

\* +, -, *, outer, cross: the check comes before anything is released.
Binary(op) ==
  /\ Len(stack) >= 2
  /\ <<Kind(Second).type, Kind(Top).type>> \in Overloads(op)
  /\ IF Conforms(op, Kind(Second), Kind(Top))
     THEN /\ Yield(2, ResultKind(op, Kind(Second), Kind(Top)),
                   Combine[op, Datum(Second), Datum(Top)], {Second, Top})
          /\ UNCHANGED lost
     ELSE Throw(cache, {})
  /\ UNCHANGED user

Dot ==
  /\ Len(stack) >= 2
  /\ Kind(Second).type = "vector" /\ Kind(Top).type = "vector"
  /\ IF Kind(Second).rows = Kind(Top).rows
     THEN /\ cache' = Release(cache, {Second, Top})
          /\ stack' = Pop(2)
          /\ UNCHANGED lost
     ELSE Throw(cache, {})
  /\ UNCHANGED user

\* Unary minus, and multiplication and division by a scalar.
Scale == /\ stack # <<>> /\ Kind(Top).type \in {"matrix", "vector"}
         /\ Yield(1, Kind(Top), Apply["scale", Datum(Top)], {Top})
         /\ UNCHANGED <<user, lost>>

\* The members trans(), and inv() and conj() of a quaternion, do not release
\* the object they are called on.
Forget(S) == (S = {} \/ MayLose) /\ lost' = lost \cup S

Transpose == /\ stack # <<>> /\ Kind(Top).type = "matrix"
             /\ Yield(1, Mat(Kind(Top).cols, Kind(Top).rows), Apply["trans", Datum(Top)], {})
             /\ Forget(Temps({Top}))
             /\ UNCHANGED user

Conj == /\ stack # <<>> /\ Kind(Top).type = "quaternion"
        /\ Yield(1, Quat, Apply["conj", Datum(Top)], {})
        /\ Forget(Temps({Top}))
        /\ UNCHANGED user

\* The friend inv(a): a copy of a is inverted in place.
Inv ==
  /\ stack # <<>> /\ Kind(Top).type = "matrix"
  /\ LET n   == Kind(Top).rows
         k   == Mat(Kind(Top).cols, Kind(Top).rows)
         ans == Slot(cache, k)
         got == GetTmp(cache, k)
     IN  IF k.rows # k.cols
         THEN Throw(got, {ans})
         ELSE IF Datum(Top) \in Singular
         THEN Throw(GetScratch(got, n), {ans} \cup ScratchSlots(got, n))
         ELSE /\ cache' = Release(Store(GetScratch(got, n), ans, Apply["inv", Datum(Top)]),
                                  {Top} \cup ScratchSlots(got, n))
              /\ Push(1, ans)
              /\ UNCHANGED lost
  /\ UNCHANGED user

\* The member inv(): in place, on a user object or a temporary.
InvInPlace ==
  /\ stack # <<>> /\ Kind(Top).type = "matrix"
  /\ LET n    == Kind(Top).rows
         took == ScratchSlots(cache, n)
         c    == GetScratch(cache, n)
         inv  == Apply["inv", Datum(Top)]
     IN  IF n # Kind(Top).cols
         THEN Throw(cache, {}) /\ UNCHANGED user
         ELSE IF Datum(Top) \in Singular
         THEN /\ Throw(c, took)
              /\ IF Top \in Names
                 THEN \E d \in Data : user' = [user EXCEPT ![Top] = d]
                 ELSE UNCHANGED user
         ELSE /\ UNCHANGED <<stack, lost>>
              /\ IF Top \in Names
                 THEN cache' = Release(c, took) /\ user' = [user EXCEPT ![Top] = inv]
                 ELSE cache' = Release(Store(c, Top, inv), took) /\ UNCHANGED user

\* The last operator of a full expression: n takes the operand's contents.
Finish(n, d) == /\ user' = [user EXCEPT ![n] = d]
                /\ cache' = Release(cache, {Top})
                /\ stack' = <<>>
                /\ UNCHANGED lost

\* n = operand
Assign(n) ==
  /\ Len(stack) = 1 /\ Kind(Top).type = Named[n].type
  /\ IF Kind(Top) = Named[n]
     THEN Finish(n, Datum(Top))
     ELSE Throw(cache, {}) /\ UNCHANGED user

\* n += operand, n -= operand
AddAssign(n) ==
  /\ Len(stack) = 1 /\ Kind(Top).type = Named[n].type
  /\ Named[n].type # "quaternion"
  /\ IF Kind(Top) = Named[n]
     THEN Finish(n, Combine["add", user[n], Datum(Top)])
     ELSE Throw(cache, {}) /\ UNCHANGED user

\* n.set(operand, row, col): unchecked, so the caller makes it fit.
Set(n) ==
  /\ Len(stack) = 1 /\ Kind(Top).type = "matrix" /\ Named[n].type = "matrix"
  /\ Kind(Top).rows <= Named[n].rows /\ Kind(Top).cols <= Named[n].cols
  /\ Finish(n, Combine["set", user[n], Datum(Top)])

\* n is constructed as a copy of the operand.  The matrix constructor copies
\* r*c elements before it sets r and c; the quaternion one never releases.
Copy(n) ==
  /\ Len(stack) = 1 /\ Kind(Top) = Named[n]
  /\ \/ Named[n].type = "matrix" /\ \E d \in Data : Finish(n, d)
     \/ Named[n].type = "vector" /\ Finish(n, Datum(Top))
     \/ /\ Named[n].type = "quaternion"
        /\ user' = [user EXCEPT ![n] = Datum(Top)]
        /\ stack' = <<>>
        /\ Forget(Live)
        /\ UNCHANGED cache

\* operator<<
PrintOut == /\ Len(stack) = 1
            /\ cache' = Release(cache, {Top})
            /\ stack' = <<>>
            /\ UNCHANGED <<user, lost>>

Next ==
  \/ \E n \in Names : Use(n) \/ Assign(n) \/ AddAssign(n) \/ Set(n) \/ Copy(n)
  \/ \E r, c \in Dims, d \in Data : Make(r, c, d)
  \/ \E n \in Dims, d \in Data : Skew(n, d)
  \/ \E op \in BinOps : Binary(op)
  \/ Dot \/ Scale \/ Transpose \/ Conj \/ Inv \/ InvInPlace \/ PrintOut

Spec == Init /\ [][Next]_vars

-----------------------------------------------------------------------------
(* Properties *)

\* Type invariant.
TypeOK == /\ cache \in Seq(Object)
          /\ user \in [Names -> Data]
          /\ stack \in Seq(Names \cup DOMAIN cache)
          /\ lost \subseteq DOMAIN cache

\* No temporary is an operand of an expression twice: two intermediate
\* results never share the storage getTmp hands out.
NoAliasing == \A i, j \in DOMAIN stack :
                 stack[i] = stack[j] /\ stack[i] \notin Names => i = j

\* The books of the cache balance: a slot is withheld from getTmp exactly when
\* an expression holds it or it was lost, so a result is never handed out
\* while it is in use, and scratch objects are back when an operator returns.
Balanced == \A i \in DOMAIN cache : ~cache[i].available <=> i \in Live \cup lost

\* A lost slot is not one an expression still uses.
LostIsDead == Live \cap lost = {}

Safety == NoAliasing /\ Balanced /\ LostIsDead

\* Nothing but the depth of expressions and the losses makes the cache grow:
\* the slots of one kind that are not lost never outnumber the operands an
\* expression can hold, its result and the scratch matrix of inv(); three
\* arrays serve every inversion of one size.
BoundedCache ==
  \A k \in {cache[i].kind : i \in DOMAIN cache} :
    Cardinality({i \in DOMAIN cache \ lost : cache[i].kind = k})
      <= IF k.type = "array" THEN 3 ELSE MaxDepth + 2

\* The cache is invisible: every behaviour is one of the pure evaluator.
View == [i \in DOMAIN stack |->
           IF stack[i] \in Names THEN stack[i]
           ELSE [kind |-> cache[stack[i]].kind, data |-> cache[stack[i]].data]]

Values == INSTANCE ValueEval WITH vals <- user, expr <- View

ImplementsValues == Values!ASpec
=============================================================================
