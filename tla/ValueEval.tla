------------------------------ MODULE ValueEval ------------------------------
(***************************************************************************)
(* What mathlib promises to the writer of an expression such as            *)
(* A = B*inv(C) + D : operators are functions of their operands' values,   *)
(* user objects change only when something is assigned to them (or when    *)
(* the member inv() inverts one where it stands), and an expression whose  *)
(* shapes do not conform is abandoned.  There is no cache here: an         *)
(* intermediate result is a value.  TempCache implements this module.      *)
(***************************************************************************)
EXTENDS Shapes, Sequences

CONSTANTS Names,     \* the user's objects (key = 0)
          Named,     \* their type and dimensions
          Dims,      \* sizes of the objects eye, zeros, ones and skew make
          MaxDepth   \* bound: operands an unfinished expression may hold

VARIABLES vals,   \* the contents of the user's objects
          expr    \* operands evaluated so far: a name or a value with its kind

avars == <<vals, expr>>

AValue == [kind : Kinds, data : Data]

AKind(x)  == IF x \in Names THEN Named[x] ELSE x.kind
ADatum(x) == IF x \in Names THEN vals[x] ELSE x.data

AInit == vals = [n \in Names |-> Zero] /\ expr = <<>>

ATop      == expr[Len(expr)]
ASecond   == expr[Len(expr) - 1]
APop(n)   == SubSeq(expr, 1, Len(expr) - n)
AYield(n, k, d) == expr' = Append(APop(n), [kind |-> k, data |-> d])
AThrow    == expr' = <<>>

AUse(n) == /\ Len(expr) < MaxDepth
           /\ expr' = Append(expr, n)
           /\ UNCHANGED vals

AMake(r, c, d) == Len(expr) < MaxDepth /\ AYield(0, Mat(r, c), d) /\ UNCHANGED vals

ABinary(op) ==
  /\ Len(expr) >= 2
  /\ <<AKind(ASecond).type, AKind(ATop).type>> \in Overloads(op)
  /\ IF Conforms(op, AKind(ASecond), AKind(ATop))
     THEN AYield(2, ResultKind(op, AKind(ASecond), AKind(ATop)),
                 Combine[op, ADatum(ASecond), ADatum(ATop)])
     ELSE AThrow
  /\ UNCHANGED vals

ADot ==
  /\ Len(expr) >= 2
  /\ AKind(ASecond).type = "vector" /\ AKind(ATop).type = "vector"
  /\ IF AKind(ASecond).rows = AKind(ATop).rows THEN expr' = APop(2) ELSE AThrow
  /\ UNCHANGED vals

AScale == /\ expr # <<>> /\ AKind(ATop).type \in {"matrix", "vector"}
          /\ AYield(1, AKind(ATop), Apply["scale", ADatum(ATop)])
          /\ UNCHANGED vals

ATrans == /\ expr # <<>> /\ AKind(ATop).type = "matrix"
          /\ AYield(1, Mat(AKind(ATop).cols, AKind(ATop).rows),
                    Apply["trans", ADatum(ATop)])
          /\ UNCHANGED vals

AConj == /\ expr # <<>> /\ AKind(ATop).type = "quaternion"
         /\ AYield(1, Quat, Apply["conj", ADatum(ATop)])
         /\ UNCHANGED vals

Invertible(k, d) == k.rows = k.cols /\ d \notin Singular

AInv == /\ expr # <<>> /\ AKind(ATop).type = "matrix"
        /\ IF Invertible(AKind(ATop), ADatum(ATop))
           THEN AYield(1, AKind(ATop), Apply["inv", ADatum(ATop)])
           ELSE AThrow
        /\ UNCHANGED vals

\* The member inv() works in place; an inversion given up half-way leaves
\* anything in the object.
AInvInPlace ==
  /\ expr # <<>> /\ AKind(ATop).type = "matrix"
  /\ IF Invertible(AKind(ATop), ADatum(ATop))
     THEN IF ATop \in Names
          THEN /\ vals' = [vals EXCEPT ![ATop] = Apply["inv", @]]
               /\ UNCHANGED expr
          ELSE /\ AYield(1, AKind(ATop), Apply["inv", ADatum(ATop)])
               /\ UNCHANGED vals
     ELSE /\ AThrow
          /\ \/ UNCHANGED vals
             \/ /\ ATop \in Names
                /\ AKind(ATop).rows = AKind(ATop).cols
                /\ \E d \in Data : vals' = [vals EXCEPT ![ATop] = d]

AAssign(n) ==
  /\ Len(expr) = 1 /\ AKind(ATop).type = Named[n].type
  /\ IF AKind(ATop) = Named[n]
     THEN vals' = [vals EXCEPT ![n] = ADatum(ATop)] /\ expr' = <<>>
     ELSE AThrow /\ UNCHANGED vals

AAddAssign(n) ==
  /\ Len(expr) = 1 /\ AKind(ATop).type = Named[n].type
  /\ Named[n].type # "quaternion"
  /\ IF AKind(ATop) = Named[n]
     THEN vals' = [vals EXCEPT ![n] = Combine["add", @, ADatum(ATop)]]
          /\ expr' = <<>>
     ELSE AThrow /\ UNCHANGED vals

ASet(n) ==
  /\ Len(expr) = 1 /\ AKind(ATop).type = "matrix" /\ Named[n].type = "matrix"
  /\ AKind(ATop).rows <= Named[n].rows /\ AKind(ATop).cols <= Named[n].cols
  /\ vals' = [vals EXCEPT ![n] = Combine["set", @, ADatum(ATop)]]
  /\ expr' = <<>>

\* Copy construction of n; the matrix one copies an uninitialised number of
\* elements, so it promises nothing about the contents.
ACopy(n) ==
  /\ Len(expr) = 1 /\ AKind(ATop) = Named[n]
  /\ IF Named[n].type = "matrix"
     THEN \E d \in Data : vals' = [vals EXCEPT ![n] = d]
     ELSE vals' = [vals EXCEPT ![n] = ADatum(ATop)]
  /\ expr' = <<>>

APrint == Len(expr) = 1 /\ expr' = <<>> /\ UNCHANGED vals

ASkew(n, d) == /\ Len(expr) < MaxDepth
               /\ IF n \in {3, 4} THEN AYield(0, Mat(n, n), d) ELSE AThrow
               /\ UNCHANGED vals

ANext ==
  \/ \E n \in Names : AUse(n) \/ AAssign(n) \/ AAddAssign(n) \/ ASet(n) \/ ACopy(n)
  \/ \E r, c \in Dims, d \in Data : AMake(r, c, d)
  \/ \E n \in Dims, d \in Data : ASkew(n, d)
  \/ \E op \in BinOps : ABinary(op)
  \/ ADot \/ AScale \/ ATrans \/ AConj \/ AInv \/ AInvInPlace \/ APrint

ASpec == AInit /\ [][ANext]_avars
=============================================================================
