------------------------------- MODULE Shapes -------------------------------
(***************************************************************************)
(* The objects of mathlib: their type and dimensions, the operators that   *)
(* combine them, the overloads C++ resolves statically and the dimension   *)
(* check each operator makes at run time (mathlib/cMathlib.h, cMatrix.cpp, *)
(* cVector.cpp, cQuaternion.cpp).                                          *)
(*                                                                         *)
(* The numbers in an object are one value of Data; Combine and Apply are   *)
(* what the binary and unary operators compute, left to the instance.      *)
(***************************************************************************)
EXTENDS Naturals

CONSTANTS Data,      \* the possible contents of an object
          Zero,      \* the contents of a freshly constructed one
          Singular,  \* the contents for which Gauss-Jordan meets a zero pivot
          Combine,   \* Combine[op, x, y]: what a binary operator computes
          Apply      \* Apply[op, x]: what a unary operator computes

BinOps == {"add", "mul", "outer", "cross", "set"}
UnOps  == {"scale", "trans", "conj", "inv"}

ASSUME DataAssumption ==
  /\ Zero \in Data
  /\ Singular \subseteq Data
  /\ Combine \in [BinOps \X Data \X Data -> Data]
  /\ Apply \in [UnOps \X Data -> Data]

Types == {"matrix", "vector", "quaternion", "array"}
Kinds == [type : Types, rows : Nat, cols : Nat]

Mat(r, c) == [type |-> "matrix", rows |-> r, cols |-> c]
Vec(n)    == [type |-> "vector", rows |-> n, cols |-> 1]
Arr(n)    == [type |-> "array", rows |-> n, cols |-> 1]
Quat      == [type |-> "quaternion", rows |-> 4, cols |-> 1]

\* The overloads the compiler finds for  a op b; "add" is both + and -.
Overloads(op) ==
  CASE op = "add"               -> {<<"matrix", "matrix">>, <<"vector", "vector">>}
    [] op = "mul"               -> {<<"matrix", "matrix">>, <<"matrix", "vector">>,
                                    <<"quaternion", "quaternion">>}
    [] op \in {"outer","cross"} -> {<<"vector", "vector">>}
    [] OTHER                    -> {}

\* The ML_CHECK test: an operator throws a cMLError when it is false.
Conforms(op, k, l) ==
  CASE op = "add"   -> k.rows = l.rows /\ k.cols = l.cols
    [] op = "mul"   -> k.type = "quaternion" \/ k.cols = l.rows
    [] op = "outer" -> k.rows = l.rows
    [] op = "cross" -> k.rows = 3 /\ l.rows = 3
    [] OTHER        -> FALSE

ResultKind(op, k, l) ==
  CASE op = "mul" /\ k.type = "matrix" -> [l EXCEPT !.rows = k.rows]
    [] op = "outer"                    -> Mat(k.rows, k.rows)
    [] OTHER                           -> k
=============================================================================
