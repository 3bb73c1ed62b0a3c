------------------------------ MODULE Fractions ------------------------------
(* Exact fractions <<numerator, denominator>> in lowest terms, in place of *)
(* the floating-point numbers of the code.                                 *)
EXTENDS Integers

GCD[p \in Nat \X Nat] == IF p[2] = 0 THEN p[1] ELSE GCD[<<p[2], p[1] % p[2]>>]

Size(i) == IF i < 0 THEN -i ELSE i

Frac(n, d) ==
  LET g == GCD[<<Size(n), Size(d)>>]
  IN  IF d < 0 THEN <<-n \div g, -d \div g>> ELSE <<n \div g, d \div g>>

Whole(i) == <<i, 1>>

Plus(x, y)  == Frac(x[1] * y[2] + y[1] * x[2], x[2] * y[2])
Minus(x, y) == Frac(x[1] * y[2] - y[1] * x[2], x[2] * y[2])
Times(x, y) == Frac(x[1] * y[1], x[2] * y[2])
Over(x, y)  == Frac(x[1] * y[2], x[2] * y[1])

\* |x| >= |y|
AtLeast(x, y) == Size(x[1]) * y[2] >= Size(y[1]) * x[2]
=============================================================================
