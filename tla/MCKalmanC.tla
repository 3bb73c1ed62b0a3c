------------------------------ MODULE MCKalmanC ------------------------------
(* Instances of KalmanC for TLC, over the integers modulo 7. *)
EXTENDS KalmanC

Column(x, y) == <<<<x>>, <<y>>>>

Linears    == {[a |-> <<<<1, 2>>, <<0, 3>>>>, b |-> Column(1, 2)],
               [a |-> <<<<2, 5>>, <<4, 1>>>>, b |-> Column(0, 3)]}
Quadratics == {[a |-> <<<<0, 1>>, <<3, 2>>>>, q |-> Column(1, 4), b |-> Column(2, 1)]}
\* Not symmetric, so that H and H' differ, and one that measures one state only.
Outputs    == {<<<<1, 2>>, <<3, 1>>>>, Diag(1, 0)}
Noises     == {<<<<2, 1>>, <<1, 3>>>>}
Noise      == {<<<<3, 1>>, <<1, 4>>>>}
Measured   == {Column(1, 5), Column(4, 2)}
Efforts    == {<<<<3>>>>}
=============================================================================
