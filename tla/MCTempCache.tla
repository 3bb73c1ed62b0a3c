---------------------------- MODULE MCTempCache ----------------------------
(* An instance of TempCache for TLC. *)
EXTENDS TempCache

\* One bit of contents: enough to tell the value an operand should have from
\* that of any other object.  0 is the singular matrix.
MCData     == {0, 1}
MCSingular == {0}
MCCombine  == [x \in BinOps \X MCData \X MCData |->
                 IF x[1] = "mul" THEN x[2] * (1 - x[3]) ELSE (x[2] + x[3]) % 2]
MCApply    == [x \in UnOps \X MCData |-> 1 - x[2]]

CONSTANTS matrix, vector, quat

MCNamed == [n \in {matrix, vector, quat} |->
              CASE n = matrix -> Mat(1, 1) [] n = vector -> Vec(2) [] n = quat -> Quat]

Uses(S) == \E n \in S : user[n] # Zero \/ n \in {stack[i] : i \in DOMAIN stack}

\* Bounds: expressions over one 1x1 matrix are explored while the cache holds at
\* most MaxCache temporaries, enough for the five an inversion loses when it
\* throws and five more; expressions over several shapes while it holds at most
\* MaxMixed, and until one is lost.
CONSTANTS MaxCache, MaxMixed

OneShape == /\ ~Uses({vector, quat})
            /\ \A i \in DOMAIN cache : cache[i].kind \in {Mat(1, 1), Arr(1)}
            /\ Len(cache) <= MaxCache

ManyShapes == ~Uses({matrix}) /\ Len(cache) <= MaxMixed /\ lost = {}

Explored == OneShape \/ ManyShapes
=============================================================================
