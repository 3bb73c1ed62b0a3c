------------------------------ MODULE MCMaxLink ------------------------------
(* Instances of MaxLink for TLC. *)
EXTENDS MaxLink

CONSTANTS s1, s2

One(m)    == [s \in Senders |-> IF s = s1 THEN m ELSE <<>>]
Two(m, n) == [s \in Senders |-> IF s = s1 THEN <<m>> ELSE <<n>>]

Awkward == {m \in [1..3 -> {NUL, 1, START_MSG, END_MSG}] : \E i \in 1..3 : m[i] # 1}

\* With an Overflow of 2: FULL, empty and full; START and a short END; START,
\* CONT and a full END.  On a line with one fault a sender sends three packets;
\* on a line without, two senders send up to two each, a receiver that waits
\* twice gets one or two, and data hold NUL, STX and ETX at every place.
MCPlans ==
       [calls : {One(<< <<>>, <<4, 1>>, <<>> >>), One(<< <<1, 4, 1>>, <<4, 1>> >>),
                 One(<< <<4>>, <<1, 4, 1>> >>), One(<< <<1, 4, 4, 1, 4, 1>> >>)},
        waits : {0}, faults : {1}]
  \cup [calls : {Two(<<4>>, <<1, 4, 1>>), Two(<<1, 4, 1>>, <<4, 4, 1>>)},
        waits : {0}, faults : {0}]
  \cup [calls : {One(<< <<4>>, <<1, 4, 1>> >>)}, waits : {2}, faults : {0}]
  \cup [calls : {One(<<m>>) : m \in Awkward}, waits : {0}, faults : {0}]

BinaryPlans == [calls : {One(<< <<1, NUL, 4>> >>)}, waits : {0}, faults : {0}]

OnePacketPlans == [calls : {One(<< <<>>, <<4, 1>> >>)}, waits : {0}, faults : {1}]
=============================================================================
