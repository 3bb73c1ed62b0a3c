----------------------------- MODULE MCFilters -----------------------------
(* Instances of Navigation and of KalmanCpp for TLC, over the integers modulo *)
(* 7: the program of nav/ and a program of one filter, side by side.  They    *)
(* share the C++ filters and no state, so a behaviour moves one of them and   *)
(* leaves the other as it starts.                                             *)
EXTENDS Navigation, KalmanCpp

-----------------------------------------------------------------------------
(* Navigation *)

\* gps2ecef is one-to-one.
Positions == [g \in 0..2 |-> (2 + 3 * g) % Prime]

\* Records at rest: with the acceleration that balances at their position.
Standing(g, turn, tilt, w) ==
  [a |-> CHOOSE a \in F : Model([a |-> a, w |-> w, turn |-> turn], Rest(Positions[g]))[1] = 0,
   gps |-> g, turn |-> turn, tilt |-> tilt, w |-> w, yaw |-> 4]
Moving == {[a |-> 2, gps |-> 0, turn |-> 6, tilt |-> 1, w |-> 3, yaw |-> 0],
           [a |-> 5, gps |-> 2, turn |-> 1, tilt |-> 6, w |-> 0, yaw |-> 2]}

DataLine(r) == [is |-> "data", record |-> r, newline |-> TRUE]
Note        == [is |-> "note", newline |-> TRUE]
Unended(l)  == [l EXCEPT !.newline = FALSE]
Level       == DataLine(Standing(1, 1, 5, 0))
Lines       == {DataLine(r) : r \in Moving} \cup {Level, DataLine(Standing(1, 6, 5, 1)), Note}

\* Files of a vehicle that turns on the spot, its tilts 1, 3, 5, 0 and 2.
Turning  == {[i \in 1..6 |-> DataLine(Standing(1, turn[i], (2 * i + 4) % Prime, 1))] :
               turn \in [1..6 -> {1, 6}]}

\* After a first line that no turn uses: every file of up to five lines, files
\* that turn on the spot, and files whose last line lacks its newline.
Contents ==
  {<<Level>> \o ls : ls \in UNION {[1..k -> Lines] : k \in 0..5}}
    \cup {<<Note>> \o ls : ls \in Turning}
    \cup {Append(ls, Unended(Level)) : ls \in UNION {[1..k -> Lines] : k \in 0..2}}
    \cup {<<>>}
Unset == {[a |-> 1, gps |-> 0, turn |-> 1, tilt |-> 0, w |-> 2, yaw |-> 0],
          [a |-> 6, gps |-> 2, turn |-> 6, tilt |-> 4, w |-> 5, yaw |-> 1]}

-----------------------------------------------------------------------------
(* KalmanCpp *)

Column(v, w) == <<<<v>>, <<w>>>>

Systems    == {<<<<1, 2>>, <<0, 3>>>>, <<<<2, 5>>, <<4, 1>>>>}
Inputs     == {Column(1, 2)}
Outputs    == {<<<<1, 2>>, <<3, 1>>>>, Diag(1, 0)}
Quadratics == {[a |-> <<<<0, 1>>, <<3, 2>>>>, q |-> Column(1, 4), b |-> Column(2, 1)]}
Noises     == {Diag(1, 2), <<<<2, 1>>, <<1, 3>>>>}
\* The last one is singular.
NoisesOfR  == {<<<<3, 1>>, <<1, 4>>>>, Diag(2, 5), Diag(3, 0)}
Firsts     == {Zero, <<<<1, 4>>, <<4, 6>>>>}
Observed   == {Column(1, 5), Column(4, 2)}
Efforts    == {<<<<3>>>>}

-----------------------------------------------------------------------------
(* One of the two *)

Unmoved == /\ class = "cDKF" /\ f = [a |-> <<<<0, 1>>, <<3, 2>>>>, q |-> Column(1, 4), b |-> Column(2, 1)]
           /\ filter = init(<<<<1, 2>>, <<0, 3>>>>, Column(1, 2), Diag(1, 0))

MCInit == Init /\ FilterInit /\ (file = <<>> \/ Unmoved)

NavigationStep == fate = "new" /\ Next /\ UNCHANGED filterVars
FilterStep     == file = <<>> /\ pc = "open" /\ FilterNext /\ UNCHANGED vars

\* A program of one filter may stop after its updates.
FilterStops    == calls = MaxCalls /\ UNCHANGED <<vars, filterVars>>

MCNext == NavigationStep \/ FilterStep \/ FilterStops

MCSpec == MCInit /\ [][MCNext]_<<vars, filterVars>>
=============================================================================
