------------------------------ MODULE MCLibraries ------------------------------
(***************************************************************************)
(* The libraries for TLC, side by side: the cache of the C++ matrix and    *)
(* its inverse, the C filters and the path files.  Expressions see only    *)
(* whether a matrix is singular, the elimination uses no temporary, and    *)
(* the others share no state: a behaviour moves one of the four and leaves *)
(* the others as they start.                                               *)
(***************************************************************************)
EXTENDS MCTempCache, MCGaussJordan, MCKalmanC, PathFile

Point == <<"a", COMMA, COMMA, "b", COMMA, COMMA, COMMA, "1", COMMA>>   \* three of six fields empty

\* No point, one and two; one more point than the count says; no comma at the
\* end; the last point short of fields; a point missing.
MCPaths == { <<"0", COMMA>>,
             <<"1", COMMA>> \o Point,
             <<"2", COMMA>> \o Point \o Point,
             <<"1", COMMA>> \o Point \o Point,
             <<"1", COMMA>> \o Front(Point),
             <<"2", COMMA>> \o Point \o <<"a", COMMA>>,
             <<"2", COMMA>> \o Point }

MCStale == {HASH, NL, NUL, "1", "a"}

-----------------------------------------------------------------------------
\* An empty cache, a matrix not inverted yet, a filter not created and a file
\* not written: what the others leave as it is.
Three    == [j \in Place |-> [k \in Place |-> IF j = k THEN 3 ELSE 0]]
NoObject == cache = <<>> /\ stack = <<>>
NoMatrix == pc = "reduce" /\ i = 0 /\ a0 = Three
NoFilter == fate = "none" /\ flags = [model |-> "linear", filter |-> "discrete", time |-> "disc"]
NoFile   == writer = "none"

LibrariesInit == /\ Init /\ InverseInit /\ KalmanInit /\ PathInit
                 /\ NoMatrix \/ NoFilter

CacheStep ==
  NoMatrix /\ NoFilter /\ NoFile /\ Next /\ UNCHANGED <<inverseVars, kalmanVars, pathVars>>
InverseStep ==
  NoObject /\ NoFilter /\ NoFile /\ InverseNext /\ UNCHANGED <<vars, kalmanVars, pathVars>>
FilterStep ==
  NoObject /\ NoMatrix /\ NoFile /\ KalmanNext /\ UNCHANGED <<vars, inverseVars, pathVars>>
PathStep ==
  NoObject /\ NoMatrix /\ NoFilter /\ PathNext /\ UNCHANGED <<vars, inverseVars, kalmanVars>>

LibrariesNext == CacheStep \/ InverseStep \/ FilterStep \/ PathStep

LibrariesSpec == LibrariesInit /\ [][LibrariesNext]_<<vars, inverseVars, kalmanVars, pathVars>>
=============================================================================
