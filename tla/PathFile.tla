------------------------------- MODULE PathFile -------------------------------
(***************************************************************************)
(* textFileLib.c: pathFileWrite stores a path, a text of a number of       *)
(* points and six fields for each, one point to a line, and pathFileRead   *)
(* puts the lines together again.  The stream hands what was printed to    *)
(* the file in pieces, between which others read it, and a writer that     *)
(* dies leaves what it has handed over.                                    *)
(*                                                                         *)
(* Texts are sequences of characters; the comments' wording is left out.   *)
(***************************************************************************)
EXTENDS Integers, Sequences, SequencesExt, FiniteSetsExt

CONSTANTS Paths,      \* the paths that are written
          Stale,      \* what a local variable c may hold before it is read
          MaxNotes    \* bound: comment lines added by hand

VARIABLES path,       \* the path of the last pathFileWrite
          writer,     \* "none", "open", "closed", "dead", or "wild": outside path
          pending,    \* printed and not yet in the file
          disk,       \* the file
          notes,      \* comment lines added
          result      \* of the last call of a reader

pathVars == <<path, writer, pending, disk, notes, result>>

\* Characters are named by strings.
NL    == "newline"
NUL   == "nul"
COMMA == "comma"
HASH  == "hash"
Digits == <<"0", "1", "2", "3", "4", "5", "6", "7", "8", "9">>
Comment == <<HASH, NL>>

\* A path begins with the number of its points, and there is no '#', no newline
\* and no '\0' in it.
ASSUME PathAssumption ==
  /\ \A p \in Paths : /\ p \in Seq(STRING) /\ p # <<>> /\ p[1] \in Range(Digits)
                      /\ Range(p) \cap {HASH, NL, NUL} = {}
  /\ Stale \subseteq STRING

\* The number at the front of a text, as %d reads it, and -1 if there is none.
Number(text) ==
  LET n == CHOOSE k \in 0..Len(text) :
             /\ \A j \in 1..k : text[j] \in Range(Digits)
             /\ k < Len(text) => text[k + 1] \notin Range(Digits)
      digit(d) == CHOOSE v \in 0..9 : Digits[v + 1] = d
      value[k \in 0..n] == IF k = 0 THEN 0 ELSE 10 * value[k - 1] + digit(text[k])
  IN  IF n = 0 THEN -1 ELSE value[n]

-----------------------------------------------------------------------------
(* Writing *)

\* delimiterCount: the index after the count-th comma from i on, or that of the
\* '\0'.  The loop looks for '\0' only after it has passed a character, so that
\* it must not begin there.
delimiterCount(text, count, i) ==
  LET ends == {j \in i..Len(text) :
                 text[j] = COMMA /\ Cardinality({k \in i..j : text[k] = COMMA}) = count}
  IN  IF ends = {} THEN Len(text) + 1 ELSE 1 + Min(ends)

\* Text and index after k points.
BadPrinted(p) ==   \* the comma that ends a point is left for the next
  LET from == delimiterCount(p, 1, 1)
      points[k \in 0..Number(p)] ==
        IF k = 0 THEN [text  |-> Comment \o SubSeq(p, 1, from - 1) \o <<NL>> \o Comment,
                       index |-> from, wild |-> FALSE]
        ELSE LET l == points[k - 1]
                 i == delimiterCount(p, 6, l.index)
             IN  [text  |-> l.text \o SubSeq(p, l.index, i - 2) \o <<NL>>,
                  index |-> i, wild |-> l.wild \/ l.index > Len(p)]
  IN  points[Number(p)]

Printed(p) ==
  LET from == delimiterCount(p, 1, 1)
      points[k \in 0..Number(p)] ==
        IF k = 0 THEN [text  |-> Comment \o SubSeq(p, 1, from - 1) \o <<NL>> \o Comment,
                       index |-> from, wild |-> FALSE]
        ELSE LET l == points[k - 1]
                 i == delimiterCount(p, 6, l.index)
             IN  [text  |-> l.text \o SubSeq(p, l.index, i - 1) \o <<NL>>,
                  index |-> i, wild |-> l.wild \/ l.index > Len(p)]
  IN  points[Number(p)]

-----------------------------------------------------------------------------
(* Reading *)

\* At the end of the file the character read last is stored once more; c is
\* what the variable holds if none was read.
readLine(f, i, c) ==
  LET ends == {j \in i..Len(f) : f[j] = NL}
  IN  CASE i > Len(f) -> [line |-> <<c>>, next |-> i]
        [] i <= Len(f) /\ ends = {} ->
             [line |-> SubSeq(f, i, Len(f)) \o <<f[Len(f)]>>, next |-> Len(f) + 1]
        [] ends # {} -> [line |-> SubSeq(f, i, Min(ends)), next |-> Min(ends) + 1]

\* Lines are read until one does not begin with a character of skipped; after
\* the end of the file all lines are alike.
Skip(f, i, c, skipped) ==
  LET from[j \in i..(Len(f) + 1)] ==
        LET l == readLine(f, j, c)
        IN  IF l.line[1] \notin skipped THEN l
            ELSE IF j <= Len(f) THEN from[l.next]
            ELSE [line |-> <<>>, next |-> 0]   \* for ever
  IN  from[i]

BadReadComments(f, c) ==   \* one comment is passed, not all
  LET l == readLine(f, 1, c)
      m == IF l.line[1] \in {HASH, NL} THEN readLine(f, l.next, c) ELSE l
  IN  [is |-> "line", text |-> m.line]

readComments(f, c) ==
  LET l == Skip(f, 1, c, {HASH, NL})
  IN  [is |-> IF l.next = 0 THEN "nothing" ELSE "line", text |-> l.line]

BadStripped(line) ==   \* only a newline is stripped
  IF Last(line) = NL THEN Front(line) ELSE line

\* line[strlen(line)-1] = '\0'
Stripped(line) == Front(line)

\* An empty line is stripped of the byte before it, and a count that is not
\* there is whatever the variable holds: both "wild".
pathFileRead(f, c) ==
  LET head  == Skip(f, 1, c, {HASH})
      count == Number(head.line)
      first == [is |-> "path", text |-> Stripped(head.line), next |-> head.next]
      more(p) ==   \* p and one line
        LET l == Skip(f, p.next, c, {HASH})
        IN  CASE p.is # "path" -> p
              [] p.is = "path" /\ l.next = 0 -> [p EXCEPT !.is = "loops"]
              [] p.is = "path" /\ l.next # 0 /\ l.line[1] = NUL -> [p EXCEPT !.is = "wild"]
              [] OTHER -> [is |-> "path", text |-> p.text \o Stripped(l.line), next |-> l.next]
      lines[k \in 0..count] == IF k = 0 THEN first ELSE more(lines[k - 1])
  IN  CASE head.next = 0 -> [is |-> "loops", text |-> <<>>]
        [] head.next # 0 /\ count = -1 -> [is |-> "wild", text |-> <<>>]
        [] OTHER -> [is |-> lines[count].is, text |-> lines[count].text]

-----------------------------------------------------------------------------
NoResult == [is |-> "none", text |-> <<>>]

PathInit == /\ path = <<>> /\ writer = "none" /\ pending = <<>>
            /\ disk = <<>> /\ notes = 0 /\ result = NoResult

\* fopen(filename, "w") empties the file.
pathFileWrite(p) ==
  /\ writer # "open"
  /\ path' = p /\ disk' = <<>> /\ notes' = 0 /\ result' = NoResult
  /\ writer'  = IF Printed(p).wild THEN "wild" ELSE "open"
  /\ pending' = IF Printed(p).wild THEN <<>> ELSE Printed(p).text

\* The stream writes some of what was printed; fclose, all of it.
Flush(n) ==
  /\ writer = "open"
  /\ disk' = disk \o SubSeq(pending, 1, n)
  /\ pending' = SubSeq(pending, n + 1, Len(pending))
  /\ writer' = IF pending' = <<>> THEN "closed" ELSE "open"
  /\ result' = NoResult
  /\ UNCHANGED <<path, notes>>

Crash ==
  /\ writer = "open"
  /\ writer' = "dead" /\ pending' = <<>>
  /\ UNCHANGED <<path, disk, notes, result>>

\* Somebody adds a comment line to a file that is complete.
Note(i) ==
  /\ writer = "closed" /\ notes < MaxNotes
  /\ i > 1 => disk[i - 1] = NL
  /\ disk' = SubSeq(disk, 1, i - 1) \o <<HASH, COMMA, NL>> \o SubSeq(disk, i, Len(disk))
  /\ notes' = notes + 1 /\ result' = NoResult
  /\ UNCHANGED <<path, writer, pending>>

\* A reader asks the file for more whenever its buffer is used up, until it is
\* told that there is no more.  As a file only grows while it is written, what
\* it has got by then is the file as it was when it asked last: one step.  A
\* file that is written anew, or edited, while somebody reads it is left out;
\* the reader may then get a mixture of the two.
Read ==
  /\ writer \notin {"none", "wild"}
  /\ \E c \in Stale : result' \in {pathFileRead(disk, c), readComments(disk, c)}
  /\ UNCHANGED <<path, writer, pending, disk, notes>>

PathNext == \/ \E p \in Paths : pathFileWrite(p)
            \/ \E n \in 1..Len(pending) : Flush(n)
            \/ Crash
            \/ \E i \in 1..Len(disk) : Note(i)
            \/ Read

PathSpec == PathInit /\ [][PathNext]_pathVars

-----------------------------------------------------------------------------
(* Properties *)

Fields(p) == Cardinality({i \in DOMAIN p : p[i] = COMMA}) + (IF Last(p) = COMMA THEN 0 ELSE 1) - 1
HasItsPoints(p) == p # <<>> /\ Fields(p) > 6 * (Number(p) - 1)

\* The path up to the last field of its last point.
Counted(p) ==
  LET ends == {i \in DOMAIN p : Cardinality({k \in 1..i : p[k] = COMMA}) = 1 + 6 * Number(p)}
  IN  IF ends = {} THEN p ELSE SubSeq(p, 1, Min(ends))

\* The lines of a file that are not comments, begun or whole.
Begun(f) == Cardinality({i \in DOMAIN f : (i = 1 \/ f[i - 1] = NL) /\ f[i] # HASH})

\* A path with the points it announces, its last field with or without a
\* comma, comes back from a file that was closed as it was stored, without what
\* lies beyond its last point, whatever comments were put between the lines and
\* whatever the reader's variables hold; the writer does not run over its end.
RoundTrip ==
  HasItsPoints(path) =>
    /\ writer # "wild"
    /\ (writer = "closed" /\ result.is \in {"path", "wild", "loops"}) =>
         result = [is |-> "path", text |-> Counted(path)]

\* Whoever reads between two pieces of the file, or reads what a dead writer
\* has left, gets the front of the path and nothing that is not in it, though a
\* last line that is cut has its last character twice.  Only if a whole line is
\* missing may the reader go astray: loop, or use what it never read.  (The
\* file is not written anew during the read.)
TornFile ==
  /\ result.is = "path" => IsPrefix(result.text, Counted(path))
  /\ result.is \in {"wild", "loops"} => Begun(disk) < 1 + Number(path)

\* readComments returns the first line that is no comment as soon as it has
\* begun, with or without its newline.
FirstLine ==
  Begun(disk) > 0 =>
    /\ result.is # "nothing"
    /\ result.is = "line" => IsPrefix(Front(result.text), path)
=============================================================================
