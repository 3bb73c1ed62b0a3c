------------------------------- MODULE MaxLink -------------------------------
(***************************************************************************)
(* The ASCII message link of clib: sendMAXasciiMsg cuts a message into     *)
(* packets and writes each one, framed by STX and ETX, to a serial port;   *)
(* recMAXasciiMsg finds a frame in the input buffer, checks it and hands   *)
(* header and data to its caller.  Several senders share the line.         *)
(*                                                                         *)
(* Symbols stand for bytes: STX, ETX, one data byte, the whole header, the *)
(* two digits of the checksum.  The line may lose or alter a character,    *)
(* and write() may write less than it was given.  Data may hold any byte;  *)
(* NUL, STX and ETX among them are not kept apart from those of the frame. *)
(*                                                                         *)
(* sent, got, last, asked and the field frame of a header are history.     *)
(***************************************************************************)
EXTENDS Integers, SequencesExt

CONSTANTS Senders,
          Overflow,     \* DATA_OVERFLOW
          BufSize,      \* the receiver's buffer, in symbols
          Modulus,      \* of the checksum: 256 in the code
          Tired,        \* waitForData gives up after this many empty polls
          Faults,       \* what may go wrong: a subset of AllFaults
          Plans         \* bound: the messages programs send in a behaviour, by
                        \* sender, how often the receiver just waits, and how
                        \* many faults there are

\* "end" is the alteration of a data byte to ETX.
AllFaults == {"lose", "alter", "end", "cut"}

Bytes == 0..(Modulus - 1)
NUL       == 0
START_MSG == 2
END_MSG   == 3

ASSUME LinkAssumption ==
  /\ Plans \subseteq [calls : [Senders -> Seq(Seq(Bytes))], waits : Nat, faults : Nat]
  /\ Overflow \in Nat \ {0} /\ BufSize \in Nat \ {0, 1} /\ Modulus \in Nat \ (0..END_MSG)
  /\ Tired \in Nat
  /\ Faults \subseteq AllFaults

VARIABLES plan,     \* what is left of the plan
          out,      \* per sender: the message it is cutting up, or Idle
          wire,     \* symbols written and not yet arrived
          input,    \* symbols in the input buffer of the receiver's port
          pc,       \* where the receiver is
          nChars,   \* symbols it believes are left to read
          polls,    \* empty polls of the waitForData it is in
          c,        \* the last symbol it read
          wanted,   \* what a waitForResponse or waitForNdata is called for
          buffer,   \* symbols not yet copied to messageStr
          messageStr,  \* the frame under construction
          message,  \* the caller's structure
          ret,      \* what the last call of recMAXmsg returned
          faults, sent, got, last, asked

line     == <<wire, input, faults>>
receiver == <<pc, nChars, polls, c, wanted, buffer, messageStr, message, ret>>
history  == <<sent, got, last, asked>>
vars     == <<plan, out, line, receiver, history>>

FULL  == 0   \* dataStatus
START == 1
CONT  == 2
END   == 3

STX     == [is |-> "stx"]
ETX     == [is |-> "etx"]
Junk    == [is |-> "junk"]     \* what no sscanf field accepts
Nothing == [is |-> "nothing"]  \* a variable that is not read before it is set
Beyond  == -1                   \* what is no byte of a message: a header, a
                                \* checksum, or memory after the frame
Byte(v) == [is |-> "data", val |-> v]
Sum(v)  == [is |-> "sum", val |-> v]   \* the two digits of a checksum
Header(h) == [is |-> "head", head |-> h]
Idle    == [busy |-> FALSE]

\* The packet a header and data make, without the history in it.
Packet(h, d) == [src |-> h.src, dataStatus |-> h.dataStatus,
                 dataSize |-> h.dataSize, data |-> d]

\* What a symbol adds to the checksum; STX is taken out again.
Weight(x) == CASE x.is \in {"data", "sum"} -> x.val
               [] x.is = "head" -> x.head.dataStatus + x.head.dataSize
               [] x = STX       -> START_MSG
               [] x = ETX       -> END_MSG
               [] OTHER         -> 0

calculateByteChecksum(s) ==
  FoldLeft(LAMBDA sum, x : (sum + Weight(x)) % Modulus, 0, s)

-----------------------------------------------------------------------------
(* Sending *)

\* A byte on the line.
Symbol(v) == IF v = START_MSG THEN STX ELSE IF v = END_MSG THEN ETX ELSE Byte(v)
Encode(d) == [i \in DOMAIN d |-> Symbol(d[i])]

BadFrame(h, d) ==   \* without an end of message
  LET body == <<Header(h)>> \o Encode(d)
  IN  <<STX>> \o body \o <<Sum(calculateByteChecksum(body))>>

Frame(h, d) ==
  LET body == <<Header(h)>> \o Encode(d)
  IN  <<STX>> \o body \o <<Sum(calculateByteChecksum(body)), ETX>>

\* The number of packets for a message of this size.
Loop(size) == size \div Overflow
              + IF size % Overflow # 0 \/ size = 0 THEN 1 ELSE 0

\* A program calls sendMAXmsg.
SendMAXmsg(s) ==
  /\ out[s] = Idle /\ plan.calls[s] # <<>>
  /\ plan' = [plan EXCEPT !.calls[s] = Tail(@)]
  /\ LET m == Head(plan.calls[s])
     IN  /\ out' = [out EXCEPT ![s] =
              [busy |-> TRUE, data |-> m, index |-> 0, left |-> Len(m), count |-> 0,
               dataStatus |-> IF Len(m) <= Overflow THEN FULL ELSE START,
               dataSize |-> Len(m)]]
         /\ asked' = [asked EXCEPT ![s] = @ \o m]
  /\ UNCHANGED <<line, receiver, sent, got, last>>

\* What strncat takes of d: the bytes before a NUL.
String(d) == SubSeq(d, 1, Min({Len(d)} \cup {i - 1 : i \in {j \in DOMAIN d : d[j] = NUL}}))

BadChunk(o) == SubSeq(o.data, o.index + 1, Min({o.index + Overflow - 1, Len(o.data)}))

\* strncat of at most DATA_OVERFLOW bytes.
Chunk(o) == String(SubSeq(o.data, o.index + 1, Min({o.index + Overflow, Len(o.data)})))

BadAdvance(o) ==   \* >= for >
  LET left == o.left - Overflow
  IN  [o EXCEPT !.index = @ + Overflow, !.left = left, !.count = @ + 1,
                !.dataStatus = IF left >= Overflow THEN CONT ELSE END,
                !.dataSize = IF left > Overflow THEN Overflow ELSE left]

\* What the loop leaves for its next turn, if there is one.
Advance(o) ==
  LET left == o.left - Overflow
  IN  [o EXCEPT !.index = @ + Overflow, !.left = left, !.count = @ + 1,
                !.dataStatus = IF left > Overflow THEN CONT ELSE END,
                !.dataSize = IF left > Overflow THEN Overflow ELSE left]

\* One turn of the loop: a packet is written, the next one prepared.  The
\* number of bytes written is ignored.
SendPacket(s) ==
  LET o    == out[s]
      h    == [src |-> s, dataStatus |-> o.dataStatus, dataSize |-> o.dataSize,
               frame |-> Len(sent) + 1]
  IN  /\ o.busy
      /\ sent' = Append(sent, Packet(h, Chunk(o)))
      /\ \/ wire' = wire \o Frame(h, Chunk(o)) /\ UNCHANGED faults
         \/ /\ "cut" \in Faults /\ faults < plan.faults
            /\ faults' = faults + 1
            /\ \E k \in 0..(Len(Frame(h, Chunk(o))) - 1) :
                 wire' = wire \o SubSeq(Frame(h, Chunk(o)), 1, k)
      /\ out' = [out EXCEPT ![s] =
           IF o.count + 1 < Loop(Len(o.data))
           THEN Advance(o) ELSE Idle]
      /\ UNCHANGED <<plan, input, receiver, got, last, asked>>

-----------------------------------------------------------------------------
(* The line *)

\* What a symbol becomes when one character of it is lost, or altered.
Lost(x) ==
  CASE x.is = "head" -> {<<Junk>>} \cup
         {<<Header([x.head EXCEPT !.dataSize = n])>> : n \in {x.head.dataSize \div 2} \ {0}}
    [] x.is = "sum"  -> {<<Junk>>}
    [] OTHER         -> {<<>>}

Altered(x) ==
  CASE x.is = "head" -> {<<Junk>>, <<Header([x.head EXCEPT !.dataSize = @ + 1])>>}
    [] x.is = "sum"  -> {<<Junk>>, <<STX>>, <<Sum((x.val + 1) % Modulus)>>}
    [] x.is = "data" -> {<<Symbol(v)>> : v \in Bytes \ {x.val, END_MSG}}
    [] OTHER         -> {<<Byte(1)>>}

Ended(x) == IF x.is = "data" THEN {<<ETX>>} ELSE {}

\* The next symbol reaches the input buffer of the port.
Arrive ==
  /\ wire # <<>>
  /\ wire' = Tail(wire)
  /\ \/ input' = Append(input, wire[1]) /\ UNCHANGED faults
     \/ /\ faults < plan.faults /\ faults' = faults + 1
        /\ \E y \in (IF "lose" \in Faults THEN Lost(wire[1]) ELSE {})
                \cup (IF "alter" \in Faults THEN Altered(wire[1]) ELSE {})
                \cup (IF "end" \in Faults THEN Ended(wire[1]) ELSE {}) :
             input' = input \o y
  /\ UNCHANGED <<plan, out, receiver, history>>

-----------------------------------------------------------------------------
(* Receiving *)

\* The program calls recMAXmsg; recASCIImsg looks whether there is anything.
RecMAXmsg ==
  /\ pc = "idle"
  /\ IF input = <<>> THEN ret' = "error" /\ UNCHANGED pc
                     ELSE ret' = "none" /\ pc' = "find"
  /\ UNCHANGED <<plan, out, line, nChars, polls, c, wanted, buffer, messageStr, message, history>>

Return(r) == /\ ret' = r /\ pc' = "idle"
             /\ nChars' = 0 /\ polls' = 0 /\ c' = Nothing /\ wanted' = Nothing
             /\ buffer' = <<>> /\ messageStr' = <<>>

Starts(s) == {i \in DOMAIN s : s[i] = STX}

\* findStartMsg: everything up to the first STX is discarded.
FindStartMsg ==
  /\ pc = "find"
  /\ IF Starts(input) = {}
     THEN input' = <<>> /\ Return("error")
     ELSE /\ \E i \in Starts(input) :
               /\ \A j \in Starts(input) : i <= j
               /\ input' = SubSeq(input, i + 1, Len(input))
          /\ buffer' = <<STX>>
          /\ pc' = "begin"
          /\ UNCHANGED <<nChars, polls, c, wanted, messageStr, ret>>
  /\ UNCHANGED <<plan, out, wire, faults, message, history>>

BadBeginFrame ==   \* the count still includes STX
  /\ pc = "begin"
  /\ nChars' = Len(input) + 1
  /\ c' = Nothing
  /\ pc' = "read"
  /\ UNCHANGED <<plan, out, line, polls, wanted, buffer, messageStr, message, ret, history>>

\* nChars is set for the loop; c is not initialised, which matters only if
\* the first readBuf times out.
BeginFrame ==
  /\ pc = "begin"
  /\ nChars' = Len(input)
  /\ c' \in IF input = <<>> THEN {STX, ETX, Byte(1)} ELSE {Nothing}
  /\ pc' = "read"
  /\ UNCHANGED <<plan, out, line, polls, wanted, buffer, messageStr, message, ret, history>>

\* With the symbol just read, the buffer is full and goes to messageStr.
Full(s) == Len(s) + 1 = BufSize

\* The loop body once readBuf has returned with x in c.  nChars below zero is
\* as good as -1: it is not 0 again before 2^31 turns.
Got(x) ==
  LET restart == x = STX
      full    == ~restart /\ Full(buffer)
      left    == IF nChars <= 0 THEN -1 ELSE nChars - 1
  IN  /\ c' = x
      /\ nChars' = left
      /\ polls' = 0
      /\ buffer' = CASE restart -> <<STX>>
                     [] full    -> <<>>
                     [] OTHER   -> Append(buffer, x)
      /\ messageStr' = CASE restart -> <<>>
                         [] full    -> messageStr \o Append(buffer, x)
                         [] OTHER   -> messageStr
      /\ pc' = CASE x = ETX               -> "check"
                 [] x # ETX /\ left = 0 -> "wait"
                 [] x # ETX /\ left # 0 -> "read"
      /\ UNCHANGED <<wanted, message, ret>>

ReadBuf == /\ pc = "read" /\ input # <<>> /\ polls <= Tired
           /\ Got(input[1])
           /\ input' = Tail(input)
           /\ UNCHANGED <<plan, out, wire, faults, history>>

\* readBuf gave up, which nobody notices: the loop takes c once more.  (After
\* a header, c is a comma.)  A line so slow has a fault; once they are
\* used up, further copies of a data byte are not recorded.
ReadStale ==
  /\ pc = "read" /\ polls > Tired
  /\ IF c \in {STX, ETX} \/ faults < plan.faults
     THEN /\ Got(IF c.is = "head" THEN Byte(1) ELSE c)
          /\ faults' = IF c \in {STX, ETX} THEN faults ELSE faults + 1
     ELSE /\ polls' = 0 /\ nChars' = -1
          /\ UNCHANGED <<wanted, message, ret, pc, c, buffer, messageStr, faults>>
  /\ UNCHANGED <<plan, out, wire, input, history>>

BadPoll == /\ pc \in {"read", "wait"} /\ input = <<>> /\ polls < Tired
           /\ polls' = polls + 1
           /\ UNCHANGED <<plan, out, line, pc, nChars, c, wanted, buffer, messageStr, message, ret,
                          history>>

\* waitForData finds nothing and sleeps; data that arrive during the last
\* sleep come too late.
Poll == /\ pc \in {"read", "wait"} /\ input = <<>> /\ polls <= Tired
        /\ polls' = polls + 1
        /\ UNCHANGED <<plan, out, line, pc, nChars, c, wanted, buffer, messageStr, message, ret,
                       history>>

MoreData == /\ pc = "wait" /\ input # <<>> /\ polls <= Tired
            /\ nChars' = Len(input) /\ polls' = 0 /\ pc' = "read"
            /\ UNCHANGED <<plan, out, line, c, wanted, buffer, messageStr, message, ret, history>>

TimeOut == /\ pc = "wait" /\ polls > Tired
           /\ Return("error")
           /\ UNCHANGED <<plan, out, line, message, history>>

-----------------------------------------------------------------------------
(* checkMAXasciiMsg *)

\* The frame recASCIImsg hands over, without STX and ETX.
Body == LET s == messageStr \o buffer IN SubSeq(s, 2, Len(s) - 1)

BadVerified(body) == {TRUE}

\* Does the checksum agree with the last two characters before ETX?  Where
\* there is only a header, those are its last digit and comma.  When they are
\* no digits, chksum is not set, and anything may come of the comparison.
Verified(body) ==
  LET x    == body[Len(body)]
      rest == SubSeq(body, 1, Len(body) - 1)
  IN  CASE x.is \in {"data", "sum"} -> {x.val = calculateByteChecksum(rest)}
        [] x.is = "head" -> {x.head.dataSize % Modulus = x.head.dataStatus % Modulus}
        [] OTHER         -> BOOLEAN

\* memcpy of dataSize bytes (of DATA_OVERFLOW ones, from the first packet of
\* a longer message), whatever the frame holds.
DataOf(h, body) ==
  LET rest == Append(Tail(body), ETX)
      size == IF h.dataStatus = START THEN Overflow ELSE h.dataSize
  IN  [i \in 1..size |->
         CASE i <= Len(rest) /\ rest[i].is = "data" -> rest[i].val
           [] i <= Len(rest) /\ rest[i] = ETX       -> END_MSG
           [] OTHER                                 -> Beyond]

BadReject(m) ==   \* the data are freed first of all
  message' = [m EXCEPT !.data = <<>>] /\ Return("error") /\ UNCHANGED <<got, last>>

Reject(m) == message' = m /\ Return("error") /\ UNCHANGED <<got, last>>

CheckMAXasciiMsg ==
  /\ pc = "check"
  /\ IF Body = <<>>                       \* HEADER_MINIMUM
     THEN Reject(message)
     ELSE IF Body[1].is # "head"          \* sscanf assigns some of the fields
     THEN Reject([message EXCEPT !.head = Junk])
     ELSE \E ok \in Verified(Body) :
            LET h == Body[1].head
            IN  IF ~ok
                THEN Reject([message EXCEPT !.head = Body[1]])
                ELSE /\ message' = [head |-> Body[1], data |-> DataOf(h, Body)]
                     /\ got' = Append(got, Packet(h, DataOf(h, Body)))
                     /\ last' = h.frame
                     /\ Return("ok")
  /\ UNCHANGED <<plan, out, line, sent, asked>>

-----------------------------------------------------------------------------

(* Waiting without receiving *)

\* A program calls waitForResponse for a character, or waitForNdata for a
\* number of them (of symbols, here).
WaitFor(x) ==
  /\ pc = "idle" /\ plan.waits > 0
  /\ plan' = [plan EXCEPT !.waits = @ - 1]
  /\ pc' = "response" /\ wanted' = x /\ ret' = "none"
  /\ UNCHANGED <<out, line, nChars, polls, c, buffer, messageStr, message, history>>

WaitForNdata(n) ==
  /\ pc = "idle" /\ plan.waits > 0
  /\ plan' = [plan EXCEPT !.waits = @ - 1]
  /\ pc' = "ndata" /\ wanted' = [is |-> "count", val |-> n] /\ ret' = "none"
  /\ UNCHANGED <<out, line, nChars, polls, c, buffer, messageStr, message, history>>

Enough == pc = "ndata" /\ Len(input) >= wanted.val
NothingYet == \/ pc = "response" /\ input = <<>>
              \/ pc = "ndata" /\ ~Enough

\* A turn that finds nothing counts, and the last one ends the call.
AwaitMore ==
  /\ NothingYet
  /\ IF polls + 1 > Tired THEN Return("gave up")
     ELSE /\ polls' = polls + 1
          /\ UNCHANGED <<pc, nChars, c, wanted, buffer, messageStr, ret>>
  /\ UNCHANGED <<plan, out, line, message, history>>

\* waitForResponse throws characters away up to the one it waits for, the STX
\* of a packet among them; waitForNdata leaves them all.
Awaited ==
  /\ \/ /\ pc = "response" /\ input # <<>>
        /\ input' = Tail(input)
        /\ IF input[1] = wanted THEN Return("arrived")
           ELSE UNCHANGED <<pc, nChars, polls, c, wanted, buffer, messageStr, ret>>
     \/ Enough /\ Return("arrived") /\ UNCHANGED input
  /\ UNCHANGED <<plan, out, wire, faults, message, history>>

-----------------------------------------------------------------------------

Init == /\ plan \in Plans
        /\ out = [s \in Senders |-> Idle]
        /\ wire = <<>> /\ input = <<>> /\ faults = 0
        /\ pc = "idle" /\ nChars = 0 /\ polls = 0 /\ c = Nothing /\ wanted = Nothing
        /\ buffer = <<>> /\ messageStr = <<>>
        /\ message = [head |-> Nothing, data |-> <<>>]
        /\ ret = "none"
        /\ sent = <<>> /\ got = <<>> /\ last = 0 /\ asked = [s \in Senders |-> <<>>]

Receiver == \/ FindStartMsg \/ BeginFrame \/ ReadBuf \/ ReadStale
            \/ Poll \/ MoreData \/ TimeOut \/ CheckMAXasciiMsg
            \/ AwaitMore \/ Awaited

Next == \/ \E s \in Senders : SendPacket(s) \/ SendMAXmsg(s)
        \/ Arrive
        \/ RecMAXmsg
        \/ \E x \in {STX, ETX} : WaitFor(x)
        \/ \E n \in 1..2 : WaitForNdata(n)
        \/ Receiver

\* A receiver inside recMAXmsg keeps running, and a line keeps transmitting.
Fairness == WF_vars(Receiver) /\ WF_vars(Arrive)

Spec == Init /\ [][Next]_vars /\ Fairness

-----------------------------------------------------------------------------
(* Properties *)

\* Whatever the receiver believes is left to read is in the port's buffer: it
\* blocks in readBuf only when it has stopped counting.
CountIsTrue == pc = "read" /\ nChars > 0 => Len(input) >= nChars

\* No NUL among what a sender was asked to send: data that are one string.
Text(s) == NUL \notin Range(asked[s])

\* The packets of a sender, joined, are what it was asked to send, less what it
\* still has to send; no byte is sent twice, left out or sent early.
PartOf(s, p)    == IF p.src = s THEN p.data ELSE <<>>
Parts(ps, s)    == [i \in DOMAIN ps |-> PartOf(s, ps[i])]
DataOfSender(s) == FlattenSeq(Parts(sent, s))
Unsent(s) == IF out[s].busy THEN SubSeq(out[s].data, out[s].index + 1, Len(out[s].data))
             ELSE <<>>
NothingLost(s) == asked[s] = DataOfSender(s) \o Unsent(s)

\* This holds for data without NUL, however senders interleave.
NothingLostBySender == \A s \in Senders : Text(s) => NothingLost(s)

\* "the data field could contain a binary type (not just an ASCII string), or a
\* 0x00 = \0" (sendRecMsgLib.c:182): nothing is lost of such data either.
\* Behind a NUL it is: strncat takes nothing more, though the size counts it.
NothingLostOfBinary == \A s \in Senders : NothingLost(s)

\* The packets of a sender delimit its messages, so that a receiver can put
\* them together, whatever others send in between: a packet announces its own
\* size, the first of several that of the message; CONT and END follow on START
\* and CONT, nothing else does, and the last one, marked END, completes exactly
\* this size (of data without NUL, as above).
Of(ps, s) == {i \in DOMAIN ps : ps[i].src = s}

\* Packet i begins a message that is not complete before packet j.
Begun(ps, s, i, j) ==
  /\ i < j /\ ps[i].dataStatus = START
  /\ \A k \in Of(ps, s) : i < k /\ k < j => ps[k].dataStatus = CONT

SizeOf(ps, s, i, j) == Len(FlattenSeq(Parts(SubSeq(ps, i, j), s)))

Fits(ps, s, j) ==
  /\ ps[j].dataStatus # START => ps[j].dataSize = Len(ps[j].data)
  /\ ps[j].dataStatus \in {CONT, END} => \E i \in Of(ps, s) : Begun(ps, s, i, j)
  /\ \A i \in Of(ps, s) : Begun(ps, s, i, j) =>
       /\ ps[j].dataStatus \in {CONT, END}
       /\ ps[j].dataStatus = END <=> SizeOf(ps, s, i, j) = ps[i].dataSize

Delimited(ps, s) == \A j \in Of(ps, s) : Fits(ps, s, j)

PacketsDelimit == \A s \in Senders : Text(s) => Delimited(sent, s)

\* A packet that its frame carries whole: as long as it says, and its data no
\* bytes that begin or end a frame.
PacketSet == [src : Senders, dataStatus : FULL..END, dataSize : Nat, data : Seq(Bytes)]
Fitting(p) == Len(p.data) = IF p.dataStatus = START THEN Overflow ELSE p.dataSize
Sound == {p \in PacketSet : Fitting(p) /\ Range(p.data) \cap {START_MSG, END_MSG} = {}}

\* Accepted packets are sent packets, in order, none twice, and their data
\* unchanged if the packet was sound.
Link == INSTANCE LossyLink WITH Packets <- PacketSet

ImplementsLink == Link!LSpec

\* The caller's structure: when the call returned OK, header and data are those
\* of one packet that was sent, the data if it was sound; a frame that is
\* rejected has left its header there, but never touches the data of the packet
\* accepted before.
CallersMessage ==
  /\ ret = "ok" => Link!Arrived(sent[last], Packet(message.head.head, message.data))
  /\ message.data = IF got = <<>> THEN <<>> ELSE Last(got).data

\* "Upon successful completion, OK is returned.  Otherwise, ERROR is
\* returned." (sendRecMsgLib.c:360): every call returns.
CallsReturn == pc # "idle" ~> pc = "idle"

\* It does on a line without faults, however senders interleave,
FaultlessCallsReturn == plan.faults = 0 => CallsReturn

\* and elsewhere, unless it found STX with nothing after it.
CountingCallsReturn == (pc # "idle" /\ nChars >= 0) ~> (pc = "idle" \/ nChars < 0)
=============================================================================
