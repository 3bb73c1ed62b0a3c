------------------------------ MODULE LossyLink ------------------------------
(***************************************************************************)
(* What a user of sendMAXmsg and recMAXmsg may count on: packets can be    *)
(* lost, but those received are packets that were sent, in the order in    *)
(* which they were sent, and none is received twice.  The data of sound    *)
(* packets arrive unchanged.                                               *)
(***************************************************************************)
EXTENDS Naturals, Sequences

CONSTANTS Packets,   \* records with a field data
          Sound      \* those whose data arrive unchanged

VARIABLES sent,   \* the packets written to the port, in order
          got,    \* the packets a receiver accepted, in order
          last    \* the position in sent of the last one it accepted

lvars == <<sent, got, last>>

LInit == sent = <<>> /\ got = <<>> /\ last = 0

\* A packet is written after all the others.
LSend == /\ Len(sent') = Len(sent) + 1
         /\ SubSeq(sent', 1, Len(sent)) = sent
         /\ sent'[Len(sent')] \in Packets
         /\ UNCHANGED <<got, last>>

HeaderOf(p) == [p EXCEPT !.data = <<>>]

Arrived(p, r) == HeaderOf(r) = HeaderOf(p) /\ (p \in Sound => r.data = p.data)

\* The packets between the last one accepted and this one are lost.
LReceive(i) == /\ Len(got') = Len(got) + 1
               /\ SubSeq(got', 1, Len(got)) = got
               /\ Arrived(sent[i], got'[Len(got')])
               /\ last' = i
               /\ UNCHANGED sent

LNext == \/ LSend
         \/ \E i \in (last + 1)..Len(sent) : LReceive(i)

LSpec == LInit /\ [][LNext]_lvars
=============================================================================
