------------------------------ MODULE MessageFifo ------------------------------
(******************************************************************************)
(* What the directions of the channels promise to the programs that use them: *)
(* each is a bounded queue of whole messages that come out in the order they  *)
(* went in, and none of which is forgotten.                                   *)
(******************************************************************************)
EXTENDS Integers, Sequences

CONSTANTS Queues,      \* one for each direction of each channel
          Msg,         \* the messages
          Capacity     \* how many may be under way in a queue

VARIABLES sent, rcvd   \* queue -> messages accepted, messages delivered

fifo == <<sent, rcvd>>

Init ==
  /\ sent = [q \in Queues |-> <<>>]
  /\ rcvd = [q \in Queues |-> <<>>]

\* Any message is accepted while there is room.
Send(q) ==
  /\ Len(sent[q]) - Len(rcvd[q]) < Capacity
  /\ Len(sent'[q]) = Len(sent[q]) + 1
  /\ LET m == sent'[q][Len(sent'[q])]
     IN  m \in Msg /\ sent' = [sent EXCEPT ![q] = Append(@, m)]
  /\ rcvd' = rcvd

Take(q) ==
  /\ Len(rcvd[q]) < Len(sent[q])
  /\ rcvd' = [rcvd EXCEPT ![q] = Append(@, sent[q][Len(@) + 1])]
  /\ sent' = sent

Next == \E q \in Queues : Send(q) \/ Take(q)

Spec == Init /\ [][Next]_fifo /\ \A q \in Queues : WF_fifo(Take(q))
================================================================================
