------------------------------ MODULE ChannelFifo ------------------------------
(* The files of the channels implement MessageFifo. *)
EXTENDS ChannelProperties

\* The ring buffer holds that many whole messages at most; the receiver has one
\* more in hand, and the header of another may be in.
FifoCapacity == BufSize \div (HdrSize + 1) + 2

\* What was taken out is the message it is the payload of, or one nobody sent.
NoMessage == [from |-> CHOOSE t \in Threads : TRUE, no |-> 0, size |-> 0, says |-> 0]
Whole(out) ==
  IF out # <<>> /\ out = Payload(out[1].msg) THEN out[1].msg ELSE NoMessage

Fifo ==
  INSTANCE MessageFifo WITH
    Queues <- Chans \X BOOLEAN,
    Msg <- Messages,
    Capacity <- FifoCapacity,
    sent <- [q \in Chans \X BOOLEAN |-> sent[q[1]][q[2]]],
    rcvd <- [q \in Chans \X BOOLEAN |->
               [i \in 1..Len(rcvd[q[1]][q[2]]) |-> Whole(rcvd[q[1]][q[2]][i])]]

\* Every file of every channel is a bounded queue of whole messages, and what a
\* sender put in is taken out in the end.
ImplementsFifo == Fifo!Spec
================================================================================
