------------------------------- MODULE MCChannel -------------------------------
(* The programs and sizes TLC checks Channel with; one configuration per run. *)
EXTENDS ChannelFifo, Selection, TLC

CONSTANTS main, proc, ch, ch2

Call(op, c, n) == [op |-> op, c |-> c, n |-> n, v |-> 0, to |-> main, again |-> 0]
OneOf(ops, c, sizes) == {Call(op, c, n) : op \in ops, n \in sizes}
Times(n, calls) == [i \in 1..n |-> calls]

\* The code of a thread that makes one call of each set of the list.
InOrder(list, h) == IF Len(h) < Len(list) THEN list[Len(h) + 1] ELSE {}

MCThreads == {main, proc}
AllAtOnce == {MCThreads}
OneChan == {ch}
TwoChans == {ch, ch2}
MainMakes == [c \in Chans |-> main]
EqualPrio == [t \in MCThreads |-> 7]
\* CSP_PRIORITY is THREAD_PRIORITY_MAIN - 1: a process preempts main.
ProcFirst == [t \in MCThreads |-> IF t = proc THEN 6 ELSE 7]

\* main sends four messages, smaller and larger than the ring buffer.
StreamProgram ==
  main :> << OneOf({"send", "send_msg"}, ch, {1, 5}), OneOf({"send"}, ch, {1, 5}),
             OneOf({"send_msg"}, ch, {1, 5}), OneOf({"send"}, ch, {1, 5}) >>
  @@ proc :> << OneOf({"recv", "recv_msg"}, ch, {1}), OneOf({"recv_msg"}, ch, {1}),
                OneOf({"recv"}, ch, {1}), OneOf({"recv"}, ch, {1}) >>

\* The process makes ch2, with or without buffer, before main may run.  On ch the
\* threads talk in both directions and meet in a call without data, as in
\* README.md:438-471.  On ch2 the process receives or drops; it is the creator, so
\* its drops synchronize as a receiver.
ProcessProgram ==
  main :> << OneOf({"send"}, ch, {1, 4}), OneOf({"recv"}, ch, {1}),
             OneOf({"send"}, ch, {2}), OneOf({"send"}, ch, {0}),
             OneOf({"set_buffered"}, ch2, {0}) >> \o Times(3, OneOf({"send"}, ch2, {1, 5}))
  @@ proc :> << OneOf({"make"}, ch2, {0, 1}), OneOf({"recv"}, ch, {1}),
                OneOf({"send"}, ch, {2, 5}), OneOf({"recv"}, ch, {1}),
                OneOf({"recv"}, ch, {0}) >> \o Times(3, OneOf({"recv", "drop"}, ch2, {1}))

\* The channel is closed behind the messages, by the sender or, as in
\* examples/packet_plexer, by the receiver.
CloseProgram ==
  main :> << OneOf({"send"}, ch, {1, 4}),
             OneOf({"send", "send_msg"}, ch, {1, 4}) \cup OneOf({"try_send"}, ch, {1}),
             OneOf({"close"}, ch, {0}), OneOf({"send"}, ch, {1}) >>
  @@ proc :> << OneOf({"recv"}, ch, {1}), OneOf({"recv"}, ch, {1}) \cup OneOf({"close"}, ch, {0}),
                OneOf({"recv"}, ch, {1}) >>

\* A process sends main two messages: each send has its receive.
ProducerProgram ==
  proc :> Times(2, OneOf({"send"}, ch, {1})) @@ main :> Times(2, OneOf({"recv"}, ch, {1}))

\* Messages as long as their headers, sent by a process until the ring is full.
TornProgram == proc :> Times(2, OneOf({"send"}, ch, {2})) @@ main :> Times(2, OneOf({"recv"}, ch, {1}))

\* The sender closes behind its messages, the receiver reads them afterwards.
DrainProgram ==
  main :> Times(2, OneOf({"send"}, ch, {1})) \o << OneOf({"close"}, ch, {0}) >>
  @@ proc :> Times(2, OneOf({"recv"}, ch, {1}))

\* One constant for each run.
StreamCode(t, h) == InOrder(StreamProgram[t], h)
ProcessCode(t, h) == InOrder(ProcessProgram[t], h)
CloseCode(t, h) == InOrder(CloseProgram[t], h)
ProducerCode(t, h) == InOrder(ProducerProgram[t], h)
TornCode(t, h) == InOrder(TornProgram[t], h)
DrainCode(t, h) == InOrder(DrainProgram[t], h)
================================================================================
