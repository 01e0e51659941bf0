-------------------------------- MODULE MCTries --------------------------------
(******************************************************************************)
(* The programs TLC checks the try operations and the selects with, on two    *)
(* boards: on one, threads of equal priority poll and select; on the other,   *)
(* chooser, of main's priority, selects channels that server, a process,      *)
(* empties and fills when its timers go off.  Messages are one word.          *)
(******************************************************************************)
EXTENDS MCChannel

CONSTANTS chooser, server, west, east

TryThreads == MCThreads \cup {chooser, server}
TryChans == TwoChans \cup {west, east}
TryBoards == {MCThreads, {chooser}}
TryPrio == [t \in TryThreads |-> IF t = server THEN 6 ELSE 7]
TryCreator == [c \in TryChans |-> IF c \in TwoChans THEN main ELSE chooser]

Hits(h) == Cardinality({i \in 1..Len(h) : h[i].n > 0})

\* A process that took ch over (packet_plexer/main.c:42) tries it twice and then
\* selects ch or ch2, main polls and selects.  Each select ends with its first
\* success.
TakeOver == [Call("set_owner", ch, 0) EXCEPT !.to = proc]
Selects(op, chans, h, before, times) ==
  LET own == SubSeq(h, before + 1, Len(h))
  IN  IF Hits(own) < times THEN {SelectTry(Call(op, ch, 1), chans, own)} ELSE {}
ProcTries(h) ==
  IF Len(h) < 3 THEN InOrder(<< {TakeOver} >> \o Times(2, OneOf({"try_send"}, ch, {1})), h)
  ELSE Selects("try_send", <<ch, ch2>>, h, 3, 2)
MainTries(h) ==
  IF Len(h) < 3
  THEN InOrder(<< OneOf({"set_buffered"}, ch, {0, 1}) >> \o Times(2, OneOf({"try_recv"}, ch, {1})), h)
  ELSE LET calls == Selects("try_recv", <<ch2, ch>>, h, 3, 2)
       IN  IF calls # {} THEN calls
           ELSE IF h[Len(h)].call.op = "try_recv" THEN OneOf({"recv_msg", "drop"}, ch, {1})
           ELSE {}

\* Four selects fill both rings before the server is started; the fifth send and
\* both receives find nothing to do until the server has woken up.
StartServer == [Call("go", west, 0) EXCEPT !.to = server]
ChooserTries(h) ==
  IF Hits(h) = 4 /\ h[Len(h)].n > 0 THEN {StartServer}
  ELSE IF Hits(h) < 5 THEN {SelectTry(Call("try_send", west, 1), <<west, east>>, h)}
  ELSE IF Hits(h) < 7 THEN {SelectTry(Call("try_recv", west, 1), <<west, east>>, h)}
  ELSE {}

\* Takes from and sends on either channel, whichever the chooser looks at then.
Nap == OneOf({"sleep"}, west, {0})
OnEither(ops) == OneOf(ops, west, {1}) \cup OneOf(ops, east, {1})
Serve(h) ==
  InOrder(<< Nap, OnEither({"recv", "recv_msg", "try_recv"}), Nap, OnEither({"send", "send_msg"}),
             Nap, OnEither({"send_msg", "try_send"}) >>, h)

TryCode(t, h) ==
  CASE t = proc -> ProcTries(h)
    [] t = main -> MainTries(h)
    [] t = chooser -> ChooserTries(h)
    [] t = server -> Serve(h)

\* Every channel_send_select and channel_recv_select of a thread that polls while
\* nothing is to be had returns, when a more urgent one makes room or sends from
\* time to time: it may come at any moment of the loop, also just behind the channel
\* that was looked at last, and the next round must find what it did.  The loop
\* never yields, so nothing of this is claimed of a peer of the same priority.
SelectsReturn == ~Gone(chooser) ~> Gone(chooser)

================================================================================
