-------------------------------- MODULE Selection --------------------------------
(******************************************************************************)
(* channel_send_select and channel_recv_select: loops of try operations over  *)
(* an array of channels, as the calls a thread makes next.                    *)
(******************************************************************************)
EXTENDS Channel

TryOps == {"try_send", "try_recv"}

\* How many tries of h, from the last one backwards, failed in a row.
Misses(h) ==
  LET hits == {i \in 1..Len(h) : h[i].call.op \notin TryOps \/ h[i].n > 0}
  IN  Len(h) - (IF hits = {} THEN 0 ELSE CHOOSE i \in hits : \A j \in hits : j <= i)

\* Faulty variant: the loop ends one channel early.
LastButOne(chans) == Len(chans) - 1

LastOf(chans) == Len(chans)

\* The try a select over chans makes after h: the next channel, and after the last
\* one the first again, for ever.
SelectTry(call, chans, h) ==
  LET i == Misses(h) + 1
  IN  [call EXCEPT !.c = chans[i], !.again = IF i = LastOf(chans) THEN i ELSE 0]

================================================================================
