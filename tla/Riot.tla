---------------------------------- MODULE Riot ----------------------------------
(******************************************************************************)
(* What the csp module uses of the RIOT kernel: the state of a thread, the    *)
(* strict-priority scheduler and the byte ring buffer.  RIOT is a git         *)
(* submodule and not part of the repository, so this module is modelled from  *)
(* the way modules/csp calls it.                                              *)
(******************************************************************************)
EXTENDS Integers, Sequences

CONSTANTS Threads,     \* the threads, main and the CSP processes
          NoThread,    \* nullptr where a thread_t * is expected
          Prio,        \* thread -> priority; as in RIOT 0 is the most urgent
          BufSize,     \* CHANNEL_BUFSIZE
          Tsrb         \* TRUE when built with TSRB (csp.h:29)

ASSUME RiotAssumption ==
  /\ NoThread \notin Threads
  /\ Prio \in [Threads -> Nat]
  /\ BufSize \in Nat \ {0}
  /\ Tsrb \in BOOLEAN

VARIABLE status        \* thread -> its scheduler state

Statuses == {"ready", "sleeping", "stopped", "zombie"}

\* A thread may take the next step when no more urgent thread is ready.  Among
\* threads of one priority any may go on: RIOT runs them first come first
\* served, and in turns with sched_round_robin.
Runs(t) ==
  /\ status[t] = "ready"
  /\ \A u \in Threads : status[u] = "ready" => Prio[t] <= Prio[u]

Gone(t) == status[t] \in {"stopped", "zombie"}

--------------------------------------------------------------------------------
(* The ring buffer, as the sequence of the bytes it holds. *)

Least(a, b) == IF a <= b THEN a ELSE b

RbFree(q) == BufSize - Len(q)

\* rb_avail: ringbuffer_get_free counts free space, tsrb_avail counts the bytes
\* that can be read.
RbAvail(q) == IF Tsrb THEN Len(q) ELSE RbFree(q)

\* Faulty variant: an add that overruns the buffer.
RbAddOverrun(q, data) == q \o data

\* rb_add puts in what fits and leaves the rest out.
RbAdd(q, data) == q \o SubSeq(data, 1, Least(Len(data), RbFree(q)))

\* rb_get and rb_peek see at most what is there.
RbGet(q, n) == SubSeq(q, 1, Least(n, Len(q)))

\* Faulty variant: a drop that removes the newest bytes.
RbDropNewest(q, n) == SubSeq(q, 1, Len(q) - Least(n, Len(q)))

\* rb_drop removes the OLDEST n bytes, or all when there are fewer.
RbDrop(q, n) == SubSeq(q, Least(n, Len(q)) + 1, Len(q))
================================================================================
