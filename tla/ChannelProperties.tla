--------------------------- MODULE ChannelProperties ---------------------------
(* What the channels must do, over the states of Channel. *)
EXTENDS Channel

Pcs == {"idle", "send", "send_body", "send_hdr", "send_loop", "send_sent",
        "recv", "recv_body", "recv_hdr", "recv_loop", "recv_got",
        "drop", "drop_body", "drop_hdr", "drop_loop", "drop_dropped",
        "try_send", "try_recv", "flags", "asleep", "spin"}
Flags == {"closed", "buffered"}
Frames == [pc : Pcs, call : Calls \cup {NoCall}, rb : BOOLEAN, size : Nat,
           bytes : Nat, out : Seq(CellSet), flags : SUBSET Flags]

\* A call never sends more than its data nor takes more than its header said.
InBounds(f) ==
  /\ Len(f.out) <= f.size
  /\ f.pc # "idle" => f.call \in Calls /\ f.bytes <= f.call.n

Rings == {q \in Seq(CellSet) : Len(q) <= BufSize}

SchedOK ==
  /\ status \in [Threads -> Statuses]
  /\ blocked \in [Chans -> [Slots -> Threads \cup {NoThread}]]
ChanOK == chan \in [Chans -> [creator : Threads, flags : SUBSET Flags]]
FilesOK == files \in [Chans -> [BOOLEAN -> Rings]]
ThreadsOK ==
  /\ th \in [Threads -> Frames] /\ \A t \in Threads : InBounds(th[t])
  /\ ret \in [Threads -> Seq(Results)]
HistoryOK ==
  /\ sent \in [Chans -> [BOOLEAN -> Seq(Messages)]]
  /\ rcvd \in [Chans -> [BOOLEAN -> Seq(Seq(CellSet))]]

\* Every variable has its type, no ring buffer holds more than CHANNEL_BUFSIZE
\* bytes, and no call reads or writes past the end of its data.
TypeOK == SchedOK /\ ChanOK /\ FilesOK /\ ThreadsOK /\ HistoryOK

\* The places where a thread sleeps with its name in a slot.
WaitsAt(slot) ==
  {"drop_body"} \cup (IF slot = "read" THEN {"send_body", "send_hdr", "send_loop"}
                      ELSE {"recv_body", "recv_hdr", "recv_loop", "drop_hdr", "drop_loop"})

\* Whoever is registered in thread_read_blocked or thread_write_blocked sleeps
\* in a call on that very channel, at a place that waits for that side, and in
\* no other slot: sched_set_status(thread, STATUS_PENDING) of channel_sched_other
\* never hits a thread that runs or that waits for something else.
WaiterAsleep ==
  \A c \in Chans, slot \in Slots :
    LET t == blocked[c][slot]
    IN  t # NoThread =>
          /\ status[t] = "sleeping"
          /\ th[t].pc \in WaitsAt(slot) /\ th[t].call.c = c
          /\ \A d \in Chans, other \in Slots :
                blocked[d][other] = t => d = c /\ other = slot

\* Whoever sleeps in a call is registered where the other side will find it, so
\* that somebody can wake it at all.
NoLostWaiter ==
  \A t \in Threads : status[t] = "sleeping" /\ th[t].pc # "asleep" =>
    \E c \in Chans, slot \in Slots : blocked[c][slot] = t

OnlyGoStarts ==
  \A t \in Threads : Gone(t) /\ ~Gone(t)' =>
    \E u \in Threads : \E call \in NextCalls(u) :
      call.op = "go" /\ call.to = t /\ ret'[u] = Returned(ret[u], call, 0, 0)

\* A thread that has ended or was killed is never made ready by a channel that
\* still has its name, nor by a timer; only GO starts a thread.
StaysGone == [][OnlyGoStarts]_vars

\* It never happens that threads sleep in channel calls and nobody is left to
\* wake them.
NoHang ==
  (\E t \in Threads : status[t] = "sleeping") => (\E t \in Threads : status[t] = "ready")

\* What receivers take out of a file are the messages that went in, each whole
\* and alone, in the order they were sent, however they were cut into chunks.
Integrity ==
  \A c \in Chans, k \in BOOLEAN :
    /\ Len(rcvd[c][k]) <= Len(sent[c][k])
    /\ \A i \in 1..Len(rcvd[c][k]) : rcvd[c][k][i] = Payload(sent[c][k][i])

\* When all threads have ended, every message was received and no byte is left.
NothingLeft ==
  (\A t \in Threads : status[t] = "stopped") =>
    \A c \in Chans, k \in BOOLEAN :
      files[c][k] = <<>> /\ Len(rcvd[c][k]) = Len(sent[c][k])

\* How many blocking calls t has finished, and how many it has begun.
Blocking == {"send", "send_msg", "recv", "recv_msg", "drop"}
Done(t) == Cardinality({i \in 1..Len(ret[t]) : ret[t][i].call.op \in Blocking})
Begun(t) == Done(t) + (IF th[t].pc # "idle" /\ th[t].call.op \in Blocking THEN 1 ELSE 0)

\* Where the calls of two threads on unbuffered channels match one to one, the
\* i-th call of neither returns before the other has made its i-th call: a send
\* waits for its receive, a receive for its send, and a call without data is a
\* barrier for both.
Rendezvous ==
  (\A c \in Chans : ~Buffered(c)) => \A t, u \in Threads : Done(t) <= Begun(u)

\* The byte belongs to data of a message whose sender is not in the middle of a
\* channel_try_send, which does not look at closed again (csp.c:264).
IsLatePayload(cell) ==
  cell.off > HdrSize /\ th[cell.msg.from].pc # "try_send"

\* No payload byte enters a ring buffer once the channel is closed, even when the
\* sender passed its first test for closed, or was asleep, before the close: at
\* most the header of the message it had begun goes in (csp.c:192 comes first),
\* or the one message of a channel_try_send that had passed its test.
ClosedTakesNoPayload ==
  [][\A c \in Chans, k \in BOOLEAN :
       Closed(c) /\ Len(files'[c][k]) > Len(files[c][k]) =>
         \A i \in Len(files[c][k]) + 1..Len(files'[c][k]) :
           ~IsLatePayload(files'[c][k][i])]_vars

ReceiveOps == {"recv", "recv_msg", "try_recv", "drop"}
Refused == \E t \in Threads : \E i \in 1..Len(ret[t]) :
             ret[t][i].n = 0 /\ ret[t][i].call.op \in ReceiveOps

\* A close never damages what was delivered before it: as long as no receive has
\* returned 0, what was taken are the messages that went in.
IntegrityUntilRefused == Refused \/ Integrity

\* A try operation that returns 0 has done nothing.
TryIsAllOrNothing ==
  [][\A t \in Threads :
       th[t].pc \in {"try_send", "try_recv"} /\ th'[t] = Idle /\ ret'[t] = Returned(ret[t], th[t].call, 0, 0) =>
         UNCHANGED <<files, sent, rcvd>>]_vars

\* A receive returns 0 on a closed channel only when everything in it was taken.
DrainsBeforeClosed ==
  [][\A t \in Threads : \A call \in NextCalls(t) :
       call.op = "recv" /\ call.n # 0 /\ ret'[t] # ret[t] /\ ret'[t][Len(ret'[t])].n = 0 =>
         files[call.c][InFile(t, call.c)] = <<>>]_vars

\* t has just made c; nothing is in c, and nobody is in a call on it.
JustMade(t, c) ==
  /\ Len(ret'[t]) > Len(ret[t])
  /\ LET call == ret'[t][Len(ret'[t])].call IN call.op = "make" /\ call.c = c
Unused(c) ==
  /\ files[c] = NewFiles
  /\ \A t \in Threads : th[t].pc # "idle" /\ ~Gone(t) => th[t].call.c # c
MadeUnused == \A t \in Threads, c \in Chans : JustMade(t, c) => Unused(c)

\* A channel is made, for the first time or again (simple_work makes one channel
\* in every round), only when nobody is in a call on it and nothing is left in it.
MakesUnused == [][MadeUnused]_vars

\* Every call of every thread returns.
AllReturn == <>(\A t \in Threads : status[t] = "stopped")
================================================================================
