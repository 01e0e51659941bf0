-------------------------------- MODULE Channel --------------------------------
(******************************************************************************)
(* The channels of modules/csp: send, receive, drop, the try operations and   *)
(* the management calls, executed by threads that RIOT schedules.             *)
(*                                                                            *)
(* One step is one stretch of code that runs with interrupts disabled (from   *)
(* irq_disable, or from the return of channel_sched_self/channel_sched_other, *)
(* to the next irq_restore) or one unprotected access to the shared channel.  *)
(* What a thread runs is Code(t, h): the calls it may make next after the     *)
(* calls whose results are h.                                                 *)
(*                                                                            *)
(* A byte in a ring buffer is a cell: the message it belongs to and its       *)
(* offset in that message, header included.  No code looks into the bytes,    *)
(* except that a receiver decodes HdrSize bytes as the size of a message.     *)
(******************************************************************************)
EXTENDS Riot, FiniteSets

CONSTANTS Chans,       \* the channel objects
          Creator,     \* channel -> the thread that made it
          Modes,       \* the values of the buffered argument of channel_make
          Code(_, _),  \* thread, results of its calls -> the calls it may make next
          Boot,        \* the sets of threads that may be running in the beginning
          HdrSize,     \* sizeof (size_t), the length of a message header
          Garbage      \* sizes that HdrSize bytes of no header may decode to

VARIABLES chan,        \* channel -> creator and flags
          blocked,     \* channel -> thread_read_blocked, thread_write_blocked
          files,       \* channel -> is the file the creator's? -> ring buffer
          th,          \* thread -> program counter and locals
          ret,         \* thread -> the calls it made and what they returned
          sent,        \* history: messages whose header went into a file
          rcvd         \* history: payloads taken out of a file

vars == <<status, chan, blocked, files, th, ret, sent, rcvd>>

Slots == {"read", "write"}
Ops == {"send", "send_msg", "try_send", "recv", "recv_msg", "try_recv", "drop",
        "close", "set_buffered", "set_owner", "make", "go", "kill", "sleep", "spin"}

\* n is the size to send (0: null data), 1 or 0 for a receive with or without a
\* buffer, the flag of set_buffered and make; v is what the data says; to is the
\* new owner of set_owner, the process of go and kill.  When again is not 0 and the
\* call returns 0, the caller's loop starts over: it is as if the last again calls
\* had not been made.
Calls == [op : Ops, c : Chans, n : Nat, v : Int, to : Threads, again : Nat]
NoCall == [op |-> "none"]

\* What a call returned, and what was in the message it took.
Results == [call : Calls, n : Nat, heard : Int]

ASSUME ChannelAssumption ==
  /\ Creator \in [Chans -> Threads]
  /\ Modes \subseteq BOOLEAN
  /\ Boot \subseteq SUBSET Threads
  /\ HdrSize \in Nat \ {0}
  /\ Garbage \subseteq Nat /\ Garbage # {}

Messages == [from : Threads, no : Nat, size : Nat, says : Int]
CellSet == [msg : Messages, off : Nat]

Cells(m, from, n) == [i \in 1..n |-> [msg |-> m, off |-> from + i]]
Header(m) == Cells(m, 0, HdrSize)
Payload(m) == Cells(m, HdrSize, m.size)

\* The sizes a receiver may read from a ring buffer that holds a header's worth.
SizesIn(q) ==
  LET m == Head(q).msg
  IN  IF SubSeq(q, 1, HdrSize) = Header(m) THEN {m.size} ELSE Garbage

--------------------------------------------------------------------------------
Closed(c) == "closed" \in chan[c].flags
Buffered(c) == "buffered" \in chan[c].flags
MadeFlags(buffered) == IF buffered THEN {"buffered"} ELSE {}

\* The creator writes files[1] and reads files[0], everyone else the reverse.
OutFile(t, c) == chan[c].creator = t
InFile(t, c) == chan[c].creator # t

\* channel_is_empty looks at the file its caller writes.  fs are c's two files.
IsEmpty(t, c, fs) == fs[OutFile(t, c)] = <<>>

Frame(pc, call, rb) == [pc |-> pc, call |-> call, rb |-> rb, size |-> 0,
                        bytes |-> 0, out |-> <<>>, flags |-> {}]
Idle == Frame("idle", NoCall, FALSE)
SendFrame(pc, call, rb, bytes) == [Frame(pc, call, rb) EXCEPT !.bytes = bytes]
RecvFrame(pc, call, rb, size, out) == [Frame(pc, call, rb) EXCEPT !.size = size, !.out = out]

\* The calls t may make now, or is making.
NextCalls(t) == {call \in Code(t, ret[t]) : call \in Calls}

Invokes(t, call, ops) ==
  /\ Runs(t)
  /\ th[t].pc = "idle"
  /\ call.op \in ops

At(t, pc) == Runs(t) /\ th[t].pc = pc

Goto(t, frame) == th' = [th EXCEPT ![t] = frame] /\ ret' = ret

\* What a receiver finds in the data it took.
Heard(out) == IF out = <<>> THEN 0 ELSE out[1].msg.says

\* A call is over.
Returned(h, call, n, heard) ==
  IF n = 0 /\ call.again > 0
  THEN SubSeq(h, 1, Len(h) + 1 - call.again)
  ELSE Append(h, [call |-> call, n |-> n, heard |-> heard])
ReturnHeard(t, call, n, heard) ==
  /\ th' = [th EXCEPT ![t] = Idle]
  /\ ret' = [ret EXCEPT ![t] = Returned(@, call, n, heard)]
Return(t, call, n) == ReturnHeard(t, call, n, 0)
Put(c, k, q) == files' = [files EXCEPT ![c][k] = q]
Noted(history, c, k, x) == [history EXCEPT ![c][k] = Append(@, x)]
Undisturbed == UNCHANGED <<status, blocked>>

\* Faulty variant: sleeps without leaving its name.
BlockUnregistered(t, c, slot) ==
  /\ blocked' = blocked
  /\ status' = [status EXCEPT ![t] = "sleeping"]

Block(t, c, slot) ==
  /\ blocked' = [blocked EXCEPT ![c][slot] = t]
  /\ status' = [status EXCEPT ![t] = "sleeping"]

\* Faulty variant: the woken thread stays registered.
WakeKeepsSlot(c, slot) ==
  LET other == blocked[c][slot]
  IN  /\ blocked' = blocked
      /\ status' = IF other # NoThread /\ ~Gone(other)
                   THEN [status EXCEPT ![other] = "ready"] ELSE status

\* Faulty variant: nobody is woken.
WakeNobody(c, slot) == Undisturbed

\* Faulty variant: the waiter is made ready whether it exists or not.
WakeUnchecked(c, slot) ==
  LET other == blocked[c][slot]
  IN  IF other # NoThread
      THEN /\ blocked' = [blocked EXCEPT ![c][slot] = NoThread]
           /\ status' = [status EXCEPT ![other] = "ready"]
      ELSE Undisturbed

\* channel_sched_other: a waiter that still exists is taken off the channel and
\* made ready; one that is gone stays registered.
Wake(c, slot) ==
  LET other == blocked[c][slot]
  IN  IF other # NoThread /\ ~Gone(other)
      THEN /\ blocked' = [blocked EXCEPT ![c][slot] = NoThread]
           /\ status' = [status EXCEPT ![other] = "ready"]
      ELSE Undisturbed

--------------------------------------------------------------------------------
(* The first tests of a call, made before interrupts are disabled: what they  *)
(* saw may be stale when the call goes on.                                    *)

SendRefused(call) == Closed(call.c) \/ (call.op = "try_send" /\ call.n = 0)

RecvRefused(t, call) ==
  \/ Closed(call.c) /\ IsEmpty(t, call.c, files[call.c])
  \/ call.op = "try_recv" /\ call.n = 0

\* try_recv finds out which file it reads here.
Enter(t) ==
  \E call \in NextCalls(t) :
    /\ Invokes(t, call, {"send", "try_send", "recv", "try_recv", "drop"})
    /\ IF \/ call.op \in {"send", "try_send"} /\ SendRefused(call)
          \/ call.op \in {"recv", "try_recv", "drop"} /\ RecvRefused(t, call)
       THEN Return(t, call, 0)
       ELSE Goto(t, Frame(call.op, call, InFile(t, call.c)))
    /\ Undisturbed
    /\ UNCHANGED <<chan, files, sent, rcvd>>

--------------------------------------------------------------------------------
(* channel_synchronize on an unbuffered channel: whoever comes first sleeps.  *)

\* Faulty variant: both sides sleep where the other looks for its own side.
MySlotSwapped(sender) == IF sender THEN "write" ELSE "read"

\* A sender waits for reads in thread_read_blocked, a receiver for writes.
MySlot(sender) == IF sender THEN "read" ELSE "write"
PeerSlot(sender) == IF sender THEN "write" ELSE "read"

\* Faulty variant: whoever comes first goes on.
MeetWithoutWaiting(t, c, sender) ==
  IF blocked[c][PeerSlot(sender)] # NoThread THEN Wake(c, PeerSlot(sender)) ELSE Undisturbed

Meet(t, c, sender) ==
  IF blocked[c][PeerSlot(sender)] # NoThread
  THEN Wake(c, PeerSlot(sender))
  ELSE Block(t, c, MySlot(sender))

Synchronize(t, call, sender, pc) ==
  LET c == call.c
  IN  /\ ~Buffered(c)
      /\ Meet(t, c, sender)
      /\ Goto(t, Frame(pc, call, FALSE))
      /\ UNCHANGED <<chan, files, sent, rcvd>>

--------------------------------------------------------------------------------
(* _channel_send_msg, channel_send, channel_send_msg *)

Message(t, call) == [from |-> t, no |-> Len(ret[t]) + 1, size |-> call.n, says |-> call.v]

\* Faulty variant: a chunk starts at the beginning of the data again.
RestFromStart(m, bytes) == Cells(m, HdrSize, m.size - bytes)

\* What is left of the data after bytes of it.
Rest(m, bytes) == Cells(m, HdrSize + bytes, m.size - bytes)

\* Faulty variant: the loop goes on when the channel is closed.
SendNeverStops(c) == FALSE

SendStops(c) == Closed(c)

\* The data loop: q is the outgoing ring buffer, bytes what went in before.
SendLoop(t, call, k, q, bytes) ==
  LET c == call.c
      m == Message(t, call)
      rest == Rest(m, bytes)
      chunk == Least(RbFree(q), Len(rest))
  IN  \/ /\ SendStops(c)
         /\ Put(c, k, q)
         /\ Return(t, call, bytes)
         /\ Undisturbed
      \/ /\ ~SendStops(c)
         /\ RbAvail(q) # 0 /\ chunk # 0
         /\ Put(c, k, RbAdd(q, rest))
         /\ Wake(c, "write")
         /\ Goto(t, SendFrame("send_sent", call, k, bytes + chunk))
      \/ /\ ~SendStops(c)
         /\ RbAvail(q) = 0 \/ chunk = 0
         /\ Put(c, k, q)
         /\ Block(t, c, "read")
         /\ Goto(t, SendFrame("send_loop", call, k, bytes))

SendHeader(t, call, k) ==
  LET c == call.c
      q == files[c][k]
      m == Message(t, call)
      torn == RbAdd(q, Header(m))
  IN  \/ /\ RbFree(q) >= HdrSize
         /\ sent' = Noted(sent, c, k, m)
         /\ SendLoop(t, call, k, torn, 0)
      \/ /\ RbFree(q) < HdrSize
         /\ IF Closed(c)
            THEN Put(c, k, torn) /\ Return(t, call, 0) /\ Undisturbed
            ELSE /\ Put(c, k, RbDrop(torn, RbFree(q)))
                 /\ Block(t, c, "read")
                 /\ Goto(t, Frame("send_hdr", call, k))
         /\ UNCHANGED sent

SendBody(t, call) ==
  \/ call.n = 0 /\ Return(t, call, 0) /\ Undisturbed /\ UNCHANGED <<files, sent>>
  \/ call.n # 0 /\ SendHeader(t, call, OutFile(t, call.c))

SendSync(t) ==
  LET call == th[t].call
  IN  /\ At(t, "send")
      /\ \/ Synchronize(t, call, TRUE, "send_body")
         \/ Buffered(call.c) /\ SendBody(t, call) /\ UNCHANGED <<chan, rcvd>>

SendSynced(t) ==
  At(t, "send_body") /\ SendBody(t, th[t].call) /\ UNCHANGED <<chan, rcvd>>

SendMsgCall(t) ==
  \E call \in NextCalls(t) :
    /\ Invokes(t, call, {"send_msg"})
    /\ SendHeader(t, call, OutFile(t, call.c))
    /\ UNCHANGED <<chan, rcvd>>

SendHeaderAgain(t) ==
  At(t, "send_hdr") /\ SendHeader(t, th[t].call, th[t].rb) /\ UNCHANGED <<chan, rcvd>>

SendResume(t) ==
  LET f == th[t]
  IN  /\ At(t, "send_loop")
      /\ SendLoop(t, f.call, f.rb, files[f.call.c][f.rb], f.bytes)
      /\ UNCHANGED <<chan, sent, rcvd>>

SendSent(t) ==
  LET f == th[t]
  IN  /\ At(t, "send_sent")
      /\ IF f.bytes = f.call.n
         THEN Return(t, f.call, f.bytes) /\ Undisturbed /\ UNCHANGED files
         ELSE SendLoop(t, f.call, f.rb, files[f.call.c][f.rb], f.bytes)
      /\ UNCHANGED <<chan, sent, rcvd>>

--------------------------------------------------------------------------------
(* _channel_recv_msg, channel_recv, channel_recv_msg *)

\* A closed channel is given up when the emptiness test says so or the message
\* is larger than rb_avail of the incoming ring buffer q.
GivesUp(t, c, k, q, size) ==
  /\ Closed(c)
  /\ IsEmpty(t, c, [files[c] EXCEPT ![k] = q]) \/ size > RbAvail(q)

\* The data loop: out holds the bytes taken before.
RecvLoop(t, call, k, size, q, out) ==
  LET c == call.c
      chunk == RbGet(q, size - Len(out))
  IN  \/ /\ GivesUp(t, c, k, q, size)
         /\ Put(c, k, q)
         /\ ReturnHeard(t, call, IF Len(out) = size THEN size ELSE 0, Heard(out))
         /\ Undisturbed
      \/ /\ ~GivesUp(t, c, k, q, size)
         /\ chunk # <<>>
         /\ Put(c, k, RbDrop(q, Len(chunk)))
         /\ Wake(c, "read")
         /\ Goto(t, RecvFrame("recv_got", call, k, size, out \o chunk))
      \/ /\ ~GivesUp(t, c, k, q, size)
         /\ chunk = <<>>
         /\ Put(c, k, q)
         /\ Block(t, c, "write")
         /\ Goto(t, RecvFrame("recv_loop", call, k, size, out))

RecvHeader(t, call, k) ==
  LET q == files[call.c][k]
  IN  \/ /\ Len(q) < HdrSize
         /\ Block(t, call.c, "write")
         /\ Goto(t, Frame("recv_hdr", call, k))
         /\ UNCHANGED files
      \/ /\ Len(q) >= HdrSize
         /\ \E size \in SizesIn(q) :
              RecvLoop(t, call, k, size, RbDrop(q, HdrSize), <<>>)

RecvBody(t, call) ==
  \/ call.n = 0 /\ Return(t, call, 0) /\ Undisturbed /\ UNCHANGED files
  \/ call.n # 0 /\ RecvHeader(t, call, InFile(t, call.c))

RecvSync(t) ==
  LET call == th[t].call
  IN  /\ At(t, "recv")
      /\ \/ Synchronize(t, call, FALSE, "recv_body")
         \/ Buffered(call.c) /\ RecvBody(t, call) /\ UNCHANGED <<chan, sent, rcvd>>

RecvSynced(t) ==
  At(t, "recv_body") /\ RecvBody(t, th[t].call) /\ UNCHANGED <<chan, sent, rcvd>>

RecvMsgCall(t) ==
  \E call \in NextCalls(t) :
    /\ Invokes(t, call, {"recv_msg"})
    /\ RecvHeader(t, call, InFile(t, call.c))
    /\ UNCHANGED <<chan, sent, rcvd>>

RecvHeaderAgain(t) ==
  At(t, "recv_hdr") /\ RecvHeader(t, th[t].call, th[t].rb) /\ UNCHANGED <<chan, sent, rcvd>>

RecvResume(t) ==
  LET f == th[t]
  IN  /\ At(t, "recv_loop")
      /\ RecvLoop(t, f.call, f.rb, f.size, files[f.call.c][f.rb], f.out)
      /\ UNCHANGED <<chan, sent, rcvd>>

\* Faulty variant: a receive is over with the first chunk.
CompleteEarly(f) == f.out # <<>>

Complete(f) == Len(f.out) = f.size

\* The call is over and the message is the caller's.
Taken(t, f) ==
  /\ rcvd' = Noted(rcvd, f.call.c, f.rb, f.out)
  /\ ReturnHeard(t, f.call, Len(f.out), Heard(f.out))
  /\ Undisturbed
  /\ UNCHANGED files

RecvGot(t) ==
  LET f == th[t]
  IN  /\ At(t, "recv_got")
      /\ IF Complete(f)
         THEN Taken(t, f)
         ELSE /\ RecvLoop(t, f.call, f.rb, f.size, files[f.call.c][f.rb], f.out)
              /\ UNCHANGED rcvd
      /\ UNCHANGED <<chan, sent>>

--------------------------------------------------------------------------------
(* channel_drop *)

\* After a chunk, or without one: the caller turns to sleep, and gives up when
\* somebody already waits for a write.
DropWait(t, frame, q) ==
  LET c == frame.call.c
  IN  /\ Put(c, frame.rb, q)
      /\ IF blocked[c]["write"] # NoThread
         THEN Return(t, frame.call, 0) /\ Undisturbed
         ELSE Block(t, c, "write") /\ Goto(t, [frame EXCEPT !.pc = "drop_loop"])

DropLoop(t, call, k, size, q, out) ==
  LET c == call.c
      chunk == RbGet(q, size - Len(out))
      left == RbDrop(q, Len(chunk))
      frame == RecvFrame("drop_dropped", call, k, size, out \o chunk)
  IN  \/ /\ GivesUp(t, c, k, q, size)
         /\ Put(c, k, q)
         /\ ReturnHeard(t, call, IF Len(out) = size THEN size ELSE 0, Heard(out))
         /\ Undisturbed
      \/ /\ ~GivesUp(t, c, k, q, size)
         /\ Len(out \o chunk) # 0
         /\ Put(c, k, left)
         /\ Wake(c, "read")
         /\ Goto(t, frame)
      \/ /\ ~GivesUp(t, c, k, q, size)
         /\ Len(out \o chunk) = 0
         /\ DropWait(t, frame, left)

DropHeader(t, call, k) ==
  LET q == files[call.c][k]
  IN  \/ /\ Len(q) < HdrSize
         /\ Block(t, call.c, "write")
         /\ Goto(t, Frame("drop_hdr", call, k))
         /\ UNCHANGED files
      \/ /\ Len(q) >= HdrSize
         /\ \E size \in SizesIn(q) :
              DropLoop(t, call, k, size, RbDrop(q, HdrSize), <<>>)

\* Only the creator synchronizes as a receiver; anyone else as a sender.
DropSync(t) ==
  LET call == th[t].call
  IN  /\ At(t, "drop")
      /\ \/ Synchronize(t, call, ~OutFile(t, call.c), "drop_body")
         \/ /\ Buffered(call.c)
            /\ DropHeader(t, call, InFile(t, call.c))
            /\ UNCHANGED <<chan, sent, rcvd>>

DropSynced(t) ==
  LET call == th[t].call
  IN  At(t, "drop_body") /\ DropHeader(t, call, InFile(t, call.c)) /\ UNCHANGED <<chan, sent, rcvd>>

DropHeaderAgain(t) ==
  At(t, "drop_hdr") /\ DropHeader(t, th[t].call, th[t].rb) /\ UNCHANGED <<chan, sent, rcvd>>

DropResume(t) ==
  LET f == th[t]
  IN  /\ At(t, "drop_loop")
      /\ DropLoop(t, f.call, f.rb, f.size, files[f.call.c][f.rb], f.out)
      /\ UNCHANGED <<chan, sent, rcvd>>

DropDropped(t) ==
  LET f == th[t]
  IN  /\ At(t, "drop_dropped")
      /\ IF Complete(f)
         THEN Taken(t, f)
         ELSE DropWait(t, f, files[f.call.c][f.rb]) /\ UNCHANGED rcvd
      /\ UNCHANGED <<chan, sent>>

--------------------------------------------------------------------------------
(* channel_try_send, channel_try_recv *)

\* Faulty variant: room is not looked for.
TryRoomUnchecked(q, n) == TRUE

\* Room for the data, not counting the header.
TryRoom(q, n) == RbAvail(q) >= n

\* bytes is assigned the COMPARISON of the header bytes added with their number:
\* 1 when the header is torn, so that one byte is dropped, from the head.
TrySend(t) ==
  LET call == th[t].call
      c == call.c
      k == OutFile(t, c)
      q == files[c][k]
      m == Message(t, call)
      headed == RbAdd(q, Header(m))
      full == RbAdd(headed, Payload(m))
  IN  /\ At(t, "try_send")
      /\ \/ /\ ~TryRoom(q, call.n)
            /\ Return(t, call, 0)
            /\ UNCHANGED <<files, sent>>
         \/ /\ TryRoom(q, call.n)
            /\ RbFree(q) < HdrSize
            /\ Put(c, k, RbDrop(headed, 1))
            /\ Return(t, call, 0)
            /\ UNCHANGED sent
         \/ /\ TryRoom(q, call.n)
            /\ RbFree(q) >= HdrSize
            /\ Put(c, k, full)
            /\ Return(t, call, Len(full) - Len(headed))
            /\ sent' = Noted(sent, c, k, m)
      /\ Undisturbed
      /\ UNCHANGED <<chan, rcvd>>

\* data_size ends up as the number of header bytes taken, so HdrSize bytes of
\* data are read whatever the header says.
TryRecv(t) ==
  LET f == th[t]
      c == f.call.c
      q == files[c][f.rb]
      hdr == RbGet(q, HdrSize)
      data == RbGet(RbDrop(q, HdrSize), Len(hdr))
  IN  /\ At(t, "try_recv")
      /\ Put(c, f.rb, RbDrop(q, Len(hdr \o data)))
      /\ ReturnHeard(t, f.call, Len(data), Heard(data))
      /\ rcvd' = IF data = <<>> THEN rcvd ELSE Noted(rcvd, c, f.rb, data)
      /\ Undisturbed
      /\ UNCHANGED <<chan, sent>>

--------------------------------------------------------------------------------
(* channel_close, channel_set_buffered, channel_set_owner, channel_make *)

\* c->flags |= ... is a load and a store with interrupts enabled.
FlagsLoad(t) ==
  \E call \in NextCalls(t) :
    /\ Invokes(t, call, {"close", "set_buffered"})
    /\ Goto(t, [Frame("flags", call, FALSE) EXCEPT !.flags = chan[call.c].flags])
    /\ Undisturbed
    /\ UNCHANGED <<chan, files, sent, rcvd>>

\* set_buffered can only set the flag: with false it stores what was loaded.
FlagsStore(t) ==
  LET f == th[t]
      bit == IF f.call.op = "close" THEN {"closed"} ELSE MadeFlags(f.call.n # 0)
  IN  /\ At(t, "flags")
      /\ chan' = [chan EXCEPT ![f.call.c].flags = f.flags \cup bit]
      /\ Return(t, f.call, 0)
      /\ Undisturbed
      /\ UNCHANGED <<files, sent, rcvd>>

SetOwner(t) ==
  \E call \in NextCalls(t) :
    /\ Invokes(t, call, {"set_owner"})
    /\ chan' = [chan EXCEPT ![call.c].creator = call.to]
    /\ Return(t, call, 0)
    /\ Undisturbed
    /\ UNCHANGED <<files, sent, rcvd>>

NewFiles == [k \in BOOLEAN |-> <<>>]

\* The struct assignment, in one step: a channel is made before it is shared.
Make(t) ==
  \E call \in NextCalls(t) :
    LET c == call.c
    IN  /\ Invokes(t, call, {"make"})
        /\ chan' = [chan EXCEPT ![c] = [creator |-> t, flags |-> MadeFlags(call.n # 0)]]
        /\ blocked' = [blocked EXCEPT ![c] = [s \in Slots |-> NoThread]]
        /\ files' = [files EXCEPT ![c] = NewFiles]
        /\ sent' = [sent EXCEPT ![c] = NewFiles] /\ rcvd' = [rcvd EXCEPT ![c] = NewFiles]
        /\ Return(t, call, 0)
        /\ UNCHANGED status

--------------------------------------------------------------------------------
(* Threads come and go: _csp, csp_kill, the end of a thread function, and the *)
(* timers threads sleep on.  Csp looks into the first two.                    *)

\* A stack is used again only when its thread has ended.
Go(t) ==
  \E call \in NextCalls(t) :
    LET p == call.to
    IN  /\ Invokes(t, call, {"go"})
        /\ p # t /\ Gone(p)
        /\ status' = [status EXCEPT ![p] = "ready"]
        /\ th' = [th EXCEPT ![p] = Idle]
        /\ ret' = [ret EXCEPT ![p] = <<>>, ![t] = Returned(@, call, 0, 0)]
        /\ UNCHANGED <<chan, blocked, files, sent, rcvd>>

\* What the killed thread was doing stays undone, and its name where it is.
Kill(t) ==
  \E call \in NextCalls(t) :
    /\ Invokes(t, call, {"kill"})
    /\ call.to # t /\ ~Gone(call.to)
    /\ status' = [status EXCEPT ![call.to] = "stopped"]
    /\ Return(t, call, 0)
    /\ UNCHANGED <<chan, blocked, files, sent, rcvd>>

Sleep(t) ==
  \E call \in NextCalls(t) :
    /\ Invokes(t, call, {"sleep"})
    /\ status' = [status EXCEPT ![t] = "sleeping"]
    /\ Goto(t, Frame("asleep", call, FALSE))
    /\ UNCHANGED <<chan, blocked, files, sent, rcvd>>

\* The timer's interrupt, at any time.
Timer(t) ==
  /\ status[t] = "sleeping" /\ th[t].pc = "asleep"
  /\ status' = [status EXCEPT ![t] = "ready"]
  /\ Return(t, th[t].call, 0)
  /\ UNCHANGED <<chan, blocked, files, sent, rcvd>>

\* The thread computes for ever: it stays ready and makes no call again.
Spin(t) ==
  \E call \in NextCalls(t) :
    /\ Invokes(t, call, {"spin"})
    /\ Goto(t, Frame("spin", call, FALSE))
    /\ UNCHANGED <<status, chan, blocked, files, sent, rcvd>>

\* The thread function returns and RIOT takes the thread off the scheduler.
Exit(t) ==
  /\ Runs(t)
  /\ th[t].pc = "idle"
  /\ NextCalls(t) = {}
  /\ status' = [status EXCEPT ![t] = "stopped"]
  /\ UNCHANGED <<chan, blocked, files, th, ret, sent, rcvd>>

Booted(on) == [t \in Threads |-> IF t \in on THEN "ready" ELSE "stopped"]

Init ==
  /\ status \in {Booted(on) : on \in Boot}
  /\ \E buffered \in [Chans -> Modes] :
       chan = [c \in Chans |-> [creator |-> Creator[c], flags |-> MadeFlags(buffered[c])]]
  /\ blocked = [c \in Chans |-> [s \in Slots |-> NoThread]]
  /\ files = [c \in Chans |-> NewFiles]
  /\ th = [t \in Threads |-> Idle]
  /\ ret = [t \in Threads |-> <<>>]
  /\ sent = [c \in Chans |-> NewFiles]
  /\ rcvd = [c \in Chans |-> NewFiles]

Sends(t) ==
  \/ SendSync(t) \/ SendSynced(t) \/ SendMsgCall(t)
  \/ SendHeaderAgain(t) \/ SendResume(t) \/ SendSent(t)
Recvs(t) ==
  \/ RecvSync(t) \/ RecvSynced(t) \/ RecvMsgCall(t)
  \/ RecvHeaderAgain(t) \/ RecvResume(t) \/ RecvGot(t)
Drops(t) ==
  \/ DropSync(t) \/ DropSynced(t)
  \/ DropHeaderAgain(t) \/ DropResume(t) \/ DropDropped(t)
Tries(t) == TrySend(t) \/ TryRecv(t)
Manages(t) == FlagsLoad(t) \/ FlagsStore(t) \/ SetOwner(t) \/ Make(t)

Lives(t) == Go(t) \/ Kill(t) \/ Sleep(t) \/ Timer(t) \/ Spin(t) \/ Exit(t)

Step(t) ==
  /\ ~Gone(t)
  /\ \/ Enter(t) \/ Sends(t) \/ Recvs(t) \/ Drops(t) \/ Tries(t)
     \/ Manages(t) \/ Lives(t)

\* Everything has ended; a system where somebody still sleeps may not stop here.
Ended == (\A t \in Threads : status[t] = "stopped") /\ UNCHANGED vars

Next == (\E t \in Threads : Step(t)) \/ Ended

Spec == Init /\ [][Next]_vars

\* The processor does not idle while a thread is ready.
BusySpec == Spec /\ WF_vars(Next)

\* ... and a timer goes off at last, although a thread may compute without end.
TimedSpec == BusySpec /\ \A t \in Threads : WF_vars(Timer(t))

\* A thread that may run for ever is run.  Threads of one priority are run first
\* come first served, so this is claimed of programs that do not poll: whoever runs
\* before it blocks, wakes it or ends.
FairSpec == Spec /\ \A t \in Threads : WF_vars(Step(t))

================================================================================
