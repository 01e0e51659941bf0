------------------------------ MODULE ClientProofs ------------------------------
(******************************************************************************)
(* What the programs of Clients are told: where it comes from, that the       *)
(* workers of the duel are told what was meant for them (OwnConfiguration),   *)
(* and that the players of the ping-pong hear their numbers back (Echoed).    *)
(******************************************************************************)
EXTENDS Clients, IntegrityProofs

--------------------------------------------------------------------------------
(* Where what is heard comes from, whatever the programs are.                 *)

SayOps == SendOps \cup {"try_send"}

\* What the programs say on c, and the bytes that say it.
SaidOn(c) == {v \in Int : \E t \in Threads : \E call \in OwnCalls(t) :
                             call.op \in SayOps /\ call.c = c /\ call.v = v}
CellsOf(c) == {cell \in CellSet : cell.msg.says \in SaidOn(c)}
ToldResults == {r \in Results : r.call.op \in ReceiveOps /\ r.n > 0 => r.heard \in SaidOn(r.call.c)}

\* The bytes in a channel, and those a call has taken from it, were said on it, and so
\* was what the threads remember.
Provenance ==
  /\ \A c \in Chans, k \in BOOLEAN : files[c][k] \in Seq(CellsOf(c))
  /\ \A t \in Threads :
       /\ ret[t] \in Seq(ToldResults)
       /\ th[t].pc # "idle" => th[t].out \in Seq(CellsOf(th[t].call.c))
       /\ th[t].pc = "try_send" => th[t].call.op = "try_send"

\* A step of t in a call: what it does to the ring buffers, and how the call goes on.
Fills(c) ==
  \/ UNCHANGED files
  \/ \E k \in BOOLEAN, q \in Seq(CellsOf(c)) : Put(c, k, q)
Handles(t, call) ==
  \/ \E f : /\ Goto(t, f) /\ f.call = call /\ f.out \in Seq(CellsOf(call.c))
            /\ f.pc = "try_send" => call.op = "try_send"
  \/ \E n \in Nat, heard \in Int :
       /\ ReturnHeard(t, call, n, heard)
       /\ call.op \in ReceiveOps /\ n > 0 => heard \in SaidOn(call.c)
Hands(t, call) == Fills(call.c) /\ Handles(t, call)

LEMMA CellsSubset == ASSUME NEW c PROVE CellsOf(c) \subseteq CellSet
BY DEF CellsOf

\* The parts of a message that t says.
LEMMA SaidCells ==
  ASSUME ThreadsOK, NEW t \in Threads, NEW call \in OwnCalls(t), call.op \in SayOps,
         NEW from \in Nat, NEW n \in Nat
  PROVE  Cells(Message(t, call), from, n) \in Seq(CellsOf(call.c))
<1> DEFINE m == Message(t, call)
           cell(i) == [msg |-> m, off |-> from + i]
<1>1. call \in Calls /\ call.v \in Int
  BY DEF OwnCalls, Calls
<1>2. m \in Messages /\ m.says = call.v
  <2>1. m \in Messages
    BY <1>1, MessageType
  <2> QED
    BY <2>1 DEF Message
<1>3. call.v \in SaidOn(call.c)
  BY <1>1 DEF SaidOn
<1> HIDE DEF m
<1>4. \A i \in 1..n : cell(i) \in CellsOf(call.c)
  <2> SUFFICES ASSUME NEW i \in 1..n PROVE cell(i) \in CellsOf(call.c)
    OBVIOUS
  <2>1. from + i \in Nat
    OBVIOUS
  <2>2. cell(i) \in CellSet /\ cell(i).msg = m
    BY <1>2, <2>1 DEF CellSet
  <2> HIDE DEF cell
  <2> QED
    BY <1>2, <1>3, <2>2 DEF CellsOf
<1>5. [i \in 1..n |-> cell(i)] \in Seq(CellsOf(call.c))
  <2> HIDE DEF cell
  <2> QED
    BY <1>4, IsASeq
<1> QED
  BY <1>5 DEF Cells, m

LEMMA HeardSaid ==
  ASSUME NEW c, NEW out \in Seq(CellsOf(c)), Len(out) > 0
  PROVE  Heard(out) \in SaidOn(c)
<1>1. Len(out) \in Nat /\ out # <<>>
  BY LenProperties, EmptySeq
<1>2. out[1] \in CellsOf(c)
  BY <1>1, ElementOfSeq
<1> QED
  BY <1>1, <1>2 DEF Heard, CellsOf

\* Returns that tell nothing, and new frames, which hold nothing.
LEMMA PlainHandles ==
  ASSUME NEW t \in Threads, NEW call \in Calls
  PROVE  /\ \A n \in Nat : Return(t, call, n) /\ (call.op \notin ReceiveOps \/ n = 0) => Handles(t, call)
         /\ \A pc, k : Goto(t, Frame(pc, call, k)) /\ (pc = "try_send" => call.op = "try_send")
                       => Handles(t, call)
         /\ \A pc, k, bytes : Goto(t, SendFrame(pc, call, k, bytes)) /\ pc # "try_send" => Handles(t, call)
         /\ \A pc, k, size : \A out \in Seq(CellsOf(call.c)) :
              Goto(t, RecvFrame(pc, call, k, size, out)) /\ pc # "try_send" => Handles(t, call)
<1>0. <<>> \in Seq(CellsOf(call.c))
  BY EmptySeq
<1>1. \A n \in Nat : Return(t, call, n) /\ (call.op \notin ReceiveOps \/ n = 0) => Handles(t, call)
  BY DEF Return, Handles
<1>2. ASSUME NEW pc, NEW k, Goto(t, Frame(pc, call, k)), pc = "try_send" => call.op = "try_send"
      PROVE  Handles(t, call)
  <2>1. Frame(pc, call, k).call = call /\ Frame(pc, call, k).pc = pc /\ Frame(pc, call, k).out = <<>>
    BY DEF Frame
  <2> QED
    BY <1>0, <1>2, <2>1 DEF Handles
<1>3. ASSUME NEW pc, NEW k, NEW bytes, Goto(t, SendFrame(pc, call, k, bytes)), pc # "try_send"
      PROVE  Handles(t, call)
  <2> DEFINE f == SendFrame(pc, call, k, bytes)
  <2>1. f.call = call /\ f.pc = pc /\ f.out = <<>>
    BY DEF SendFrame, Frame
  <2> HIDE DEF f
  <2> QED
    BY <1>0, <1>3, <2>1 DEF Handles, f
<1>4. ASSUME NEW pc, NEW k, NEW size, NEW out \in Seq(CellsOf(call.c)),
             Goto(t, RecvFrame(pc, call, k, size, out)), pc # "try_send"
      PROVE  Handles(t, call)
  <2> DEFINE f == RecvFrame(pc, call, k, size, out)
  <2>1. f.call = call /\ f.pc = pc /\ f.out = out
    BY FrameParts
  <2> HIDE DEF f
  <2> QED
    BY <1>4, <2>1 DEF Handles, f
<1> QED
  BY <1>1, <1>2, <1>3, <1>4

LEMMA SendLoopHands ==
  ASSUME ThreadsOK, NEW t \in Threads, NEW call \in OwnCalls(t), call.op \in SendOps,
         NEW k \in BOOLEAN, NEW q \in Seq(CellsOf(call.c)), Len(q) <= BufSize,
         NEW bytes \in Nat, bytes <= call.n, SendLoop(t, call, k, q, bytes)
  PROVE  Hands(t, call)
<1> DEFINE rest == Rest(Message(t, call), bytes)
<1>0. call \in Calls /\ call.n \in Nat /\ call.op \notin ReceiveOps /\ call.op \in SayOps
  BY DEF OwnCalls, Calls, SendOps, ReceiveOps, SayOps
<1>1. rest \in Seq(CellsOf(call.c))
  <2>1. HdrSize + bytes \in Nat /\ call.n - bytes \in Nat
    BY <1>0, ChannelAssumption
  <2>2. Message(t, call).size = call.n
    BY <1>0, MessageType
  <2> QED
    BY <1>0, <2>1, <2>2, SaidCells DEF Rest
<1>2. RbAdd(q, rest) \in Seq(CellsOf(call.c))
  <2> HIDE DEF rest
  <2> QED
    BY <1>1, AddFits
<1>3. Fills(call.c)
  BY <1>2 DEF SendLoop, Fills
<1>4. Handles(t, call)
  BY <1>0, PlainHandles DEF SendLoop
<1> QED
  BY <1>3, <1>4 DEF Hands

LEMMA SendHeaderHands ==
  ASSUME TypeOK, Provenance, NEW t \in Threads, NEW call \in OwnCalls(t), call.op \in SendOps,
         NEW k \in BOOLEAN, SendHeader(t, call, k)
  PROVE  Hands(t, call)
<1> DEFINE q == files[call.c][k]
           torn == RbAdd(q, Header(Message(t, call)))
<1>0. /\ call \in Calls /\ call.c \in Chans /\ call.n \in Nat /\ call.op \in SayOps
      /\ ThreadsOK /\ HdrSize \in Nat
  BY ChannelAssumption DEF OwnCalls, Calls, TypeOK, SayOps
<1>1. q \in Seq(CellsOf(call.c)) /\ Len(q) <= BufSize
  BY <1>0 DEF Provenance, TypeOK, FilesOK, Rings
<1>2. Header(Message(t, call)) \in Seq(CellsOf(call.c))
  BY <1>0, SaidCells DEF Header
<1>3. torn \in Seq(CellsOf(call.c)) /\ Len(torn) <= BufSize /\ RbFree(q) \in Nat
  BY <1>1, <1>2, AddFits
<1>4. RbDrop(torn, RbFree(q)) \in Seq(CellsOf(call.c))
  BY <1>3, GetAndDrop
<1>5. CASE SendLoop(t, call, k, torn, 0)
  <2> HIDE DEF torn
  <2> QED
    BY <1>0, <1>3, <1>5, SendLoopHands
<1>6. CASE ~SendLoop(t, call, k, torn, 0)
  <2>1. Fills(call.c)
    BY <1>3, <1>4, <1>6 DEF SendHeader, Fills
  <2>2. Handles(t, call)
    BY <1>0, <1>6, PlainHandles DEF SendHeader
  <2> QED
    BY <2>1, <2>2 DEF Hands
<1> QED
  BY <1>5, <1>6

\* What a loop takes out next, and what it leaves.
LEMMA TakenCells ==
  ASSUME NEW c, NEW q \in Seq(CellsOf(c)), NEW out \in Seq(CellsOf(c)), NEW size \in Nat, Len(out) <= size
  PROVE  LET chunk == RbGet(q, size - Len(out))
         IN  /\ out \o chunk \in Seq(CellsOf(c)) /\ Len(out \o chunk) <= size
             /\ RbDrop(q, Len(chunk)) \in Seq(CellsOf(c))
<1> DEFINE chunk == RbGet(q, size - Len(out))
<1>1. Len(out) \in Nat /\ size - Len(out) \in Nat
  BY LenProperties
<1>2. chunk \in Seq(CellsOf(c)) /\ Len(chunk) <= size - Len(out)
  BY <1>1, GetAndDrop
<1>3. Len(chunk) \in Nat
  BY <1>2, LenProperties
<1>4. out \o chunk \in Seq(CellsOf(c)) /\ Len(out \o chunk) = Len(out) + Len(chunk)
  BY <1>2, ConcatProperties
<1>5. RbDrop(q, Len(chunk)) \in Seq(CellsOf(c))
  BY <1>3, GetAndDrop
<1> QED
  BY <1>1, <1>2, <1>3, <1>4, <1>5

\* A receive or a drop that is over with something tells what was said.
LEMMA TellsSaid ==
  ASSUME NEW t \in Threads, NEW call \in Calls, NEW out \in Seq(CellsOf(call.c)), NEW n \in Nat,
         n > 0 => n = Len(out), ReturnHeard(t, call, n, Heard(out))
  PROVE  Handles(t, call)
<1>1. Heard(out) \in Int
  <2>1. out \in Seq(CellSet)
    <3>1. \A i \in 1..Len(out) : out[i] \in CellSet
      BY ElementOfSeq, CellsSubset
    <3>2. Len(out) \in Nat /\ out = [i \in 1..Len(out) |-> out[i]]
      BY LenProperties
    <3> QED
      BY <3>1, <3>2, IsASeq
  <2> QED
    BY <2>1, HeardType
<1>2. n > 0 => Heard(out) \in SaidOn(call.c)
  BY HeardSaid
<1> QED
  BY <1>1, <1>2 DEF Handles

LEMMA TakeLoopHands ==
  ASSUME NEW t \in Threads, NEW call \in Calls, NEW k \in BOOLEAN, NEW size \in Nat,
         NEW q \in Seq(CellsOf(call.c)), NEW out \in Seq(CellsOf(call.c)), Len(out) <= size,
         RecvLoop(t, call, k, size, q, out) \/ DropLoop(t, call, k, size, q, out)
  PROVE  Hands(t, call)
<1> DEFINE chunk == RbGet(q, size - Len(out))
           more == out \o chunk
           left == RbDrop(q, Len(chunk))
           frame == RecvFrame("drop_dropped", call, k, size, more)
<1>1. more \in Seq(CellsOf(call.c)) /\ left \in Seq(CellsOf(call.c))
  BY TakenCells
<1>2. frame.call = call /\ frame.rb = k /\ frame.out = more
  <2> HIDE DEF more
  <2> QED
    BY FrameParts
<1>3. ReturnHeard(t, call, IF Len(out) = size THEN size ELSE 0, Heard(out)) => Handles(t, call)
  <2>1. (IF Len(out) = size THEN size ELSE 0) \in Nat
    OBVIOUS
  <2> QED
    BY <2>1, TellsSaid
<1>4. ASSUME DropWait(t, frame, left) PROVE Hands(t, call)
  <2> DEFINE f == [frame EXCEPT !.pc = "drop_loop"]
  <2>1. f.call = call /\ f.out = more /\ f.pc = "drop_loop"
    BY <1>2 DEF RecvFrame, Frame
  <2>2. Put(call.c, k, left) /\ (Return(t, call, 0) \/ Goto(t, f))
    BY <1>2, <1>4 DEF DropWait
  <2> HIDE DEF f, frame, more, left
  <2>3. Goto(t, f) => Handles(t, call)
    BY <1>1, <2>1 DEF Handles
  <2>4. Return(t, call, 0) => Handles(t, call)
    BY PlainHandles
  <2> QED
    BY <1>1, <2>2, <2>3, <2>4 DEF Hands, Fills
<1>5. CASE RecvLoop(t, call, k, size, q, out)
  <2>1. Fills(call.c)
    BY <1>1, <1>5 DEF RecvLoop, Fills
  <2>2. \/ ReturnHeard(t, call, IF Len(out) = size THEN size ELSE 0, Heard(out))
        \/ Goto(t, RecvFrame("recv_got", call, k, size, more))
        \/ Goto(t, RecvFrame("recv_loop", call, k, size, out))
    BY <1>5 DEF RecvLoop
  <2> HIDE DEF more
  <2>3. Handles(t, call)
    BY <1>1, <1>3, <2>2, PlainHandles
  <2> QED
    BY <2>1, <2>3 DEF Hands
<1>6. CASE DropLoop(t, call, k, size, q, out) /\ ~DropWait(t, frame, left)
  <2>1. \/ Put(call.c, k, q) /\ ReturnHeard(t, call, IF Len(out) = size THEN size ELSE 0, Heard(out))
        \/ Put(call.c, k, left) /\ Goto(t, frame)
    BY <1>6 DEF DropLoop
  <2>2. Goto(t, frame) => Handles(t, call)
    <3> HIDE DEF more
    <3> QED
      BY <1>1, PlainHandles
  <2> HIDE DEF frame, left
  <2> QED
    BY <1>1, <1>3, <2>1, <2>2 DEF Hands, Fills
<1> QED
  BY <1>4, <1>5, <1>6

LEMMA TakeHeaderHands ==
  ASSUME TypeOK, Provenance, NEW t \in Threads, NEW call \in Calls, NEW k \in BOOLEAN,
         RecvHeader(t, call, k) \/ DropHeader(t, call, k)
  PROVE  Hands(t, call)
<1> DEFINE q == files[call.c][k]
<1>0. call.c \in Chans /\ q \in Rings /\ q \in Seq(CellsOf(call.c)) /\ HdrSize \in Nat
  BY ChannelAssumption DEF Calls, TypeOK, FilesOK, Provenance
<1>1. RbDrop(q, HdrSize) \in Seq(CellsOf(call.c)) /\ <<>> \in Seq(CellsOf(call.c))
  BY <1>0, GetAndDrop, EmptySeq
<1>2. CASE Len(q) < HdrSize
  <2>1. UNCHANGED files /\ \E pc \in {"recv_hdr", "drop_hdr"} : Goto(t, Frame(pc, call, k))
    BY <1>0, <1>2, RingFacts DEF RecvHeader, DropHeader
  <2> QED
    BY <2>1, PlainHandles DEF Hands, Fills
<1>3. CASE Len(q) >= HdrSize
  <2>1. PICK size \in SizesIn(q) : \/ RecvLoop(t, call, k, size, RbDrop(q, HdrSize), <<>>)
                                  \/ DropLoop(t, call, k, size, RbDrop(q, HdrSize), <<>>)
    BY <1>0, <1>3, RingFacts DEF RecvHeader, DropHeader
  <2>2. size \in Nat /\ Len(<<>>) <= size
    BY <1>0, <1>3, SizesType, RingFacts, EmptySeq
  <2> QED
    BY <1>1, <2>1, <2>2, TakeLoopHands
<1> QED
  BY <1>0, <1>2, <1>3, RingFacts

\* A step of t in a call it makes, or begins.
Does(t) == \E call \in OwnCalls(t) :
  /\ IF th[t].pc = "idle" THEN call \in NextCalls(t) ELSE call = th[t].call
  /\ Hands(t, call)

\* The call t is in, and what it holds of it.
LEMMA InCall ==
  ASSUME TypeOK, InProgram, Provenance, NEW t \in Threads, th[t].pc # "idle"
  PROVE  LET f == th[t]
         IN  /\ f.call \in OwnCalls(t) /\ f.call \in Calls /\ f.call.c \in Chans /\ f.rb \in BOOLEAN
             /\ f.bytes \in Nat /\ f.bytes <= f.call.n /\ f.size \in Nat
             /\ f.out \in Seq(CellsOf(f.call.c)) /\ Len(f.out) <= f.size
             /\ \A k \in BOOLEAN : /\ files[f.call.c][k] \in Seq(CellsOf(f.call.c))
                                   /\ Len(files[f.call.c][k]) <= BufSize
             /\ Hands(t, f.call) => Does(t)
<1> DEFINE f == th[t]
<1>1. /\ f.call \in Calls /\ f.call.c \in Chans /\ f.rb \in BOOLEAN
      /\ f.bytes \in 0..f.call.n /\ f.size \in Nat /\ Len(f.out) <= f.size
  BY FrameFacts DEF TypeOK
<1>2. f.bytes \in Nat /\ f.bytes <= f.call.n
  BY <1>1 DEF Calls
<1>3. \A k \in BOOLEAN : /\ files[f.call.c][k] \in Seq(CellsOf(f.call.c))
                         /\ Len(files[f.call.c][k]) <= BufSize
  BY <1>1 DEF TypeOK, FilesOK, Rings, Provenance
<1>4. f.call \in OwnCalls(t) /\ f.out \in Seq(CellsOf(f.call.c))
  BY DEF InProgram, Provenance
<1>5. Hands(t, f.call) => Does(t)
  BY <1>4 DEF Does
<1> QED
  BY <1>1, <1>2, <1>3, <1>4, <1>5

\* A call that begins.
LEMMA Begins ==
  ASSUME TypeOK, NEW t \in Threads, NEW call \in NextCalls(t), th[t].pc = "idle", Hands(t, call)
  PROVE  Does(t)
BY NextIsOwn DEF Does, TypeOK

LEMMA SendsHand ==
  ASSUME TypeOK, InProgram, Provenance, NEW t \in Threads, Sends(t)
  PROVE  Does(t)
<1> DEFINE f == th[t]
           own == f.call
<1>0. f.pc \in SendPcs => f.pc # "idle" /\ own.op \in SendOps /\ own.op \notin ReceiveOps
  BY DEF InProgram, PcsOf, SendPcs, RecvPcs, DropPcs, SendOps, ReceiveOps
<1>1. ThreadsOK /\ \A call : OutFile(t, call.c) \in BOOLEAN
  BY DEF OutFile, TypeOK
<1>2. ASSUME f.pc \in SendPcs, SendBody(t, own) PROVE Does(t)
  <2>1. CASE Return(t, own, 0) /\ UNCHANGED files
    BY <1>0, <1>2, <2>1, InCall, PlainHandles DEF Hands, Fills
  <2>2. CASE SendHeader(t, own, OutFile(t, own.c))
    BY <1>0, <1>1, <1>2, <2>2, InCall, SendHeaderHands
  <2> QED
    BY <1>2, <2>1, <2>2 DEF SendBody
<1>3. CASE SendSync(t)
  <2>1. f.pc = "send" /\ f.pc \in SendPcs
    BY <1>3 DEF SendSync, At, SendPcs
  <2>2. CASE Synchronize(t, own, TRUE, "send_body")
    BY <1>0, <2>1, <2>2, InCall, PlainHandles DEF Synchronize, Hands, Fills
  <2> QED
    BY <1>2, <1>3, <2>1, <2>2 DEF SendSync
<1>4. CASE SendSynced(t)
  BY <1>2, <1>4 DEF SendSynced, At, SendPcs
<1>5. CASE SendMsgCall(t)
  <2>1. PICK call \in NextCalls(t) : /\ call.op = "send_msg" /\ th[t].pc = "idle"
                                     /\ SendHeader(t, call, OutFile(t, call.c))
    BY <1>5 DEF SendMsgCall, Invokes
  <2>2. call \in OwnCalls(t) /\ call.op \in SendOps
    BY <1>1, <2>1, NextIsOwn DEF SendOps
  <2> QED
    BY <1>1, <2>1, <2>2, Begins, SendHeaderHands
<1>6. CASE SendHeaderAgain(t)
  <2>1. f.pc \in SendPcs /\ SendHeader(t, own, f.rb)
    BY <1>6 DEF SendHeaderAgain, At, SendPcs
  <2> QED
    BY <1>0, <2>1, InCall, SendHeaderHands
<1>7. ASSUME f.pc \in SendPcs, SendLoop(t, own, f.rb, files[own.c][f.rb], f.bytes) PROVE Does(t)
  BY <1>0, <1>1, <1>7, InCall, SendLoopHands
<1>8. CASE SendResume(t)
  BY <1>7, <1>8 DEF SendResume, At, SendPcs
<1>9. CASE SendSent(t)
  <2>1. f.pc \in SendPcs
    BY <1>9 DEF SendSent, At, SendPcs
  <2>2. CASE Return(t, own, f.bytes) /\ UNCHANGED files
    BY <1>0, <2>1, <2>2, InCall, PlainHandles DEF Hands, Fills
  <2> QED
    BY <1>7, <1>9, <2>1, <2>2 DEF SendSent
<1> QED
  BY <1>3, <1>4, <1>5, <1>6, <1>8, <1>9 DEF Sends

LEMMA TakesHand ==
  ASSUME TypeOK, InProgram, Provenance, NEW t \in Threads, Recvs(t) \/ Drops(t)
  PROVE  Does(t)
<1> DEFINE f == th[t]
           own == f.call
<1>1. ThreadsOK /\ \A call : InFile(t, call.c) \in BOOLEAN
  BY DEF InFile, TypeOK
<1>2. ASSUME f.pc # "idle", NEW k \in BOOLEAN, RecvHeader(t, own, k) \/ DropHeader(t, own, k)
      PROVE  Does(t)
  BY <1>2, InCall, TakeHeaderHands
<1>3. ASSUME f.pc # "idle", RecvBody(t, own) PROVE Does(t)
  <2>1. CASE Return(t, own, 0) /\ UNCHANGED files
    BY <1>3, <2>1, InCall, PlainHandles DEF Hands, Fills
  <2> QED
    BY <1>1, <1>2, <1>3, <2>1 DEF RecvBody
<1>4. ASSUME f.pc # "idle", NEW sender, NEW pc, pc # "try_send", Synchronize(t, own, sender, pc)
      PROVE  Does(t)
  BY <1>4, InCall, PlainHandles DEF Synchronize, Hands, Fills
<1>5. ASSUME f.pc # "idle", Taken(t, f) PROVE Does(t)
  <2>1. Len(f.out) \in Nat
    BY <1>5, InCall, LenProperties
  <2>2. ReturnHeard(t, own, Len(f.out), Heard(f.out)) /\ UNCHANGED files
    BY <1>5 DEF Taken
  <2> QED
    BY <1>5, <2>1, <2>2, InCall, TellsSaid DEF Hands, Fills
<1>6. ASSUME f.pc # "idle",
             \/ RecvLoop(t, own, f.rb, f.size, files[own.c][f.rb], f.out)
             \/ DropLoop(t, own, f.rb, f.size, files[own.c][f.rb], f.out)
      PROVE  Does(t)
  BY <1>6, InCall, TakeLoopHands
<1>7. ASSUME f.pc # "idle", DropWait(t, f, files[own.c][f.rb]) PROVE Does(t)
  <2> DEFINE g == [f EXCEPT !.pc = "drop_loop"]
  <2>1. g.call = own /\ g.out = f.out /\ g.pc = "drop_loop"
    BY <1>7, FrameFacts DEF Frames, TypeOK
  <2>2. Put(own.c, f.rb, files[own.c][f.rb]) /\ (Return(t, own, 0) \/ Goto(t, g))
    BY <1>7 DEF DropWait
  <2> HIDE DEF g
  <2>3. Handles(t, own)
    <3>1. Goto(t, g) => Handles(t, own)
      BY <1>7, <2>1, InCall DEF Handles
    <3>2. Return(t, own, 0) => Handles(t, own)
      BY <1>7, InCall, PlainHandles
    <3> QED
      BY <2>2, <3>1, <3>2
  <2>4. Fills(own.c)
    BY <1>7, <2>2, InCall DEF Fills
  <2> QED
    BY <1>7, <2>3, <2>4, InCall DEF Hands
<1>8. CASE RecvMsgCall(t)
  <2>1. PICK call \in NextCalls(t) : th[t].pc = "idle" /\ RecvHeader(t, call, InFile(t, call.c))
    BY <1>8 DEF RecvMsgCall, Invokes
  <2> QED
    BY <1>1, <2>1, NextCallsType, Begins, TakeHeaderHands
<1>9. CASE RecvSync(t) \/ RecvSynced(t) \/ RecvHeaderAgain(t) \/ RecvResume(t)
  <2>1. /\ f.pc # "idle"
        /\ \/ Synchronize(t, own, FALSE, "recv_body") \/ RecvBody(t, own) \/ RecvHeader(t, own, f.rb)
           \/ RecvLoop(t, own, f.rb, f.size, files[own.c][f.rb], f.out)
    BY <1>9 DEF RecvSync, RecvSynced, RecvHeaderAgain, RecvResume, At
  <2> QED
    BY <1>2, <1>3, <1>4, <1>6, <2>1, InCall
<1>10. CASE DropSync(t) \/ DropSynced(t) \/ DropHeaderAgain(t) \/ DropResume(t)
  <2>1. /\ f.pc # "idle"
        /\ \/ Synchronize(t, own, ~OutFile(t, own.c), "drop_body")
           \/ DropHeader(t, own, InFile(t, own.c)) \/ DropHeader(t, own, f.rb)
           \/ DropLoop(t, own, f.rb, f.size, files[own.c][f.rb], f.out)
    BY <1>10 DEF DropSync, DropSynced, DropHeaderAgain, DropResume, At
  <2> QED
    BY <1>1, <1>2, <1>4, <1>6, <2>1, InCall
<1>11. CASE RecvGot(t)
  BY <1>5, <1>6, <1>11 DEF RecvGot, At
<1>12. CASE DropDropped(t)
  BY <1>5, <1>7, <1>12 DEF DropDropped, At
<1> QED
  BY <1>8, <1>9, <1>10, <1>11, <1>12 DEF Recvs, Drops

LEMMA TriesHand ==
  ASSUME TypeOK, InProgram, Provenance, NEW t \in Threads, Tries(t)
  PROVE  Does(t)
<1> DEFINE f == th[t]
           own == f.call
           c == own.c
<1>0. HdrSize \in Nat /\ 1 \in Nat /\ ThreadsOK
  BY ChannelAssumption DEF TypeOK
<1>1. CASE TrySend(t)
  <2> DEFINE k == OutFile(t, c)
             q == files[c][k]
             m == Message(t, own)
             headed == RbAdd(q, Header(m))
             full == RbAdd(headed, Payload(m))
  <2>1. /\ f.pc = "try_send" /\ own.op \in SayOps /\ own.op \notin ReceiveOps
        /\ k \in BOOLEAN /\ own \in OwnCalls(t) /\ own \in Calls /\ own.n \in Nat
    <3>1. f.pc = "try_send"
      BY <1>1 DEF TrySend, At
    <3>2. own.op = "try_send"
      BY <3>1 DEF Provenance
    <3> QED
      BY <3>1, <3>2, InCall DEF SayOps, ReceiveOps, OutFile, Calls
  <2>2. q \in Seq(CellsOf(c)) /\ Len(q) <= BufSize
    BY <2>1, InCall
  <2>3. Header(m) \in Seq(CellsOf(c)) /\ Payload(m) \in Seq(CellsOf(c))
    <3>1. m.size = own.n
      BY DEF Message
    <3> QED
      BY <1>0, <2>1, <3>1, SaidCells DEF Header, Payload
  <2> HIDE DEF m
  <2>4. headed \in Seq(CellsOf(c)) /\ Len(headed) <= BufSize
    BY <2>2, <2>3, AddFits
  <2>5. full \in Seq(CellsOf(c)) /\ Len(full) = Len(headed) + Least(Len(Payload(m)), RbFree(headed))
        /\ RbFree(headed) \in Nat
    <3> HIDE DEF headed
    <3> QED
      BY <2>3, <2>4, AddFits
  <2>6. RbDrop(headed, 1) \in Seq(CellsOf(c))
    <3> HIDE DEF headed
    <3> QED
      BY <1>0, <2>4, GetAndDrop
  <2>7. Len(full) - Len(headed) \in Nat
    BY <2>3, <2>4, <2>5, LenProperties DEF Least
  <2>8. /\ UNCHANGED files \/ Put(c, k, RbDrop(headed, 1)) \/ Put(c, k, full)
        /\ Return(t, own, 0) \/ Return(t, own, Len(full) - Len(headed))
    BY <1>1 DEF TrySend, m
  <2> HIDE DEF headed, full
  <2>9. Fills(c)
    BY <2>1, <2>5, <2>6, <2>8 DEF Fills
  <2>10. Handles(t, own)
    BY <2>1, <2>7, <2>8, PlainHandles
  <2> QED
    BY <2>1, <2>9, <2>10, InCall DEF Hands
<1>2. CASE TryRecv(t)
  <2> DEFINE q == files[c][f.rb]
             hdr == RbGet(q, HdrSize)
             data == RbGet(RbDrop(q, HdrSize), Len(hdr))
             left == RbDrop(q, Len(hdr \o data))
  <2>1. f.pc # "idle"
    BY <1>2 DEF TryRecv, At
  <2>2. q \in Seq(CellsOf(c)) /\ f.rb \in BOOLEAN /\ own \in Calls
    BY <2>1, InCall
  <2>3. hdr \in Seq(CellsOf(c)) /\ Len(hdr) \in Nat /\ RbDrop(q, HdrSize) \in Seq(CellsOf(c))
    BY <1>0, <2>2, GetAndDrop, LenProperties
  <2>4. data \in Seq(CellsOf(c)) /\ Len(data) \in Nat
    BY <2>3, GetAndDrop, LenProperties
  <2>5. left \in Seq(CellsOf(c))
    <3>1. Len(hdr \o data) \in Nat
      BY <2>3, <2>4, ConcatProperties
    <3> QED
      BY <2>2, <3>1, GetAndDrop
  <2>6. Put(c, f.rb, left) /\ ReturnHeard(t, own, Len(data), Heard(data))
    BY <1>2 DEF TryRecv
  <2> HIDE DEF left, data
  <2>7. Fills(c) /\ Handles(t, own)
    BY <2>2, <2>4, <2>5, <2>6, TellsSaid DEF Fills
  <2> QED
    BY <2>1, <2>7, InCall DEF Hands
<1> QED
  BY <1>1, <1>2 DEF Tries

LEMMA RestHands ==
  ASSUME TypeOK, InProgram, Provenance, NEW t \in Threads,
         Enter(t) \/ Manages(t) \/ Lives(t), ~Make(t), ~Go(t), ~Exit(t)
  PROVE  Does(t)
<1> DEFINE f == th[t]
<1>1. CASE Enter(t)
  <2>1. PICK call \in NextCalls(t) :
          /\ f.pc = "idle" /\ call.op \in {"send", "try_send", "recv", "try_recv", "drop"}
          /\ Return(t, call, 0) \/ Goto(t, Frame(call.op, call, InFile(t, call.c)))
          /\ UNCHANGED files
    BY <1>1 DEF Enter, Invokes
  <2>2. Hands(t, call)
    BY <2>1, NextCallsType, PlainHandles DEF Hands, Fills
  <2> QED
    BY <2>1, <2>2, Begins
<1>2. CASE FlagsLoad(t)
  <2>1. PICK call \in NextCalls(t) :
          /\ f.pc = "idle" /\ UNCHANGED files
          /\ Goto(t, [Frame("flags", call, FALSE) EXCEPT !.flags = chan[call.c].flags])
    BY <1>2 DEF FlagsLoad, Invokes
  <2> DEFINE g == [Frame("flags", call, FALSE) EXCEPT !.flags = chan[call.c].flags]
  <2>2. g.call = call /\ g.out = <<>> /\ g.pc = "flags" /\ <<>> \in Seq(CellsOf(call.c))
    BY EmptySeq DEF Frame
  <2>3. Goto(t, g)
    BY <2>1
  <2> HIDE DEF g
  <2>4. Hands(t, call)
    BY <2>1, <2>2, <2>3 DEF Hands, Handles, Fills
  <2> QED
    BY <2>1, <2>4, Begins
<1>3. CASE FlagsStore(t) \/ Timer(t)
  <2>1. f.pc # "idle" /\ Return(t, f.call, 0) /\ UNCHANGED files
    BY <1>3 DEF FlagsStore, Timer, At
  <2> QED
    BY <2>1, InCall, PlainHandles DEF Hands, Fills
<1>4. CASE SetOwner(t) \/ Kill(t) \/ Sleep(t) \/ Spin(t)
  <2>1. PICK call \in NextCalls(t) :
          /\ f.pc = "idle" /\ UNCHANGED files
          /\ Return(t, call, 0) \/ \E pc \in {"asleep", "spin"} : Goto(t, Frame(pc, call, FALSE))
    BY <1>4 DEF SetOwner, Kill, Sleep, Spin, Invokes
  <2>2. Hands(t, call)
    BY <2>1, NextCallsType, PlainHandles DEF Hands, Fills
  <2> QED
    BY <2>1, <2>2, Begins
<1> QED
  BY <1>1, <1>2, <1>3, <1>4 DEF Manages, Lives

LEMMA StepDoes ==
  ASSUME TypeOK, InProgram, Provenance, NEW t \in Threads, Step(t)
  PROVE  Does(t) \/ Make(t) \/ Go(t) \/ Exit(t)
BY SendsHand, TakesHand, TriesHand, RestHands DEF Step

\* What a call adds to the memory of its thread, or what is left of it.
LEMMA ReturnedIn ==
  ASSUME NEW S, NEW h \in Seq(S), NEW call \in Calls, NEW n, NEW heard,
         [call |-> call, n |-> n, heard |-> heard] \in S
  PROVE  Returned(h, call, n, heard) \in Seq(S)
<1>1. Len(h) \in Nat /\ call.again \in Nat
  BY LenProperties DEF Calls
<1>2. Append(h, [call |-> call, n |-> n, heard |-> heard]) \in Seq(S)
  BY AppendProperties
<1>3. CASE call.again > 0
  <2> DEFINE kept == Len(h) + 1 - call.again
  <2>1. kept \in Int /\ kept <= Len(h)
    BY <1>1, <1>3
  <2>2. \A i \in 1..kept : h[i] \in S
    BY <1>1, <2>1, ElementOfSeq
  <2>3. SubSeq(h, 1, kept) \in Seq(S)
    BY <2>1, <2>2, SubSeqProperties
  <2> QED
    BY <1>2, <2>3 DEF Returned
<1>4. CASE ~(call.again > 0)
  BY <1>2, <1>4 DEF Returned
<1> QED
  BY <1>3, <1>4

LEMMA ToldOne ==
  ASSUME NEW call \in Calls, NEW n \in Nat, NEW heard \in Int,
         call.op \in ReceiveOps /\ n > 0 => heard \in SaidOn(call.c)
  PROVE  [call |-> call, n |-> n, heard |-> heard] \in ToldResults
BY DEF ToldResults, Results

LEMMA ProvenanceInit == ASSUME Init PROVE Provenance
<1>1. \A S : <<>> \in Seq(S)
  BY EmptySeq
<1> QED
  BY <1>1 DEF Init, Provenance, NewFiles, Idle, Frame

LEMMA ProvenanceStep ==
  ASSUME TypeOK, InProgram, Provenance, NEW t \in Threads, Step(t)
  PROVE  Provenance'
<1> DEFINE Remembers == \A u \in Threads : ret'[u] \in Seq(ToldResults)
           Carries == \A u \in Threads :
                      /\ th'[u].pc # "idle" => th'[u].out \in Seq(CellsOf(th'[u].call.c))
                      /\ th'[u].pc = "try_send" => th'[u].call.op = "try_send"
           Keeps == \A c \in Chans, k \in BOOLEAN : files'[c][k] \in Seq(CellsOf(c))
<1>0. /\ DOMAIN th = Threads /\ DOMAIN ret = Threads /\ Idle.pc = "idle"
      /\ files \in [Chans -> [BOOLEAN -> Rings]]
      /\ \A u \in Threads : ret[u] \in Seq(ToldResults)
      /\ \A S : <<>> \in Seq(S)
  BY FrameParts, EmptySeq DEF TypeOK, ThreadsOK, FilesOK, Provenance
<1>1. ASSUME Remembers, Carries, Keeps PROVE Provenance'
  BY <1>1 DEF Provenance
<1>2. UNCHANGED files => Keeps
  BY DEF Provenance
<1>3. ASSUME NEW call \in Calls, call.op \notin ReceiveOps
      PROVE  \A u \in Threads : Returned(ret[u], call, 0, 0) \in Seq(ToldResults)
  <2>1. [call |-> call, n |-> 0, heard |-> 0] \in ToldResults
    BY <1>3, ToldOne
  <2> QED
    BY <1>0, <2>1, ReturnedIn
<1>4. CASE Does(t)
  <2>1. PICK call \in OwnCalls(t) : Hands(t, call)
    BY <1>4 DEF Does
  <2>2. call \in Calls /\ call.c \in Chans
    BY DEF OwnCalls, Calls
  <2>3. Keeps
    <3>1. CASE UNCHANGED files
      BY <1>2, <3>1
    <3>2. CASE ~UNCHANGED files
      <4>1. PICK k \in BOOLEAN, q \in Seq(CellsOf(call.c)) : files' = [files EXCEPT ![call.c][k] = q]
        BY <2>1, <3>2 DEF Hands, Fills, Put
      <4>2. \A d \in Chans, j \in BOOLEAN :
              files'[d][j] = IF d = call.c /\ j = k THEN q ELSE files[d][j]
        BY <1>0, <2>2, <4>1
      <4> QED
        BY <4>2 DEF Provenance
    <3> QED
      BY <3>1, <3>2
  <2>4. Remembers /\ Carries
    <3>1. ASSUME NEW f, Goto(t, f), f.out \in Seq(CellsOf(f.call.c)),
                 f.pc = "try_send" => f.call.op = "try_send"
          PROVE  Remembers /\ Carries
      <4>1. ret' = ret /\ th'[t] = f /\ \A u \in Threads \ {t} : th'[u] = th[u]
        BY <1>0, <3>1 DEF Goto
      <4> QED
        BY <3>1, <4>1 DEF Provenance
    <3>2. ASSUME NEW n \in Nat, NEW heard \in Int, ReturnHeard(t, call, n, heard),
                 call.op \in ReceiveOps /\ n > 0 => heard \in SaidOn(call.c)
          PROVE  Remembers /\ Carries
      <4>1. Returned(ret[t], call, n, heard) \in Seq(ToldResults)
        BY <1>0, <2>2, <3>2, ReturnedIn, ToldOne
      <4>2. /\ th'[t] = Idle /\ ret'[t] = Returned(ret[t], call, n, heard)
            /\ \A u \in Threads \ {t} : th'[u] = th[u] /\ ret'[u] = ret[u]
        BY <1>0, <3>2 DEF ReturnHeard
      <4> QED
        BY <1>0, <4>1, <4>2 DEF Provenance
    <3> QED
      BY <2>1, <3>1, <3>2 DEF Hands, Handles
  <2> QED
    BY <1>1, <2>3, <2>4
<1>5. CASE Make(t)
  <2>1. PICK call \in NextCalls(t) :
          /\ call.op = "make" /\ files' = [files EXCEPT ![call.c] = NewFiles]
          /\ ReturnHeard(t, call, 0, 0)
    BY <1>5 DEF Make, Invokes, Return
  <2>2. call \in Calls /\ call.c \in Chans /\ call.op \notin ReceiveOps
    BY <2>1, NextCallsType DEF ReceiveOps
  <2>3. Keeps
    <3>1. \A d \in Chans : files'[d] = IF d = call.c THEN NewFiles ELSE files[d]
      BY <1>0, <2>1, <2>2
    <3> QED
      BY <1>0, <3>1 DEF Provenance, NewFiles
  <2>4. /\ th'[t] = Idle /\ ret'[t] = Returned(ret[t], call, 0, 0)
        /\ \A u \in Threads \ {t} : th'[u] = th[u] /\ ret'[u] = ret[u]
    BY <1>0, <2>1 DEF ReturnHeard
  <2>5. Remembers /\ Carries
    BY <1>0, <1>3, <2>2, <2>4 DEF Provenance
  <2> QED
    BY <1>1, <2>3, <2>5
<1>6. CASE Go(t)
  <2>1. PICK call \in NextCalls(t) :
          /\ call.op = "go" /\ call.to # t /\ th' = [th EXCEPT ![call.to] = Idle]
          /\ ret' = [ret EXCEPT ![call.to] = <<>>, ![t] = Returned(@, call, 0, 0)]
          /\ UNCHANGED files
    BY <1>6 DEF Go, Invokes
  <2>2. call \in Calls /\ call.to \in Threads /\ call.op \notin ReceiveOps
    BY <2>1, NextCallsType DEF ReceiveOps, Calls
  <2>3. \A u \in Threads : /\ th'[u] = (IF u = call.to THEN Idle ELSE th[u])
                           /\ ret'[u] \in {<<>>, ret[u], Returned(ret[u], call, 0, 0)}
    BY <1>0, <2>1, <2>2
  <2>4. Remembers /\ Carries
    BY <1>0, <1>3, <2>2, <2>3 DEF Provenance
  <2> QED
    BY <1>1, <1>2, <2>1, <2>4
<1>7. CASE Exit(t)
  BY <1>7 DEF Exit, Provenance
<1> QED
  BY <1>4, <1>5, <1>6, <1>7, StepDoes

\* Whatever the programs are, a receive that returns something tells what some
\* thread says on its channel.
LEMMA ProvenanceInvariant == Spec => [](TypeOK /\ InProgram /\ Provenance)
<1>1. TypeOK /\ InProgram /\ Provenance /\ [Next]_vars => Provenance'
  <2>1. UNCHANGED vars /\ Provenance => Provenance'
    BY DEF vars, Provenance
  <2> QED
    BY <2>1, ProvenanceStep DEF Next, Ended
<1> QED
  BY <1>1, ProvenanceInit, ProgramInvariant, PTL DEF Spec

--------------------------------------------------------------------------------
(* The duel: each worker hears its own configuration, once.                   *)

\* Main and the workers run their programs, and nobody else sends on their channels.
DuelBoard ==
  /\ \A i \in 1..3 : Duelists[i] \in Threads
  /\ \A h \in Seq(Results) :
       /\ Code("duel_main", h) = DuelMain(h)
       /\ \A i \in 1..3 : Code(Duelists[i], h) = DuelWorker(i, h)
  /\ \A t \in Threads : t = "duel_main" \/ (\E i \in 1..3 : t = Duelists[i])
       \/ \A call \in OwnCalls(t), i \in 1..3 : ~(call.op \in SayOps /\ call.c = DuelChans[i])

\* A worker receives in its second call, and never repeats one.
Awaits(w) ==
  /\ \A j \in 1..Len(ret[w]) : ret[w][j].call.op = "recv" => j = 2
  /\ th[w].pc # "idle" => th[w].call.again = 0 /\ (th[w].call.op = "recv" => Len(ret[w]) = 1)

LEMMA ToCallParts ==
  \A op, c, n : LET call == ToCall(op, c, n)
                IN  call.op = op /\ call.c = c /\ call.n = n /\ call.v = 0 /\ call.again = 0
BY DEF ToCall

\* The parts of a list of calls.
LEMMA WorkerCalls ==
  ASSUME NEW i \in 1..3, NEW h \in Seq(Results), NEW call \in DuelWorker(i, h)
  PROVE  /\ call.again = 0 /\ call.op \in {"sleep", "recv", "spin"}
         /\ call.op = "recv" => Len(h) = 1
<1> DEFINE list == << ToSleep, ToRecv(DuelChans[i]), ToSpin >>
<1>1. Len(h) \in Nat /\ Len(list) = 3
  BY LenProperties
<1>2. Len(h) < 3 /\ call \in list[Len(h) + 1]
  BY <1>1 DEF DuelWorker, InOrder
<1>3. Len(h) \in {0, 1, 2}
  <2>1. \A n \in Nat : n < 3 => n \in {0, 1, 2}
    OBVIOUS
  <2> HIDE DEF list
  <2> QED
    BY <1>1, <1>2, <2>1
<1>4. CASE Len(h) = 0
  <2>1. call = ToCall("sleep", AnyChan, 0)
    BY <1>2, <1>4 DEF ToSleep
  <2> QED
    BY <1>4, <2>1, ToCallParts
<1>5. CASE Len(h) = 1
  <2>1. call = ToCall("recv", DuelChans[i], 1)
    BY <1>2, <1>5 DEF ToRecv
  <2> QED
    BY <1>5, <2>1, ToCallParts
<1>6. CASE Len(h) = 2
  <2>1. call = ToCall("spin", AnyChan, 0)
    BY <1>2, <1>6 DEF ToSpin
  <2> QED
    BY <1>6, <2>1, ToCallParts
<1> QED
  BY <1>3, <1>4, <1>5, <1>6

LEMMA MainSays ==
  ASSUME NEW h \in Seq(Results), NEW call \in DuelMain(h), call.op \in SayOps, NEW i \in 1..3,
         call.c = DuelChans[i]
  PROVE  call.v = i
<1> DEFINE worker(j) == << ToMake(DuelChans[j], 1), ToSend(DuelChans[j], 4, j), ToGo(Duelists[j]) >>
           two == worker(1) \o worker(2)
           list == two \o worker(3)
           Of(j, calls) == calls \in {ToMake(DuelChans[j], 1), ToSend(DuelChans[j], 4, j), ToGo(Duelists[j])}
           Calls3 == {calls \in SUBSET UNION {ToMake(DuelChans[j], 1) \cup ToSend(DuelChans[j], 4, j)
                                               \cup ToGo(Duelists[j]) : j \in 1..3} :
                        \E j \in 1..3 : Of(j, calls)}
<1>1. \A j \in 1..3 : worker(j) \in Seq(Calls3)
  OBVIOUS
<1>2. list \in Seq(Calls3)
  <2> HIDE DEF worker, Calls3
  <2>1. two \in Seq(Calls3)
    BY <1>1, ConcatProperties
  <2> QED
    BY <1>1, <2>1, ConcatProperties
<1>3. Len(h) + 1 \in 1..Len(list) /\ call \in list[Len(h) + 1]
  <2>1. call \in InOrder(list, h)
    BY DEF DuelMain
  <2>2. Len(h) \in Nat /\ Len(list) \in Nat
    BY <1>2, LenProperties
  <2> HIDE DEF list
  <2> QED
    BY <2>1, <2>2 DEF InOrder
<1>4. list[Len(h) + 1] \in Calls3
  <2> HIDE DEF list, Calls3
  <2> QED
    BY <1>2, <1>3, ElementOfSeq
<1>5. PICK j \in 1..3 : Of(j, list[Len(h) + 1])
  <2> HIDE DEF list
  <2> QED
    BY <1>4
<1>6. call.op = "send" /\ call.c = DuelChans[j] /\ call.v = j
  <2>1. \/ call = ToCall("make", DuelChans[j], 1)
        \/ call = [ToCall("send", DuelChans[j], 4) EXCEPT !.v = j]
        \/ call = [ToCall("go", AnyChan, 0) EXCEPT !.to = Duelists[j]]
    <3> HIDE DEF list
    <3> QED
      BY <1>3, <1>5 DEF ToMake, ToSend, ToGo
  <2> QED
    BY <2>1 DEF ToCall, SayOps, SendOps
<1> QED
  BY <1>6 DEF DuelChans

\* On the channel of worker i only i is said.
LEMMA OwnSaid ==
  ASSUME DuelBoard, NEW i \in 1..3, NEW v \in SaidOn(DuelChans[i])
  PROVE  v = i
<1>1. PICK t \in Threads : \E call \in OwnCalls(t) :
        call.op \in SayOps /\ call.c = DuelChans[i] /\ call.v = v
  BY DEF SaidOn
<1>2. PICK call \in OwnCalls(t) : call.op \in SayOps /\ call.c = DuelChans[i] /\ call.v = v
  BY <1>1
<1>3. PICK h \in Seq(Results) : call \in Code(t, h)
  BY DEF OwnCalls
<1>4. CASE t = "duel_main"
  BY <1>2, <1>3, <1>4, MainSays DEF DuelBoard
<1>5. CASE \E j \in 1..3 : t = Duelists[j]
  <2>1. PICK j \in 1..3 : call \in DuelWorker(j, h)
    BY <1>3, <1>5 DEF DuelBoard
  <2> QED
    BY <1>2, <2>1, WorkerCalls DEF SayOps, SendOps
<1> QED
  BY <1>2, <1>4, <1>5 DEF DuelBoard

LEMMA AwaitsStep ==
  ASSUME DuelBoard, TypeOK, InProgram, Provenance, NEW i \in 1..3, NEW w, w = Duelists[i],
         Awaits(w), NEW t \in Threads, Step(t)
  PROVE  Awaits(w)'
<1>0. /\ w \in Threads /\ DOMAIN th = Threads /\ DOMAIN ret = Threads
      /\ ret[w] \in Seq(Results) /\ Len(ret[w]) \in Nat /\ Idle.pc = "idle" /\ Len(<<>>) = 0
  BY FrameParts, LenProperties DEF TypeOK, ThreadsOK, DuelBoard
<1>1. ASSUME t = w, NEW call \in NextCalls(t)
      PROVE  /\ call.again = 0 /\ call.op \in {"sleep", "recv", "spin"}
             /\ call.op = "recv" => Len(ret[w]) = 1
  <2>1. call \in DuelWorker(i, ret[w])
    BY <1>0, <1>1 DEF NextCalls, DuelBoard
  <2> QED
    BY <1>0, <2>1, WorkerCalls
<1>2. th'[w] = th[w] /\ ret'[w] = ret[w] => Awaits(w)'
  BY DEF Awaits
<1>3. ASSUME ret'[w] = <<>>, th'[w] = Idle PROVE Awaits(w)'
  BY <1>0, <1>3 DEF Awaits
<1>4. CASE Does(t)
  <2>1. PICK call \in OwnCalls(t) :
          /\ IF th[t].pc = "idle" THEN call \in NextCalls(t) ELSE call = th[t].call
          /\ Hands(t, call)
    BY <1>4 DEF Does
  <2>2. CASE t # w
    BY <1>0, <1>2, <2>1, <2>2 DEF Hands, Handles, Goto, ReturnHeard
  <2>3. CASE t = w
    <3>1. call.again = 0 /\ (call.op = "recv" => Len(ret[w]) = 1)
      BY <1>1, <2>1, <2>3 DEF Awaits
    <3>2. ASSUME NEW f, Goto(w, f), f.call = call PROVE Awaits(w)'
      BY <1>0, <3>1, <3>2 DEF Goto, Awaits
    <3>3. ASSUME NEW n, NEW heard, ReturnHeard(w, call, n, heard) PROVE Awaits(w)'
      <4> DEFINE r == [call |-> call, n |-> n, heard |-> heard]
      <4>1. ret'[w] = Append(ret[w], r) /\ th'[w] = Idle
        BY <1>0, <3>1, <3>3 DEF ReturnHeard, Returned
      <4>2. r.call = call
        OBVIOUS
      <4> HIDE DEF r
      <4>3. /\ Len(ret'[w]) = Len(ret[w]) + 1 /\ ret'[w][Len(ret[w]) + 1] = r
            /\ \A j \in 1..Len(ret[w]) : ret'[w][j] = ret[w][j]
        BY <1>0, <4>1
      <4> QED
        BY <1>0, <3>1, <4>1, <4>2, <4>3 DEF Awaits
    <3> QED
      BY <2>1, <2>3, <3>2, <3>3 DEF Hands, Handles
  <2> QED
    BY <2>2, <2>3
<1>5. CASE Make(t)
  <2>1. PICK call \in NextCalls(t) : call.op = "make" /\ ReturnHeard(t, call, 0, 0)
    BY <1>5 DEF Make, Invokes, Return
  <2>2. t # w
    BY <1>1, <2>1
  <2> QED
    BY <1>0, <1>2, <2>1, <2>2 DEF ReturnHeard
<1>6. CASE Go(t)
  <2>1. PICK call \in NextCalls(t) :
          /\ call.op = "go" /\ call.to # t /\ th' = [th EXCEPT ![call.to] = Idle]
          /\ ret' = [ret EXCEPT ![call.to] = <<>>, ![t] = Returned(@, call, 0, 0)]
    BY <1>6 DEF Go, Invokes
  <2>2. t # w
    BY <1>1, <2>1
  <2> QED
    BY <1>0, <1>2, <1>3, <2>1, <2>2
<1>7. CASE Exit(t)
  BY <1>2, <1>7 DEF Exit
<1> QED
  BY <1>4, <1>5, <1>6, <1>7, StepDoes

\* The workers of the duel hear each its own configuration, once: for every number
\* of other programs on the board, every scheduling of theirs and of the timers, and
\* every size of the ring buffers.
THEOREM DuelistsHearTheirOwn ==
  ASSUME DuelBoard
  PROVE  Spec => []OwnConfiguration
<1> DEFINE Waiting == \A i \in 1..3 : Awaits(Duelists[i])
<1>1. Init => Waiting
  <2>1. Len(<<>>) = 0 /\ Idle.pc = "idle"
    BY FrameParts
  <2> QED
    BY <2>1 DEF Init, Awaits, DuelBoard
<1>2. TypeOK /\ InProgram /\ Provenance /\ Waiting /\ [Next]_vars => Waiting'
  <2>1. UNCHANGED vars /\ Waiting => Waiting'
    BY DEF vars, Awaits
  <2> QED
    BY <2>1, AwaitsStep DEF Next, Ended
<1>3. TypeOK /\ Provenance /\ Waiting => OwnConfiguration
  <2> SUFFICES ASSUME TypeOK, Provenance, Waiting, NEW i \in 1..3,
                      NEW j \in Hearings(Duelists[i], DuelChans[i]),
                      NEW k \in Hearings(Duelists[i], DuelChans[i])
               PROVE  j = k /\ ret[Duelists[i]][j].heard = i
    BY DEF OwnConfiguration
  <2>1. j = 2 /\ k = 2
    BY DEF Awaits, Hearings
  <2>2. ret[Duelists[i]][j] \in ToldResults
    <3>1. ret[Duelists[i]] \in Seq(ToldResults) /\ j \in 1..Len(ret[Duelists[i]])
      BY DEF Provenance, DuelBoard, Hearings
    <3> QED
      BY <3>1, ElementOfSeq
  <2>3. ret[Duelists[i]][j].heard \in SaidOn(DuelChans[i])
    BY <2>2 DEF Hearings, ToldResults, ReceiveOps
  <2> QED
    BY <2>1, <2>3, OwnSaid
<1> QED
  BY <1>1, <1>2, <1>3, ProvenanceInvariant, PTL DEF Spec
--------------------------------------------------------------------------------
(* The ping-pong: each side hears the number it said, counted up by the       *)
(* other.                                                                     *)

Pinger == "ping_main"
Ponger == "second"
Players == {Pinger, Ponger}
Ball == "ping_c"

\* The board is flashed with this program alone; second is started by main.
PingBoard ==
  /\ Players \subseteq Threads /\ Ball \in Chans
  /\ \A h \in Seq(Results) :
       /\ Code(Pinger, h) = PingMain(h) /\ Code(Ponger, h) = SecondThread(h)
       /\ \A t \in Threads \ Players : Code(t, h) = {}
  /\ Creator[Ball] = Pinger
  /\ \A on \in Boot : Ponger \notin on
  /\ BufSize \in Words /\ MsgT \in Words

\* The numbers a player has sent and taken; the last one it sent may still be under
\* way into the ring buffer.
SentBy(t) == sent[Ball][t = Pinger]
TakenBy(t) == rcvd[Ball][t # Pinger]
UnderWay(t) == IF Writing(t, Ball, t = Pinger) THEN 1 ELSE 0

\* main makes the channel and the process before it plays.
Before(t) == IF t = Pinger THEN 2 ELSE 0
Serves(t, s, r) == (t = Pinger) = (s = r)

\* h ends with a call of op that did not return 0.
EndsIn(h, op) == h[Len(h)].call.op = op /\ h[Len(h)].call.n # 0 /\ h[Len(h)].n # 0

\* A player that has sent s numbers and taken r.
Place(t, s, r) ==
  /\ Len(ret[t]) = Before(t) + s + r
  /\ Len(SentBy(t)) = s + UnderWay(t)
  /\ Len(TakenBy(t)) = r
  /\ IF t = Pinger THEN s \in {r, r + 1} ELSE r \in {s, s + 1}
  /\ s + r > 0 => EndsIn(ret[t], IF Serves(t, s, r) THEN "recv" ELSE "send")

\* A thread in a call is in the one its program makes now, and it carries data.
Playing(t) ==
  th[t].pc # "idle" => th[t].call \in NextCalls(t) /\ th[t].call.op \in {"send", "recv"}

\* The numbers go up from one message to the next, to and fro.
Numbered ==
  \A k \in BOOLEAN : \A j \in 1..Len(sent[Ball][k]) :
    sent[Ball][k][j].says = (IF k THEN 2 * j - 1 ELSE 2 * j) /\ sent[Ball][k][j].size = MsgT
HearsBack ==
  \A t \in Players : \A i \in 1..Len(ret[t]) :
    ret[t][i].call.op = "recv" => ret[t][i].heard = i - Before(t)

\* Before second was started nothing has happened.
NotBegun ==
  /\ Gone(Ponger) /\ ret[Ponger] = <<>>
  /\ files[Ball] = NewFiles /\ sent[Ball] = NewFiles /\ rcvd[Ball] = NewFiles

Game ==
  /\ \A t \in Players : Playing(t)
  /\ Numbered /\ HearsBack
  /\ IF Len(ret[Pinger]) < 2 THEN NotBegun
     ELSE \A t \in Players : \E s, r \in Nat : Place(t, s, r)
AllOpen == \A c \in Chans : ~Closed(c)

--------------------------------------------------------------------------------
(* The calls of the two programs.                                             *)

\* Whatever main heard, and after the calls it makes when none returns 0.
LEMMA PingCalls ==
  ASSUME NEW h \in Seq(Results), NEW call \in PingMain(h)
  PROVE  /\ call.again = 0 /\ call.op \in {"make", "go", "send", "recv", "close"}
         /\ call.op # "go" => call.c = Ball
         /\ call.op = "send" => call.n \in {0, MsgT}
         /\ Len(h) = 0 => call.op = "make"
         /\ Len(h) = 1 => call.op = "go" /\ call.to = Ponger
         /\ Len(h) = 2 => call.op = "send" /\ call.n = MsgT /\ call.v = 1
         /\ Len(h) > 2 /\ EndsIn(h, "send") => call.op = "recv" /\ call.n = 1
         /\ Len(h) > 2 /\ EndsIn(h, "recv") =>
              call.op = "send" /\ call.n = MsgT /\ call.v = h[Len(h)].heard + 1
<1> DEFINE last == h[Len(h)]
           start == << ToMake("ping_c", 0), ToGo("second") >>
<1>a. Len(h) \in Nat
  BY LenProperties
<1>0. Len(h) \in Nat /\ Last(h) = last /\ Len(start) = 2
  BY <1>a DEF Last
<1>1. CASE Len(h) < 2
  <2>1. call \in InOrder(start, h)
    BY <1>0, <1>1 DEF PingMain
  <2>2. call \in start[Len(h) + 1]
    BY <1>0, <1>1, <2>1 DEF InOrder
  <2>3. Len(h) \in {0, 1}
    BY <1>0, <1>1
  <2>4. CASE Len(h) = 0
    <3>1. call = ToCall("make", "ping_c", 0)
      BY <2>2, <2>4 DEF ToMake
    <3> QED
      BY <2>4, <3>1 DEF ToCall, Ball
  <2>5. CASE Len(h) = 1
    <3>1. call = [ToCall("go", AnyChan, 0) EXCEPT !.to = "second"]
      BY <2>2, <2>5 DEF ToGo
    <3> QED
      BY <2>5, <3>1 DEF ToCall, Ponger
  <2> QED
    BY <2>3, <2>4, <2>5
<1>2. CASE Len(h) = 2
  <2>1. call = [ToCall("send", "ping_c", MsgT) EXCEPT !.v = 1]
    BY <1>0, <1>2 DEF PingMain, ToSend
  <2> QED
    BY <1>2, <2>1 DEF ToCall, Ball
<1>3. CASE Len(h) > 2
  <2> HIDE DEF last
  <2>0. Len(h) # 0 /\ Len(h) # 1 /\ Len(h) # 2
    <3>1. \A n \in Nat : n > 2 => n # 0 /\ n # 1 /\ n # 2
      OBVIOUS
    <3> QED
      BY ONLY <1>a, <1>3, <3>1
  <2>1. \/ last.call.n = 0 /\ call = ToCall("close", "ping_c", 0)
        \/ last.n = 0 /\ call = ToCall("send", "ping_c", 0)
        \/ last.call.op = "send" /\ call = ToCall("recv", "ping_c", 1)
        \/ last.call.op # "send" /\ call = [ToCall("send", "ping_c", MsgT) EXCEPT !.v = last.heard + 1]
    BY <1>0, <1>3 DEF PingMain, ToClose, ToSync, ToRecv, ToSend, Counted
  <2>2. \A op : EndsIn(h, op) <=> last.call.op = op /\ last.call.n # 0 /\ last.n # 0
    BY DEF EndsIn, last
  <2>3. CASE last.call.n = 0 /\ call = ToCall("close", "ping_c", 0)
    <3>1. call.op = "close" /\ call.c = Ball /\ call.n = 0 /\ call.again = 0
      BY <2>3 DEF ToCall, Ball
    <3> QED
      BY <2>0, <2>2, <2>3, <3>1
  <2>4. CASE last.n = 0 /\ call = ToCall("send", "ping_c", 0)
    <3>1. call.op = "send" /\ call.c = Ball /\ call.n = 0 /\ call.again = 0
      BY <2>4 DEF ToCall, Ball
    <3> QED
      BY <2>0, <2>2, <2>4, <3>1
  <2>5. CASE last.call.op = "send" /\ call = ToCall("recv", "ping_c", 1)
    <3>1. call.op = "recv" /\ call.c = Ball /\ call.n = 1 /\ call.again = 0
      BY <2>5 DEF ToCall, Ball
    <3> QED
      BY <2>0, <2>2, <2>5, <3>1
  <2>6. CASE /\ last.call.op # "send"
             /\ call = [ToCall("send", "ping_c", MsgT) EXCEPT !.v = last.heard + 1]
    <3>1. /\ call.op = "send" /\ call.c = Ball /\ call.n = MsgT /\ call.v = last.heard + 1
          /\ call.again = 0
      BY <2>6 DEF ToCall, Ball
    <3> QED
      BY <1>3, <2>2, <2>6, <3>1 DEF last
  <2> QED
    BY <2>1, <2>3, <2>4, <2>5, <2>6
<1>4. Len(h) < 2 \/ Len(h) = 2 \/ Len(h) > 2
  <2> HIDE DEF last, start
  <2>1. \A n \in Nat : n < 2 \/ n = 2 \/ n > 2
    OBVIOUS
  <2> QED
    BY ONLY <1>a, <2>1
<1> QED
  BY <1>1, <1>2, <1>3, <1>4

LEMMA PongCalls ==
  ASSUME NEW g \in Seq(Results), NEW call \in SecondThread(g)
  PROVE  /\ call.again = 0 /\ call.op \in {"send", "recv", "close"} /\ call.c = Ball
         /\ call.op = "send" => call.n \in {0, MsgT}
         /\ Len(g) = 0 => call.op = "recv" /\ call.n = 1
         /\ Len(g) > 0 /\ EndsIn(g, "send") => call.op = "recv" /\ call.n = 1
         /\ Len(g) > 0 /\ EndsIn(g, "recv") =>
              call.op = "send" /\ call.n = MsgT /\ call.v = g[Len(g)].heard + 1
<1> DEFINE last == g[Len(g)]
<1>0. Len(g) \in Nat /\ Last(g) = last /\ (g = <<>> <=> Len(g) = 0)
  BY LenProperties, EmptySeq DEF Last
<1>1. CASE g = <<>>
  <2>1. call = ToCall("recv", "ping_c", 1)
    BY <1>1 DEF SecondThread, ToRecv
  <2> QED
    BY <1>0, <1>1, <2>1 DEF ToCall, Ball
<1>2. CASE g # <<>>
  <2> HIDE DEF last
  <2>1. \/ last.call.n = 0 /\ call = ToCall("close", "ping_c", 0)
        \/ last.n = 0 /\ call = ToCall("recv", "ping_c", 0)
        \/ last.call.op = "recv" /\ call = [ToCall("send", "ping_c", MsgT) EXCEPT !.v = last.heard + 1]
        \/ last.call.op # "recv" /\ call = ToCall("recv", "ping_c", 1)
    BY <1>0, <1>2 DEF SecondThread, ToClose, ToSync, ToRecv, ToSend, Counted
  <2>2. \A op : EndsIn(g, op) <=> last.call.op = op /\ last.call.n # 0 /\ last.n # 0
    BY DEF EndsIn, last
  <2>3. CASE last.call.n = 0 /\ call = ToCall("close", "ping_c", 0)
    BY <1>0, <1>2, <2>2, <2>3 DEF ToCall, Ball
  <2>4. CASE last.n = 0 /\ call = ToCall("recv", "ping_c", 0)
    BY <1>0, <1>2, <2>2, <2>4 DEF ToCall, Ball
  <2>5. CASE last.call.op # "recv" /\ call = ToCall("recv", "ping_c", 1)
    BY <1>0, <1>2, <2>2, <2>5 DEF ToCall, Ball
  <2>6. CASE /\ last.call.op = "recv"
             /\ call = [ToCall("send", "ping_c", MsgT) EXCEPT !.v = last.heard + 1]
    <3>1. /\ call.op = "send" /\ call.c = Ball /\ call.n = MsgT /\ call.v = last.heard + 1
          /\ call.again = 0
      BY <2>6 DEF ToCall, Ball
    <3> QED
      BY <1>0, <1>2, <2>2, <2>6, <3>1 DEF last
  <2> QED
    BY <2>1, <2>3, <2>4, <2>5, <2>6
<1> QED
  BY <1>1, <1>2

\* The calls a thread may ever make.
LEMMA BoardCalls ==
  ASSUME PingBoard, NEW t \in Threads, NEW call \in OwnCalls(t)
  PROVE  /\ t \in Players /\ call.again = 0
         /\ call.op \in {"make", "go", "send", "recv", "close"}
         /\ call.op # "go" => call.c = Ball
         /\ call.op = "send" => call.n \in {0, MsgT}
         /\ call.op \in {"make", "go"} => t = Pinger
<1>1. PICK h \in Seq(Results) : call \in Code(t, h)
  BY DEF OwnCalls
<1>2. t \in Players
  BY <1>1 DEF PingBoard
<1>3. CASE t = Pinger
  BY <1>1, <1>3, PingCalls DEF PingBoard, Players
<1>4. CASE t = Ponger
  BY <1>1, <1>4, PongCalls DEF PingBoard, Players
<1> QED
  BY <1>2, <1>3, <1>4 DEF Players

LEMMA PingDisciplined == ASSUME PingBoard PROVE Disciplined
<1>1. Pinger # Ponger
  BY DEF Pinger, Ponger
<1>2. \A t \in Threads, c \in Chans : \A ops :
        MayCall(t, c, ops) /\ ops \subseteq SendOps \cup TakeOps => t \in Players /\ c = Ball
  BY BoardCalls DEF MayCall, SendOps, TakeOps
<1>3. OneWriter /\ OneReader
  <2>1. \A t \in Threads, c \in Chans, k \in BOOLEAN :
          MayWrite(t, c, k) \/ MayRead(t, c, k) => t \in Players /\ c = Ball
    BY <1>2 DEF MayWrite, MayRead
  <2>2. Creator[Ball] = Pinger
    BY DEF PingBoard
  <2> QED
    BY <1>1, <2>1, <2>2 DEF OneWriter, OneReader, MayWrite, MayRead, Players
<1>4. DropsAlone
  BY BoardCalls DEF DropsAlone, MayCall
<1>5. WholeWords
  BY BoardCalls, HeaderIsWord DEF WholeWords, PingBoard, SendOps
<1>6. PlainCalls
  BY BoardCalls DEF PlainCalls, PingBoard
<1> QED
  BY <1>3, <1>4, <1>5, <1>6 DEF Disciplined

\* What a player does next in its place.
LEMMA NextMove ==
  ASSUME PingBoard, TypeOK, HearsBack, NEW t \in Players, NEW s \in Nat, NEW r \in Nat,
         Place(t, s, r), NEW call \in NextCalls(t)
  PROVE  /\ call.again = 0 /\ call.c = Ball
         /\ Serves(t, s, r) => call.op = "send" /\ call.n = MsgT /\ call.v = s + r + 1
         /\ ~Serves(t, s, r) => call.op = "recv" /\ call.n = 1
<1> DEFINE h == ret[t]
           last == h[Len(h)]
<1>0. t \in Threads /\ h \in Seq(Results) /\ Len(h) \in Nat /\ call \in Code(t, h)
  BY LenProperties DEF TypeOK, ThreadsOK, PingBoard, NextCalls
<1>1. EndsIn(h, "recv") /\ Len(h) > 0 => last.heard = Len(h) - Before(t)
  BY <1>0 DEF HearsBack, EndsIn
<1>2. Len(h) = Before(t) + s + r /\ Before(t) \in {0, 2}
  BY DEF Place, Before
<1>3. CASE t = Pinger
  <2>1. call \in PingMain(h) /\ Before(t) = 2
    BY <1>0, <1>3 DEF PingBoard, Before
  <2>2. CASE s + r = 0
    <3>1. s = r /\ Len(h) = 2 /\ Serves(t, s, r)
      BY <1>2, <1>3, <2>1, <2>2 DEF Serves
    <3> QED
      BY <1>0, <2>1, <2>2, <3>1, PingCalls
  <2>3. CASE s + r > 0
    <3>1. Len(h) > 2
      BY <1>2, <2>1, <2>3
    <3>2. EndsIn(h, IF Serves(t, s, r) THEN "recv" ELSE "send")
      BY <2>3 DEF Place
    <3>3. last.heard + 1 = s + r + 1 \/ ~Serves(t, s, r)
      BY <1>1, <1>2, <3>1, <3>2
    <3> HIDE DEF h
    <3>4. \/ call.op = "recv" /\ call.n = 1 /\ ~Serves(t, s, r)
          \/ /\ call.op = "send" /\ call.n = MsgT /\ call.v = last.heard + 1
             /\ Serves(t, s, r)
      BY <1>0, <2>1, <3>1, <3>2, PingCalls
    <3>5. call.again = 0 /\ call.op # "go" /\ call.c = Ball
      BY <1>0, <2>1, <3>4, PingCalls
    <3> QED
      BY <3>3, <3>4, <3>5
  <2> QED
    BY <2>2, <2>3
<1>4. CASE t = Ponger
  <2>1. call \in SecondThread(h) /\ Before(t) = 0 /\ t # Pinger
    BY <1>0, <1>4 DEF PingBoard, Before, Pinger, Ponger
  <2>2. CASE s + r = 0
    <3>1. s = r /\ Len(h) = 0 /\ ~Serves(t, s, r)
      BY <1>2, <2>1, <2>2 DEF Serves
    <3> QED
      BY <1>0, <2>1, <2>2, <3>1, PongCalls
  <2>3. CASE s + r > 0
    <3>1. Len(h) > 0
      BY <1>2, <2>1, <2>3
    <3>2. EndsIn(h, IF Serves(t, s, r) THEN "recv" ELSE "send")
      BY <2>3 DEF Place
    <3>3. last.heard + 1 = s + r + 1 \/ ~Serves(t, s, r)
      BY <1>1, <1>2, <2>1, <3>1, <3>2
    <3> HIDE DEF h
    <3>4. \/ call.op = "recv" /\ call.n = 1 /\ ~Serves(t, s, r)
          \/ /\ call.op = "send" /\ call.n = MsgT /\ call.v = last.heard + 1
             /\ Serves(t, s, r)
      BY <1>0, <2>1, <3>1, <3>2, PongCalls
    <3>5. call.again = 0 /\ call.c = Ball
      BY <1>0, <2>1, PongCalls
    <3> QED
      BY <3>3, <3>4, <3>5
  <2> QED
    BY <2>2, <2>3
<1> QED
  BY <1>3, <1>4 DEF Players

--------------------------------------------------------------------------------
(* The steps of a player, while no channel is closed.                         *)

LEMMA OpenLoop ==
  ASSUME NEW t, NEW call, ~Closed(call.c), NEW k, NEW q, NEW bytes,
         SendLoop(t, call, k, q, bytes)
  PROVE  \E f : Goto(t, f) /\ f.pc \in WritePcs /\ f.call = call /\ f.rb = k
<1>1. \E pc \in WritePcs : \E n : Goto(t, SendFrame(pc, call, k, n))
  BY DEF SendLoop, SendStops, WritePcs
<1> QED
  BY <1>1, FrameParts

LEMMA OpenHeader ==
  ASSUME NEW t, NEW call, ~Closed(call.c), NEW k, SendHeader(t, call, k)
  PROVE  \E f : /\ Goto(t, f) /\ f.call = call
                /\ \/ /\ sent' = Noted(sent, call.c, k, Message(t, call))
                      /\ f.pc \in WritePcs /\ f.rb = k
                   \/ sent' = sent /\ f.pc = "send_hdr"
<1>1. \/ /\ sent' = Noted(sent, call.c, k, Message(t, call))
         /\ \E q : SendLoop(t, call, k, q, 0)
      \/ sent' = sent /\ Goto(t, Frame("send_hdr", call, k))
  BY DEF SendHeader
<1>2. CASE sent' = sent /\ Goto(t, Frame("send_hdr", call, k))
  BY <1>2, FrameParts
<1>3. CASE /\ sent' = Noted(sent, call.c, k, Message(t, call))
           /\ \E q : SendLoop(t, call, k, q, 0)
  <2>1. PICK q : SendLoop(t, call, k, q, 0)
    BY <1>3
  <2>2. \E f : Goto(t, f) /\ f.pc \in WritePcs /\ f.call = call /\ f.rb = k
    BY <2>1, OpenLoop
  <2> QED
    BY <1>3, <2>2
<1> QED
  BY <1>1, <1>2, <1>3

LEMMA OpenRecv ==
  ASSUME NEW t, NEW call, ~Closed(call.c), NEW k
  PROVE  /\ \A size, q, out : RecvLoop(t, call, k, size, q, out) =>
              \E f : Goto(t, f) /\ f.pc \in {"recv_got", "recv_loop"} /\ f.call = call
         /\ RecvHeader(t, call, k) =>
              \E f : Goto(t, f) /\ f.pc \in {"recv_got", "recv_loop", "recv_hdr"} /\ f.call = call
<1>1. ASSUME NEW size, NEW q, NEW out, RecvLoop(t, call, k, size, q, out)
      PROVE  \E f : Goto(t, f) /\ f.pc \in {"recv_got", "recv_loop"} /\ f.call = call
  <2>1. \E pc \in {"recv_got", "recv_loop"} : \E more : Goto(t, RecvFrame(pc, call, k, size, more))
    BY <1>1 DEF RecvLoop, GivesUp
  <2> QED
    BY <2>1, FrameParts
<1>2. ASSUME RecvHeader(t, call, k)
      PROVE  \E f : Goto(t, f) /\ f.pc \in {"recv_got", "recv_loop", "recv_hdr"} /\ f.call = call
  <2>1. \/ Goto(t, Frame("recv_hdr", call, k))
        \/ \E size, q : RecvLoop(t, call, k, size, q, <<>>)
    BY <1>2 DEF RecvHeader
  <2> QED
    BY <1>1, <2>1, FrameParts
<1> QED
  BY <1>1, <1>2

\* A call goes on, and its message is put into the ring buffer or it is not.
GoesOn(t, call) ==
  /\ \E f : Goto(t, f) /\ f.pc # "idle" /\ f.call = call
  /\ rcvd' = rcvd
  /\ \/ sent' = sent /\ UnderWay(t)' = UnderWay(t)
     \/ /\ call.op = "send" /\ sent' = Noted(sent, Ball, t = Pinger, Message(t, call))
        /\ UnderWay(t) = 0 /\ UnderWay(t)' = 1
CallsOn(t) == \E call \in NextCalls(t) :
  call.op \in {"send", "recv"} /\ (th[t].pc = "idle" \/ th[t].call = call) /\ GoesOn(t, call)

\* A call is over, with what it was to send or to take.
HasSent(t) ==
  /\ th[t].pc = "send_sent" /\ th[t].call.op = "send"
  /\ Return(t, th[t].call, th[t].call.n) /\ UNCHANGED <<sent, rcvd>>
HasTaken(t) ==
  /\ th[t].pc = "recv_got" /\ th[t].call.op = "recv"
  /\ Complete(th[t]) /\ Taken(t, th[t]) /\ UNCHANGED sent

\* What a player may call while it is in its place.
Plays(t) == \A call \in NextCalls(t) :
  /\ call.op \in {"make", "go", "send", "recv"}
  /\ call.op \in {"send", "recv"} => call.c = Ball /\ call.n # 0

LEMMA UnderWayAt ==
  ASSUME ThreadsOK, NEW t \in Threads, NEW f, Goto(t, f)
  PROVE  UnderWay(t)' = IF f.pc \in WritePcs /\ f.call.c = Ball /\ f.rb = (t = Pinger) THEN 1 ELSE 0
<1>1. th'[t] = f
  BY GotoChanges
<1> QED
  BY <1>1 DEF UnderWay, Writing

LEMMA PlayerSends ==
  ASSUME PingBoard, Base, AllOpen, NEW t \in Players, Playing(t), Plays(t), Sends(t)
  PROVE  CallsOn(t) \/ HasSent(t)
<1> DEFINE own == th[t].call
<1>0. /\ t \in Threads /\ ThreadsOK /\ CreatorsStay /\ RightFile(t) /\ InProgram
      /\ Creator[Ball] = Pinger /\ Ball \in Chans
  BY DEF PingBoard, Base, TypeOK, Settled
<1>1. ~SendMsgCall(t)
  BY DEF SendMsgCall, Invokes, Plays
<1> SUFFICES ASSUME ~SendMsgCall(t) PROVE CallsOn(t) \/ HasSent(t)
  BY <1>1
<1>2. th[t].pc \in SendPcs /\ th[t].pc # "idle"
  BY DEF Sends, SendSync, SendSynced, SendHeaderAgain, SendResume, SendSent, At, SendPcs
<1>3. /\ own \in NextCalls(t) /\ own \in Calls /\ own.op = "send" /\ own.c = Ball /\ own.n # 0
      /\ ~Closed(own.c)
  <2>1. own \in NextCalls(t) /\ own.op \in {"send", "recv"}
    BY <1>2 DEF Playing
  <2>2. own.op # "recv"
    BY <1>0, <1>2 DEF InProgram, PcsOf, SendPcs, RecvPcs
  <2> QED
    BY <1>0, <2>1, <2>2, NextCallsType DEF Plays, AllOpen
<1>4. rcvd' = rcvd
  BY DEF Sends, SendSync, SendSynced, SendHeaderAgain, SendResume, SendSent, Synchronize
<1>k. PICK k \in BOOLEAN : k = (t = Pinger)
  OBVIOUS
<1>5. OutFile(t, own.c) = k
  BY <1>0, <1>3, <1>k, FilesOf
<1>6. ASSUME SendHeader(t, own, k), th[t].pc \notin WritePcs PROVE CallsOn(t)
  <2>1. UnderWay(t) = 0
    BY <1>k, <1>6 DEF UnderWay, Writing
  <2>2. PICK f : /\ Goto(t, f) /\ f.call = own
                 /\ \/ /\ sent' = Noted(sent, own.c, k, Message(t, own))
                       /\ f.pc \in WritePcs /\ f.rb = k
                    \/ sent' = sent /\ f.pc = "send_hdr"
    <3>1. ~Closed(own.c) /\ SendHeader(t, own, k)
      BY <1>3, <1>6
    <3> HIDE DEF own
    <3> QED
      BY <3>1, OpenHeader
  <2>3. f.pc # "idle" /\ UnderWay(t)' = IF f.pc \in WritePcs /\ f.rb = k THEN 1 ELSE 0
    BY <1>0, <1>3, <1>k, <2>2, UnderWayAt DEF WritePcs
  <2>4. GoesOn(t, own)
    BY <1>3, <1>4, <1>k, <2>1, <2>2, <2>3 DEF GoesOn, WritePcs
  <2> QED
    BY <1>3, <2>4 DEF CallsOn
<1>7. ASSUME th[t].pc \in WritePcs, NEW q, SendLoop(t, own, th[t].rb, q, th[t].bytes), sent' = sent
      PROVE  CallsOn(t)
  <2>1. th[t].rb = k
    BY <1>0, <1>3, <1>k, <1>7 DEF RightFile, OutPcs
  <2>2. UnderWay(t) = 1
    BY <1>3, <1>k, <1>7, <2>1 DEF UnderWay, Writing
  <2>3. PICK f : Goto(t, f) /\ f.pc \in WritePcs /\ f.call = own /\ f.rb = k
    <3>1. ~Closed(own.c) /\ SendLoop(t, own, k, q, th[t].bytes)
      BY <1>3, <1>7, <2>1
    <3> HIDE DEF own
    <3> QED
      BY <3>1, OpenLoop
  <2>4. f.pc # "idle" /\ UnderWay(t)' = 1
    BY <1>0, <1>3, <1>k, <2>3, UnderWayAt DEF WritePcs
  <2>5. GoesOn(t, own)
    BY <1>4, <1>7, <2>2, <2>3, <2>4 DEF GoesOn
  <2> QED
    BY <1>3, <2>5 DEF CallsOn
<1>8. CASE SendSync(t) \/ SendSynced(t)
  <2>1. th[t].pc \notin WritePcs
    BY <1>8 DEF SendSync, SendSynced, At, WritePcs
  <2>2. CASE SendBody(t, own)
    BY <1>3, <1>5, <1>6, <2>1, <2>2 DEF SendBody
  <2>3. CASE Synchronize(t, own, TRUE, "send_body")
    <3> DEFINE f == Frame("send_body", own, FALSE)
    <3>1. Goto(t, f) /\ sent' = sent
      BY <2>3 DEF Synchronize
    <3>2. f.pc = "send_body" /\ f.call = own
      BY DEF Frame
    <3> HIDE DEF f
    <3>3. UnderWay(t)' = 0 /\ UnderWay(t) = 0
      BY <1>0, <2>1, <3>1, <3>2, UnderWayAt DEF UnderWay, Writing, WritePcs
    <3>4. GoesOn(t, own)
      BY <1>4, <3>1, <3>2, <3>3 DEF GoesOn
    <3> QED
      BY <1>3, <3>4 DEF CallsOn
  <2> QED
    BY <1>8, <2>2, <2>3 DEF SendSync, SendSynced
<1>9. CASE SendHeaderAgain(t)
  <2>1. th[t].pc = "send_hdr" /\ SendHeader(t, own, th[t].rb)
    BY <1>9 DEF SendHeaderAgain, At
  <2>2. th[t].rb = k
    BY <1>0, <1>3, <1>k, <2>1 DEF RightFile, OutPcs
  <2> QED
    BY <1>6, <2>1, <2>2 DEF WritePcs
<1>10. CASE SendResume(t)
  BY <1>7, <1>10 DEF SendResume, At, WritePcs
<1>11. CASE SendSent(t)
  <2>1. CASE th[t].bytes = own.n
    BY <1>3, <1>11, <2>1 DEF SendSent, At, HasSent
  <2>2. CASE th[t].bytes # own.n
    BY <1>7, <1>11, <2>2 DEF SendSent, At, WritePcs
  <2> QED
    BY <2>1, <2>2
<1> QED
  BY <1>8, <1>9, <1>10, <1>11 DEF Sends

LEMMA PlayerTakes ==
  ASSUME PingBoard, Base, AllOpen, NEW t \in Players, Playing(t), Plays(t), Recvs(t)
  PROVE  CallsOn(t) \/ HasTaken(t)
<1> DEFINE own == th[t].call
<1>0. t \in Threads /\ ThreadsOK /\ InProgram /\ Ball \in Chans
  BY DEF PingBoard, Base, TypeOK
<1>1. ~RecvMsgCall(t)
  BY DEF RecvMsgCall, Invokes, Plays
<1> SUFFICES ASSUME ~RecvMsgCall(t) PROVE CallsOn(t) \/ HasTaken(t)
  BY <1>1
<1>2. /\ th[t].pc \in {"recv", "recv_body", "recv_hdr", "recv_loop", "recv_got"}
      /\ sent' = sent
  BY DEF Recvs, RecvSync, RecvSynced, RecvHeaderAgain, RecvResume, RecvGot, At, Synchronize
<1>3. /\ own \in NextCalls(t) /\ own.op = "recv" /\ own.c = Ball /\ own.n # 0 /\ ~Closed(own.c)
  <2>1. own \in NextCalls(t) /\ own.op \in {"send", "recv"}
    BY <1>2 DEF Playing
  <2>2. own.op # "send"
    BY <1>0, <1>2 DEF InProgram, PcsOf, SendPcs
  <2> QED
    BY <1>0, <2>1, <2>2 DEF Plays, AllOpen
<1>4. ASSUME NEW f, Goto(t, f), f.call = own, rcvd' = rcvd,
             f.pc \in {"recv_body", "recv_hdr", "recv_loop", "recv_got"}
      PROVE  CallsOn(t)
  <2>1. UnderWay(t)' = 0 /\ UnderWay(t) = 0
    BY <1>0, <1>2, <1>4, UnderWayAt DEF UnderWay, Writing, WritePcs
  <2>2. GoesOn(t, own)
    BY <1>2, <1>4, <2>1 DEF GoesOn
  <2> QED
    BY <1>3, <2>2 DEF CallsOn
<1>5. ASSUME NEW k, RecvHeader(t, own, k), rcvd' = rcvd PROVE CallsOn(t)
  BY <1>3, <1>4, <1>5, OpenRecv
<1>6. CASE RecvSync(t) \/ RecvSynced(t)
  <2>1. CASE RecvBody(t, own)
    <3>1. RecvHeader(t, own, InFile(t, own.c))
      BY <1>3, <2>1 DEF RecvBody
    <3>2. rcvd' = rcvd
      BY <1>6 DEF RecvSync, RecvSynced, Synchronize
    <3> QED
      BY <1>5, <3>1, <3>2
  <2>2. CASE Synchronize(t, own, FALSE, "recv_body")
    <3> DEFINE f == Frame("recv_body", own, FALSE)
    <3>1. Goto(t, f) /\ rcvd' = rcvd
      BY <2>2 DEF Synchronize
    <3>2. f.pc = "recv_body" /\ f.call = own
      BY DEF Frame
    <3> HIDE DEF f
    <3> QED
      BY <1>4, <3>1, <3>2
  <2> QED
    BY <1>6, <2>1, <2>2 DEF RecvSync, RecvSynced
<1>7. CASE RecvHeaderAgain(t)
  BY <1>5, <1>7 DEF RecvHeaderAgain
<1>8. ASSUME NEW k, NEW size, NEW q, NEW out, RecvLoop(t, own, k, size, q, out), rcvd' = rcvd
      PROVE  CallsOn(t)
  BY <1>3, <1>4, <1>8, OpenRecv
<1>9. CASE RecvResume(t)
  BY <1>8, <1>9 DEF RecvResume
<1>10. CASE RecvGot(t)
  <2>1. CASE Complete(th[t])
    BY <1>3, <1>10, <2>1 DEF RecvGot, At, HasTaken
  <2>2. CASE ~Complete(th[t])
    BY <1>8, <1>10, <2>2 DEF RecvGot
  <2> QED
    BY <2>1, <2>2
<1> QED
  BY <1>6, <1>7, <1>9, <1>10 DEF Recvs

LEMMA PlayerSteps ==
  ASSUME PingBoard, Base, AllOpen, NEW t \in Players, Playing(t), Plays(t), Step(t)
  PROVE  Make(t) \/ Go(t) \/ Exit(t) \/ CallsOn(t) \/ HasSent(t) \/ HasTaken(t)
<1>0. t \in Threads /\ ThreadsOK /\ InProgram /\ RightFile(t)
  BY DEF PingBoard, Base, TypeOK, Settled
<1>1. th[t].pc # "idle" => th[t].pc \in PcsOf("send") \cup PcsOf("recv")
  BY <1>0 DEF InProgram, Playing
<1>2. ~Drops(t) /\ ~FlagsStore(t) /\ ~Timer(t)
  BY <1>1 DEF PcsOf, SendPcs, RecvPcs, Drops, DropSync, DropSynced, DropHeaderAgain, DropResume,
              DropDropped, FlagsStore, Timer, At
<1>3. ~Tries(t) /\ ~SetOwner(t) /\ ~Kill(t)
  BY <1>0, PingDisciplined, PlainSteps
<1>4. ~FlagsLoad(t) /\ ~Sleep(t) /\ ~Spin(t)
  BY DEF FlagsLoad, Sleep, Spin, Invokes, Plays
<1>5. CASE Enter(t)
  <2>1. PICK call \in NextCalls(t) :
          /\ Invokes(t, call, {"send", "try_send", "recv", "try_recv", "drop"})
          /\ \/ call.op \in {"send", "try_send"} /\ SendRefused(call)
             \/ call.op \in {"recv", "try_recv", "drop"} /\ RecvRefused(t, call)
             \/ Goto(t, Frame(call.op, call, InFile(t, call.c)))
          /\ UNCHANGED <<sent, rcvd>>
    BY <1>5 DEF Enter
  <2>2. /\ th[t].pc = "idle" /\ call.op \in {"send", "recv"} /\ call.c = Ball
        /\ ~Closed(call.c)
    BY <2>1 DEF Invokes, Plays, AllOpen, PingBoard
  <2>3. Goto(t, Frame(call.op, call, InFile(t, call.c)))
    BY <2>1, <2>2 DEF SendRefused, RecvRefused
  <2> DEFINE f == Frame(call.op, call, InFile(t, call.c))
  <2>4. f.pc = call.op /\ f.call = call
    BY FrameParts
  <2> HIDE DEF f
  <2>5. Goto(t, f)
    BY <2>3 DEF f
  <2>6. UnderWay(t)' = 0 /\ UnderWay(t) = 0
    BY <1>0, <2>2, <2>4, <2>5, UnderWayAt DEF UnderWay, Writing, WritePcs
  <2>7. GoesOn(t, call)
    BY <2>1, <2>2, <2>4, <2>5, <2>6 DEF GoesOn
  <2> QED
    BY <2>2, <2>7 DEF CallsOn
<1> QED
  BY <1>2, <1>3, <1>4, <1>5, PlayerSends, PlayerTakes DEF Step, Manages, Lives

--------------------------------------------------------------------------------
(* The game goes on.                                                          *)

LEMMA Finish ==
  ASSUME TypeOK, NEW t \in Threads, NEW call, call.again = 0, NEW n, NEW heard,
         ReturnHeard(t, call, n, heard)
  PROVE  /\ th'[t] = Idle /\ Len(ret'[t]) = Len(ret[t]) + 1 /\ Len(ret[t]) \in Nat
         /\ ret'[t][Len(ret[t]) + 1] = [call |-> call, n |-> n, heard |-> heard]
         /\ \A i \in 1..Len(ret[t]) : ret'[t][i] = ret[t][i]
         /\ \A u \in Threads \ {t} : th'[u] = th[u] /\ ret'[u] = ret[u]
<1> DEFINE x == [call |-> call, n |-> n, heard |-> heard]
<1>1. ret[t] \in Seq(Results) /\ DOMAIN th = Threads /\ DOMAIN ret = Threads
  BY DEF TypeOK, ThreadsOK
<1>2. Returned(ret[t], call, n, heard) = Append(ret[t], x)
  BY DEF Returned
<1>3. /\ th'[t] = Idle /\ ret'[t] = Append(ret[t], x)
      /\ \A u \in Threads \ {t} : th'[u] = th[u] /\ ret'[u] = ret[u]
  BY <1>1, <1>2 DEF ReturnHeard
<1> HIDE DEF x
<1>4. /\ Len(ret[t]) \in Nat /\ Len(ret'[t]) = Len(ret[t]) + 1 /\ ret'[t][Len(ret[t]) + 1] = x
      /\ \A i \in 1..Len(ret[t]) : ret'[t][i] = ret[t][i]
  BY <1>1, <1>3, LenProperties
<1> QED
  BY <1>3, <1>4 DEF x

\* What a thread that is left alone keeps.
LEMMA PlaceStays ==
  ASSUME NEW t, th'[t] = th[t], ret'[t] = ret[t]
  PROVE  /\ Playing(t) => Playing(t)'
         /\ \A s, r : Place(t, s, r) /\ SentBy(t)' = SentBy(t) /\ TakenBy(t)' = TakenBy(t) =>
              Place(t, s, r)'
<1>1. Playing(t) => Playing(t)'
  BY DEF Playing, NextCalls
<1>2. UnderWay(t)' = UnderWay(t)
  BY DEF UnderWay, Writing
<1> QED
  BY <1>1, <1>2 DEF Place, SentBy, TakenBy

\* The last call of a thread that has just returned.
LEMMA HearsOneMore ==
  ASSUME HearsBack, NEW t \in Players, Players \subseteq Threads, Len(ret[t]) \in Nat,
         NEW n, n = Len(ret[t]) + 1, Len(ret'[t]) = n,
         \A i \in 1..Len(ret[t]) : ret'[t][i] = ret[t][i],
         \A u \in Threads \ {t} : ret'[u] = ret[u],
         ret'[t][n].call.op = "recv" => ret'[t][n].heard = n - Before(t)
  PROVE  HearsBack'
<1> SUFFICES ASSUME NEW u \in Players, NEW i \in 1..Len(ret'[u]), ret'[u][i].call.op = "recv"
             PROVE  ret'[u][i].heard = i - Before(u)
  BY DEF HearsBack, Before
<1>1. CASE u # t
  BY <1>1 DEF HearsBack
<1>2. CASE u = t /\ i = n
  <2>1. ret'[t][n].heard = n - Before(t)
    BY <1>2
  <2> QED
    BY ONLY <1>2, <2>1
<1>3. CASE u = t /\ i \in 1..Len(ret[t])
  <2>1. ret[t][i].call.op = "recv" /\ ret'[t][i] = ret[t][i]
    BY <1>3
  <2>2. ret[t][i].heard = i - Before(t)
    BY <1>3, <2>1 DEF HearsBack
  <2> QED
    BY ONLY <1>3, <2>1, <2>2
<1>4. u = t => i = n \/ i \in 1..Len(ret[t])
  OBVIOUS
<1> QED
  BY <1>1, <1>2, <1>3, <1>4

LEMMA OthersEnd ==
  ASSUME PingBoard, TypeOK, InProgram, Provenance, NEW t \in Threads \ Players
  PROVE  th[t].pc = "idle" /\ (Step(t) => Exit(t))
<1>1. OwnCalls(t) = {} /\ NextCalls(t) \subseteq OwnCalls(t)
  BY BoardCalls, NextIsOwn DEF TypeOK
<1>2. th[t].pc = "idle"
  BY <1>1 DEF InProgram
<1>3. ~Does(t) /\ ~Make(t) /\ ~Go(t)
  BY <1>1 DEF Does, Make, Go
<1> QED
  BY <1>2, <1>3, StepDoes

\* Before the process runs main makes the channel and the process.
LEMMA AtStart ==
  ASSUME PingBoard, Base, Game, Len(ret[Pinger]) < 2
  PROVE  /\ \A t \in Players : th[t].pc = "idle"
         /\ Len(ret[Pinger]) \in {0, 1}
         /\ \A call \in NextCalls(Pinger) :
              /\ call.again = 0 /\ call.op \in {"make", "go"}
              /\ Len(ret[Pinger]) = 0 => call.op = "make" /\ call.c = Ball
              /\ Len(ret[Pinger]) = 1 => call.op = "go" /\ call.to = Ponger
<1>1. Pinger \in Threads /\ Ponger \in Threads /\ ret[Pinger] \in Seq(Results)
  BY DEF PingBoard, Base, TypeOK, ThreadsOK, Players
<1>2. Len(ret[Pinger]) \in {0, 1}
  <2>1. Len(ret[Pinger]) \in Nat
    BY <1>1, LenProperties
  <2>2. \A n \in Nat : n < 2 => n \in {0, 1}
    OBVIOUS
  <2> QED
    BY <2>1, <2>2
<1>3. \A call \in NextCalls(Pinger) :
        /\ call.again = 0 /\ call.op \in {"make", "go"}
        /\ Len(ret[Pinger]) = 0 => call.op = "make" /\ call.c = Ball
        /\ Len(ret[Pinger]) = 1 => call.op = "go" /\ call.to = Ponger
  <2> SUFFICES ASSUME NEW call \in NextCalls(Pinger)
               PROVE  /\ call.again = 0 /\ call.op \in {"make", "go"}
                      /\ Len(ret[Pinger]) = 0 => call.op = "make" /\ call.c = Ball
                      /\ Len(ret[Pinger]) = 1 => call.op = "go" /\ call.to = Ponger
    OBVIOUS
  <2>1. call \in PingMain(ret[Pinger])
    BY <1>1 DEF NextCalls, PingBoard
  <2> QED
    BY <1>1, <1>2, <2>1, PingCalls
<1>4. th[Pinger].pc = "idle"
  BY <1>3 DEF Game, Players, Playing
<1>5. th[Ponger].pc = "idle"
  BY <1>1 DEF Game, NotBegun, Base, Settled
<1> QED
  BY <1>2, <1>3, <1>4, <1>5 DEF Players

LEMMA GamePlays ==
  ASSUME PingBoard, Base, Game, NEW t \in Players, ~Gone(t)
  PROVE  /\ Plays(t)
         /\ \A call \in NextCalls(t) : call.again = 0
         /\ \A call \in NextCalls(t) :
              call.op \in {"make", "go"} => t = Pinger /\ Len(ret[Pinger]) < 2
<1>1. CASE Len(ret[Pinger]) < 2
  <2>1. t = Pinger
    BY <1>1 DEF Game, NotBegun, Players
  <2> QED
    BY <1>1, <2>1, AtStart DEF Plays
<1>2. CASE ~(Len(ret[Pinger]) < 2)
  <2>1. PICK s, r \in Nat : Place(t, s, r)
    BY <1>2 DEF Game
  <2>2. MsgT # 0
    BY DEF MsgT
  <2>3. \A call \in NextCalls(t) :
          /\ call.again = 0 /\ call.c = Ball
          /\ call.op \in {"send", "recv"} /\ call.n \in {1, MsgT}
    BY <2>1, NextMove DEF Game, Base
  <2> QED
    BY <2>2, <2>3 DEF Plays
<1> QED
  BY <1>1, <1>2

LEMMA GameExit ==
  ASSUME PingBoard, Base, Game, NEW t \in Threads, Exit(t)
  PROVE  Game'
<1>0. status \in [Threads -> Statuses] /\ UNCHANGED <<files, th, ret, sent, rcvd>>
  BY DEF Base, TypeOK, SchedOK, Exit
<1>1. Gone(Ponger) => Gone(Ponger)'
  BY <1>0 DEF Exit, Gone
<1>2. \A u \in Players : /\ Playing(u)'
                         /\ \A s, r : Place(u, s, r) => Place(u, s, r)'
  BY <1>0, PlaceStays DEF Game, SentBy, TakenBy
<1>3. Numbered' /\ HearsBack' /\ (NotBegun => NotBegun')
  BY <1>0, <1>1 DEF Game, Numbered, HearsBack, NotBegun, Before
<1> QED
  BY <1>0, <1>2, <1>3 DEF Game

LEMMA GameMake ==
  ASSUME PingBoard, Base, Provenance, Game, NEW t \in Players, ~Gone(t), Make(t)
  PROVE  Game' /\ MadeUnused
<1>0. /\ Pinger \in Threads /\ Ponger \in Threads /\ Ball \in Chans /\ TypeOK
      /\ DOMAIN files = Chans /\ DOMAIN sent = Chans /\ DOMAIN rcvd = Chans
      /\ Pinger # Ponger /\ Idle.pc = "idle" /\ Players \subseteq Threads
  BY FrameParts DEF PingBoard, Base, TypeOK, FilesOK, HistoryOK, Players, Pinger, Ponger
<1>1. PICK call \in NextCalls(t) :
        /\ call.op = "make"
        /\ files' = [files EXCEPT ![call.c] = NewFiles]
        /\ sent' = [sent EXCEPT ![call.c] = NewFiles] /\ rcvd' = [rcvd EXCEPT ![call.c] = NewFiles]
        /\ ReturnHeard(t, call, 0, 0)
        /\ UNCHANGED status
  BY DEF Make, Invokes, Return
<1>2. t = Pinger /\ Len(ret[Pinger]) < 2
  BY <1>1, GamePlays
<1>3. /\ Len(ret[Pinger]) = 0 /\ call.again = 0 /\ call.c = Ball
      /\ \A u \in Players : th[u].pc = "idle"
  BY <1>1, <1>2, AtStart
<1>4. /\ th'[t] = Idle /\ Len(ret'[t]) = 1 /\ ret'[t][1] = [call |-> call, n |-> 0, heard |-> 0]
      /\ \A u \in Threads \ {t} : th'[u] = th[u] /\ ret'[u] = ret[u]
  <2>1. TypeOK /\ t \in Threads /\ call.again = 0 /\ ReturnHeard(t, call, 0, 0)
    BY <1>0, <1>1, <1>3
  <2>2. /\ th'[t] = Idle /\ Len(ret'[t]) = Len(ret[t]) + 1
        /\ ret'[t][Len(ret[t]) + 1] = [call |-> call, n |-> 0, heard |-> 0]
        /\ \A u \in Threads \ {t} : th'[u] = th[u] /\ ret'[u] = ret[u]
    BY <2>1, Finish
  <2>3. Len(ret[t]) = 0
    BY <1>2, <1>3
  <2> QED
    BY <2>2, <2>3
<1>5. \A u \in Players : th'[u].pc = "idle"
  BY <1>0, <1>3, <1>4
<1>6. NotBegun'
  BY <1>0, <1>1, <1>2, <1>3, <1>4 DEF Game, NotBegun, Gone
<1>7. Numbered'
  <2>1. \A k \in BOOLEAN : sent'[Ball][k] = <<>>
    BY <1>6 DEF NotBegun, NewFiles
  <2>2. Len(<<>>) = 0
    OBVIOUS
  <2> QED
    BY <2>1, <2>2 DEF Numbered
<1>8. HearsBack'
  <2>1. \A u \in Players : \A i \in 1..Len(ret'[u]) : ret'[u][i].call.op # "recv"
    <3>1. ret'[Ponger] = <<>> /\ Len(<<>>) = 0
      BY <1>6 DEF NotBegun
    <3>2. \A i \in 1..Len(ret'[Pinger]) : ret'[Pinger][i].call.op = "make"
      BY <1>1, <1>2, <1>4
    <3> QED
      BY <3>1, <3>2 DEF Players
  <2> QED
    BY <2>1 DEF HearsBack
<1>9. Game'
  BY <1>2, <1>4, <1>5, <1>6, <1>7, <1>8 DEF Game, Playing
<1>10. MadeUnused
  <2> SUFFICES ASSUME NEW u \in Threads, NEW c \in Chans, JustMade(u, c) PROVE Unused(c)
    BY DEF MadeUnused
  <2>1. u = t
    <3>1. \A w \in Threads \ {t} : Len(ret[w]) \in Nat /\ ret'[w] = ret[w]
      BY <1>0, <1>4, LenProperties DEF TypeOK, ThreadsOK
    <3> QED
      BY <3>1 DEF JustMade
  <2>2. c = Ball
    BY <1>3, <1>4, <2>1 DEF JustMade
  <2>3. files[Ball] = NewFiles
    BY <1>2 DEF Game, NotBegun
  <2>4. \A w \in Threads : th[w].pc = "idle"
    BY <1>0, <1>3, OthersEnd DEF Base
  <2> QED
    BY <2>2, <2>3, <2>4 DEF Unused
<1> QED
  BY <1>9, <1>10

LEMMA GameGo ==
  ASSUME PingBoard, Base, Game, NEW t \in Players, ~Gone(t), Go(t)
  PROVE  Game'
<1>0. /\ Pinger \in Threads /\ Ponger \in Threads /\ Ball \in Chans /\ TypeOK
      /\ DOMAIN th = Threads /\ DOMAIN ret = Threads /\ ret[Pinger] \in Seq(Results)
      /\ Pinger # Ponger /\ Idle.pc = "idle" /\ Len(<<>>) = 0
  BY FrameParts DEF PingBoard, Base, TypeOK, ThreadsOK, Players, Pinger, Ponger
<1>1. PICK call \in NextCalls(t) :
        /\ call.op = "go"
        /\ th' = [th EXCEPT ![call.to] = Idle]
        /\ ret' = [ret EXCEPT ![call.to] = <<>>, ![t] = Returned(@, call, 0, 0)]
        /\ UNCHANGED <<files, sent, rcvd>>
  BY DEF Go, Invokes
<1>2. t = Pinger /\ Len(ret[Pinger]) < 2
  BY <1>1, GamePlays
<1>3. /\ Len(ret[Pinger]) = 1 /\ call.again = 0 /\ call.to = Ponger
      /\ \A u \in Players : th[u].pc = "idle"
  BY <1>1, <1>2, AtStart
<1> DEFINE x == [call |-> call, n |-> 0, heard |-> 0]
<1>4. ret'[Ponger] = <<>> /\ ret'[Pinger] = Append(ret[Pinger], x)
  BY <1>0, <1>1, <1>2, <1>3 DEF Returned
<1>5. /\ Len(ret'[Pinger]) = 2 /\ ret'[Pinger][2] = x /\ ret'[Pinger][1] = ret[Pinger][1]
  <2>1. ASSUME NEW h \in Seq(Results), NEW y, Len(h) = 1
        PROVE  Len(Append(h, y)) = 2 /\ Append(h, y)[2] = y /\ Append(h, y)[1] = h[1]
    <3>1. Len(Append(h, y)) = Len(h) + 1 /\ Append(h, y)[Len(h) + 1] = y
      OBVIOUS
    <3>2. \A i \in 1..Len(h) : Append(h, y)[i] = h[i]
      OBVIOUS
    <3>3. 1 \in 1..Len(h) /\ Len(h) + 1 = 2
      BY <2>1
    <3>4. Append(h, y)[1] = h[1]
      BY ONLY <3>2, <3>3, Zenon
    <3> QED
      BY ONLY <3>1, <3>3, <3>4
  <2> HIDE DEF x
  <2> QED
    BY <1>0, <1>3, <1>4, <2>1
<1>6. th'[Ponger].pc = "idle" /\ th'[Pinger].pc = "idle"
  BY <1>0, <1>1, <1>3 DEF Players
<1>7. HearsBack'
  <2>1. \A i \in 1..Len(ret'[Pinger]) : ret'[Pinger][i].call.op = "recv" =>
          ret'[Pinger][i].heard = i - Before(Pinger)
    <3>1. \A i \in 1..2 : i = 1 \/ i = 2
      OBVIOUS
    <3>2. ret'[Pinger][2].call.op = "go"
      BY <1>1, <1>5
    <3>3. ret[Pinger][1].call.op = "recv" => ret[Pinger][1].heard = 1 - Before(Pinger)
      BY <1>3 DEF Game, HearsBack, Players
    <3> QED
      BY <1>5, <3>1, <3>2, <3>3
  <2>2. \A i \in 1..Len(ret'[Ponger]) : FALSE
    BY <1>0, <1>4
  <2>3. \A u \in Players : u = Pinger \/ u = Ponger
    BY DEF Players
  <2> QED
    BY <2>1, <2>2, <2>3 DEF HearsBack, Before
<1>8. Numbered'
  BY <1>1 DEF Game, Numbered
<1>9. \A u \in Players : Place(u, 0, 0)'
  <2>1. \A k \in BOOLEAN : sent'[Ball][k] = <<>> /\ rcvd'[Ball][k] = <<>>
    BY <1>1, <1>2 DEF Game, NotBegun, NewFiles
  <2>2. \A u \in Players : SentBy(u)' = <<>> /\ TakenBy(u)' = <<>>
    BY <2>1 DEF SentBy, TakenBy
  <2>3. \A u \in Players : UnderWay(u)' = 0 /\ Len(ret'[u]) = Before(u)
    BY <1>0, <1>4, <1>5, <1>6 DEF UnderWay, Writing, WritePcs, Players, Before
  <2>4. \A u : Before(u) \in Nat
    BY DEF Before
  <2> QED
    BY <1>0, <2>2, <2>3, <2>4 DEF Place, Before
<1> QED
  BY <1>5, <1>6, <1>7, <1>8, <1>9 DEF Game, Playing, Players

LEMMA InPlay ==
  ASSUME PingBoard, Base, Game, NEW t \in Players, ~Gone(t), NEW call \in NextCalls(t),
         call.op \in {"send", "recv"}
  PROVE  ~(Len(ret[Pinger]) < 2)
<1>1. CASE Len(ret[Pinger]) < 2
  <2>1. t = Pinger
    BY <1>1 DEF Game, NotBegun, Players
  <2> QED
    BY <1>1, <2>1, AtStart
<1> QED
  BY <1>1

\* The file a player writes is not the one the other writes.
LEMMA TwoFiles ==
  ASSUME NEW t \in Players, NEW u \in Players, t # u
  PROVE  /\ (t = Pinger) # (u = Pinger) /\ (t = Pinger) = (u # Pinger)
         /\ (t = Pinger) \in BOOLEAN /\ (t # Pinger) \in BOOLEAN
BY DEF Players, Pinger, Ponger

LEMMA GameOn ==
  ASSUME PingBoard, Base, Game, NEW t \in Players, ~Gone(t), CallsOn(t)
  PROVE  Game'
<1>0. /\ t \in Threads /\ Players \subseteq Threads /\ Ball \in Chans /\ TypeOK
      /\ DOMAIN th = Threads
      /\ sent \in [Chans -> [BOOLEAN -> Seq(Messages)]]
  BY DEF PingBoard, Base, TypeOK, ThreadsOK, HistoryOK
<1>1. PICK call \in NextCalls(t) : call.op \in {"send", "recv"} /\ GoesOn(t, call)
  BY DEF CallsOn
<1>2. PICK f : Goto(t, f) /\ f.pc # "idle" /\ f.call = call
  BY <1>1 DEF GoesOn
<1>3. ~(Len(ret[Pinger]) < 2)
  BY <1>1, InPlay
<1>4. PICK s, r \in Nat : Place(t, s, r)
  BY <1>3 DEF Game
<1>5. /\ ret' = ret /\ th'[t] = f /\ rcvd' = rcvd
      /\ \A u \in Threads \ {t} : th'[u] = th[u]
  BY <1>0, <1>1, <1>2 DEF Goto, GoesOn
<1>6. HearsBack' /\ \A u \in Players : Playing(u)'
  <2>1. HearsBack'
    BY <1>5 DEF Game, HearsBack, Before
  <2>2. Playing(t)'
    BY <1>1, <1>2, <1>5 DEF Playing, NextCalls
  <2>3. \A u \in Players : u # t => Playing(u)'
    BY <1>0, <1>5, PlaceStays DEF Game
  <2> QED
    BY <2>1, <2>2, <2>3
<1>7. CASE sent' = sent /\ UnderWay(t)' = UnderWay(t)
  <2>1. Place(t, s, r)'
    BY <1>4, <1>5, <1>7 DEF Place, SentBy, TakenBy
  <2>2. \A u \in Players : u # t => \E s2, r2 \in Nat : Place(u, s2, r2)'
    BY <1>0, <1>3, <1>5, <1>7, PlaceStays DEF Game, SentBy, TakenBy
  <2>3. Numbered'
    BY <1>7 DEF Game, Numbered
  <2> QED
    BY <1>3, <1>5, <1>6, <2>1, <2>2, <2>3 DEF Game
<1>8. CASE /\ call.op = "send" /\ sent' = Noted(sent, Ball, t = Pinger, Message(t, call))
           /\ UnderWay(t) = 0 /\ UnderWay(t)' = 1
  <2>1. Serves(t, s, r) /\ call.n = MsgT /\ call.v = s + r + 1
    BY <1>0, <1>1, <1>4, <1>8, NextMove DEF Game
  <2> DEFINE m == Message(t, call)
  <2>2. m.says = s + r + 1 /\ m.size = MsgT
    BY <2>1 DEF Message
  <2> HIDE DEF m
  <2>3. PICK k \in BOOLEAN : k = (t = Pinger)
    OBVIOUS
  <2>4. /\ sent'[Ball][k] = Append(sent[Ball][k], m)
        /\ \A j \in BOOLEAN : j # k => sent'[Ball][j] = sent[Ball][j]
    BY <1>0, <1>8, <2>3 DEF Noted, m
  <2>5. Len(sent[Ball][k]) = s
    BY <1>4, <1>8, <2>3 DEF Place, SentBy
  <2>6. /\ Len(sent'[Ball][k]) = s + 1 /\ sent'[Ball][k][s + 1] = m
        /\ \A j \in 1..s : sent'[Ball][k][j] = sent[Ball][k][j]
    <3>1. sent[Ball][k] \in Seq(Messages)
      BY <1>0
    <3> QED
      BY <2>4, <2>5, <3>1
  <2>7. s + r + 1 = IF k THEN 2 * (s + 1) - 1 ELSE 2 * (s + 1)
    <3>1. IF k THEN s = r ELSE r = s + 1
      BY <1>4, <2>1, <2>3 DEF Place, Serves
    <3> QED
      BY <3>1
  <2>8. Numbered'
    <3> SUFFICES ASSUME NEW i \in BOOLEAN, NEW j \in 1..Len(sent'[Ball][i])
                 PROVE  /\ sent'[Ball][i][j].says = IF i THEN 2 * j - 1 ELSE 2 * j
                        /\ sent'[Ball][i][j].size = MsgT
      BY DEF Numbered
    <3>1. CASE i # k
      BY <2>4, <3>1 DEF Game, Numbered
    <3>2. CASE i = k
      <4>1. j \in 1..s \/ j = s + 1
        BY <2>6, <3>2
      <4>2. CASE j \in 1..s
        BY <2>5, <2>6, <3>2, <4>2 DEF Game, Numbered
      <4>3. CASE j = s + 1
        BY <2>2, <2>6, <2>7, <3>2, <4>3
      <4> QED
        BY <4>1, <4>2, <4>3
    <3> QED
      BY <3>1, <3>2
  <2>9. Place(t, s, r)'
    <3>1. Len(SentBy(t))' = s + UnderWay(t)'
      BY <1>8, <2>3, <2>6 DEF SentBy
    <3>2. TakenBy(t)' = TakenBy(t)
      BY <1>5 DEF TakenBy
    <3> QED
      BY <1>4, <1>5, <3>1, <3>2 DEF Place
  <2>10. ASSUME NEW u \in Players, u # t PROVE \E s2, r2 \in Nat : Place(u, s2, r2)'
    <3>1. SentBy(u)' = SentBy(u) /\ TakenBy(u)' = TakenBy(u)
      BY <1>5, <2>3, <2>4, <2>10, TwoFiles DEF SentBy, TakenBy
    <3>2. PICK s2, r2 \in Nat : Place(u, s2, r2)
      BY <1>3 DEF Game
    <3>3. th'[u] = th[u] /\ ret'[u] = ret[u]
      BY <1>0, <1>5, <2>10
    <3>4. Place(u, s2, r2)'
      BY <3>1, <3>2, <3>3, PlaceStays
    <3> QED
      BY <3>4
  <2> QED
    BY <1>3, <1>5, <1>6, <2>8, <2>9, <2>10 DEF Game
<1> QED
  BY <1>1, <1>7, <1>8 DEF GoesOn

LEMMA GameSent ==
  ASSUME PingBoard, Base, Game, NEW t \in Players, ~Gone(t), HasSent(t)
  PROVE  Game'
<1> DEFINE own == th[t].call
<1>0. /\ t \in Threads /\ Players \subseteq Threads /\ Ball \in Chans /\ TypeOK
      /\ Creator[Ball] = Pinger /\ RightFile(t) /\ Idle.pc = "idle"
  BY FrameParts DEF PingBoard, Base, Settled
<1>1. /\ th[t].pc = "send_sent" /\ own.op = "send" /\ ReturnHeard(t, own, own.n, 0)
      /\ UNCHANGED <<sent, rcvd>>
  BY DEF HasSent, Return
<1>2. own \in NextCalls(t)
  BY <1>1 DEF Game, Playing
<1>3. ~(Len(ret[Pinger]) < 2)
  BY <1>1, <1>2, InPlay
<1>4. PICK s, r \in Nat : Place(t, s, r)
  BY <1>3 DEF Game
<1>5. own.again = 0 /\ own.c = Ball /\ Serves(t, s, r) /\ own.n # 0
  <2>1. MsgT # 0
    BY DEF MsgT
  <2>2. /\ own.again = 0 /\ own.c = Ball
        /\ Serves(t, s, r) => own.op = "send" /\ own.n = MsgT
        /\ ~Serves(t, s, r) => own.op = "recv"
    <3> HIDE DEF own
    <3> QED
      BY <1>0, <1>2, <1>4, NextMove DEF Game
  <2> QED
    BY <1>1, <2>1, <2>2
<1> HIDE DEF own
<1>6. /\ th'[t] = Idle /\ Len(ret'[t]) = Len(ret[t]) + 1 /\ Len(ret[t]) \in Nat
      /\ ret'[t][Len(ret[t]) + 1] = [call |-> own, n |-> own.n, heard |-> 0]
      /\ \A i \in 1..Len(ret[t]) : ret'[t][i] = ret[t][i]
      /\ \A u \in Threads \ {t} : th'[u] = th[u] /\ ret'[u] = ret[u]
  BY <1>0, <1>1, <1>5, Finish
<1>7. HearsBack'
  <2>1. PICK n : n = Len(ret[t]) + 1
    OBVIOUS
  <2>2. Len(ret'[t]) = n /\ ret'[t][n].call.op # "recv"
    BY <1>1, <1>6, <2>1
  <2> QED
    BY <1>0, <1>6, <2>1, <2>2, HearsOneMore DEF Game
<1>8. Place(t, s + 1, r)'
  <2>1. UnderWay(t) = 1
    <3>1. th[t].rb = (t = Pinger)
      BY <1>0, <1>1, <1>5 DEF RightFile, OutPcs, WritePcs, own
    <3> QED
      BY <1>1, <1>5, <3>1 DEF UnderWay, Writing, WritePcs, own
  <2>2. UnderWay(t)' = 0
    BY <1>0, <1>6 DEF UnderWay, Writing, WritePcs
  <2>3. Len(SentBy(t))' = s + 1 + UnderWay(t)' /\ Len(TakenBy(t))' = r
    BY <1>1, <1>4, <2>1, <2>2 DEF Place, SentBy, TakenBy
  <2>4. Len(ret'[t]) = Before(t) + (s + 1) + r
    BY <1>4, <1>6 DEF Place, Before
  <2>5. /\ IF t = Pinger THEN s + 1 \in {r, r + 1} ELSE r \in {s + 1, s + 2}
        /\ ~Serves(t, s + 1, r)
    BY <1>4, <1>5 DEF Place, Serves
  <2>6. EndsIn(ret'[t], "send")
    BY <1>1, <1>5, <1>6 DEF EndsIn
  <2> QED
    BY <2>3, <2>4, <2>5, <2>6 DEF Place, Before, Serves
<1>9. \A u \in Players : u # t =>
        /\ Playing(u)'
        /\ \E s2, r2 \in Nat : Place(u, s2, r2)'
  BY <1>0, <1>1, <1>3, <1>6, PlaceStays DEF Game, SentBy, TakenBy
<1>10. Numbered' /\ Playing(t)'
  BY <1>0, <1>1, <1>6 DEF Game, Numbered, Playing
<1>11. ~(Len(ret'[Pinger]) < 2)
  BY <1>0, <1>3, <1>6 DEF Players
<1> QED
  BY <1>7, <1>8, <1>9, <1>10, <1>11 DEF Game

\* What a player takes is the next number of the other.
LEMMA TakesNext ==
  ASSUME Base, Streams, Numbered, NEW t \in Threads, NEW k \in BOOLEAN, Ball \in Chans,
         Reading(t, Ball, k), th[t].pc = "recv_got", Complete(th[t])
  PROVE  LET j == Len(rcvd[Ball][k]) + 1
         IN  /\ Len(th[t].out) = MsgT
             /\ Heard(th[t].out) = IF k THEN 2 * j - 1 ELSE 2 * j
<1> DEFINE j == Len(rcvd[Ball][k]) + 1
           m == sent[Ball][k][j]
           out == th[t].out
<1>1. \E took : Holds(t, Ball, k, took)
  BY DEF Streams, FileOK, Takes
<1>2. /\ Len(rcvd[Ball][k]) < Len(sent[Ball][k]) /\ th[t].size = m.size
      /\ out = Cells(m, HdrSize, Len(out))
  BY <1>1 DEF Holds
<1>3. Len(rcvd[Ball][k]) \in Nat /\ Len(sent[Ball][k]) \in Nat
  BY LenProperties DEF Base, TypeOK, HistoryOK
<1>4. j \in 1..Len(sent[Ball][k])
  BY <1>2, <1>3
<1>5. m.says = (IF k THEN 2 * j - 1 ELSE 2 * j) /\ m.size = MsgT
  <2> HIDE DEF j
  <2> QED
    BY <1>4 DEF Numbered
<1>6. Len(out) = MsgT
  BY <1>2, <1>5 DEF Complete
<1>7. Heard(out) = m.says
  <2>1. out \in Seq(CellSet) /\ MsgT \in 1..MsgT /\ MsgT = 4
    BY FrameFacts DEF Base, TypeOK, MsgT
  <2>2. out # <<>>
    <3>1. Len(<<>>) = 0 /\ MsgT # 0
      BY <2>1
    <3> QED
      BY <1>6, <3>1
  <2> HIDE DEF m, out
  <2>3. out[1] = [msg |-> m, off |-> HdrSize + 1]
    BY <1>2, <1>6, <2>1 DEF Cells
  <2> QED
    BY <2>2, <2>3 DEF Heard
<1> QED
  BY <1>5, <1>6, <1>7

LEMMA GameTaken ==
  ASSUME PingBoard, Base, Streams, Game, NEW t \in Players, ~Gone(t), HasTaken(t)
  PROVE  Game'
<1> DEFINE own == th[t].call
           out == th[t].out
<1>0. /\ t \in Threads /\ Players \subseteq Threads /\ Ball \in Chans /\ TypeOK
      /\ Creator[Ball] = Pinger /\ RightFile(t) /\ Idle.pc = "idle"
      /\ rcvd \in [Chans -> [BOOLEAN -> Seq(Seq(CellSet))]]
  BY FrameParts DEF PingBoard, Base, Settled, TypeOK, HistoryOK
<1>1. /\ th[t].pc = "recv_got" /\ own.op = "recv" /\ Complete(th[t]) /\ sent' = sent
      /\ rcvd' = Noted(rcvd, own.c, th[t].rb, out)
      /\ ReturnHeard(t, own, Len(out), Heard(out))
  BY DEF HasTaken, Taken
<1>2. own \in NextCalls(t)
  BY <1>1 DEF Game, Playing
<1>3. ~(Len(ret[Pinger]) < 2)
  BY <1>1, <1>2, InPlay
<1>4. PICK s, r \in Nat : Place(t, s, r)
  BY <1>3 DEF Game
<1>5. own.again = 0 /\ own.c = Ball /\ ~Serves(t, s, r) /\ own.n = 1
  <2>1. /\ own.again = 0 /\ own.c = Ball
        /\ Serves(t, s, r) => own.op = "send"
        /\ ~Serves(t, s, r) => own.op = "recv" /\ own.n = 1
    <3> HIDE DEF own
    <3> QED
      BY <1>0, <1>2, <1>4, NextMove DEF Game
  <2> QED
    BY <1>1, <2>1
<1>6. PICK k \in BOOLEAN : k = (t # Pinger)
  OBVIOUS
<1>7. th[t].rb = k /\ Reading(t, Ball, k)
  <2>1. th[t].rb = k
    BY <1>0, <1>1, <1>5, <1>6 DEF RightFile, InPcs, ReadPcs
  <2> QED
    BY <1>1, <1>5, <2>1 DEF Reading, ReadPcs
<1>8. Len(rcvd[Ball][k]) = r
  BY <1>4, <1>6 DEF Place, TakenBy
<1>9. Len(out) = MsgT /\ Heard(out) = s + r + 1
  <2>1. Len(out) = MsgT /\ Heard(out) = IF k THEN 2 * (r + 1) - 1 ELSE 2 * (r + 1)
    BY <1>0, <1>1, <1>7, <1>8, TakesNext DEF Game
  <2>2. IF k THEN s = r ELSE s = r + 1
    BY <1>4, <1>5, <1>6 DEF Place, Serves
  <2> QED
    BY <2>1, <2>2
<1> HIDE DEF own, out
<1>10. /\ th'[t] = Idle /\ Len(ret'[t]) = Len(ret[t]) + 1 /\ Len(ret[t]) \in Nat
       /\ ret'[t][Len(ret[t]) + 1] = [call |-> own, n |-> Len(out), heard |-> Heard(out)]
       /\ \A i \in 1..Len(ret[t]) : ret'[t][i] = ret[t][i]
       /\ \A u \in Threads \ {t} : th'[u] = th[u] /\ ret'[u] = ret[u]
  BY <1>0, <1>1, <1>5, Finish
<1>11. HearsBack'
  <2>1. PICK n : n = Len(ret[t]) + 1
    OBVIOUS
  <2>2. n - Before(t) = s + r + 1
    BY <1>4, <2>1 DEF Place, Before
  <2>3. Len(ret'[t]) = n /\ ret'[t][n].heard = n - Before(t)
    BY <1>9, <1>10, <2>1, <2>2
  <2> QED
    BY <1>0, <1>10, <2>1, <2>3, HearsOneMore DEF Game
<1>12. /\ Len(rcvd'[Ball][k]) = r + 1
       /\ \A i \in BOOLEAN : i # k => rcvd'[Ball][i] = rcvd[Ball][i]
  <2>1. /\ rcvd'[Ball][k] = Append(rcvd[Ball][k], out)
        /\ \A i \in BOOLEAN : i # k => rcvd'[Ball][i] = rcvd[Ball][i]
    BY <1>0, <1>1, <1>5, <1>7 DEF Noted
  <2>2. rcvd[Ball][k] \in Seq(Seq(CellSet))
    BY <1>0
  <2> QED
    BY <1>8, <2>1, <2>2
<1>13. Place(t, s, r + 1)'
  <2>1. UnderWay(t)' = 0 /\ UnderWay(t) = 0
    BY <1>0, <1>1, <1>10 DEF UnderWay, Writing, WritePcs
  <2>2. Len(SentBy(t))' = s + UnderWay(t)' /\ Len(TakenBy(t))' = r + 1
    BY <1>1, <1>4, <1>6, <1>12, <2>1 DEF Place, SentBy, TakenBy
  <2>3. Len(ret'[t]) = Before(t) + s + (r + 1)
    BY <1>4, <1>10 DEF Place, Before
  <2>4. /\ IF t = Pinger THEN s \in {r + 1, r + 2} ELSE r + 1 \in {s, s + 1}
        /\ Serves(t, s, r + 1)
    BY <1>4, <1>5 DEF Place, Serves
  <2>5. EndsIn(ret'[t], "recv")
    <3>1. MsgT # 0
      BY DEF MsgT
    <3> QED
      BY <1>1, <1>5, <1>9, <1>10, <3>1 DEF EndsIn, own
  <2> QED
    BY <2>2, <2>3, <2>4, <2>5 DEF Place, Before, Serves
<1>14. ASSUME NEW u \in Players, u # t
       PROVE  Playing(u)' /\ \E s2, r2 \in Nat : Place(u, s2, r2)'
  <2>1. SentBy(u)' = SentBy(u) /\ TakenBy(u)' = TakenBy(u)
    BY <1>1, <1>6, <1>12, <1>14, TwoFiles DEF SentBy, TakenBy
  <2>2. PICK s2, r2 \in Nat : Place(u, s2, r2)
    BY <1>3 DEF Game
  <2>3. th'[u] = th[u] /\ ret'[u] = ret[u] /\ Playing(u)
    BY <1>0, <1>10, <1>14 DEF Game
  <2>4. Place(u, s2, r2)' /\ Playing(u)'
    BY <2>1, <2>2, <2>3, PlaceStays
  <2> QED
    BY <2>4
<1>15. Numbered' /\ Playing(t)'
  BY <1>0, <1>1, <1>10 DEF Game, Numbered, Playing
<1>16. ~(Len(ret'[Pinger]) < 2)
  BY <1>0, <1>3, <1>10 DEF Players
<1> QED
  BY <1>11, <1>13, <1>14, <1>15, <1>16 DEF Game

LEMMA StaysOpen ==
  ASSUME PingBoard, Base, Game, AllOpen, NEW t \in Threads, Step(t)
  PROVE  AllOpen'
<1>0. TypeOK /\ InProgram /\ ~SetOwner(t)
  BY PingDisciplined, PlainSteps DEF Base
<1>1. ~FlagsStore(t)
  <2> SUFFICES ASSUME th[t].pc = "flags" PROVE FALSE
    BY DEF FlagsStore, At
  <2>1. th[t].call \in OwnCalls(t) /\ "flags" \in PcsOf(th[t].call.op)
    BY <1>0 DEF InProgram
  <2>2. t \in Players
    BY <2>1, BoardCalls
  <2>3. th[t].call.op \in {"send", "recv"}
    BY <2>2 DEF Game, Playing
  <2> QED
    BY <2>1, <2>3 DEF PcsOf, SendPcs, RecvPcs
<1>2. CASE chan' = chan
  BY <1>2 DEF AllOpen, Closed
<1>3. CASE Make(t)
  <2>1. PICK d \in Chans, flags \in {{}, {"buffered"}} :
          chan' = [chan EXCEPT ![d] = [creator |-> Creator[d], flags |-> flags]]
    BY <1>3, PingDisciplined, MakesOwn
  <2> QED
    BY <1>0, <2>1 DEF TypeOK, ChanOK, AllOpen, Closed
<1> QED
  BY <1>0, <1>1, <1>2, <1>3, ChanStays

LEMMA GameStep ==
  ASSUME PingBoard, Base, Provenance, Streams, Game, AllOpen, NEW t \in Threads, Step(t)
  PROVE  Game' /\ AllOpen' /\ Streams'
<1>0. TypeOK /\ InProgram /\ ~Gone(t)
  BY DEF Base, Step
<1>1. Game' /\ (Make(t) => MadeUnused)
  <2>1. CASE t \in Players
    <3>1. /\ Plays(t) /\ Playing(t)
      BY <1>0, <2>1, GamePlays DEF Game
    <3>2. Make(t) \/ Go(t) \/ Exit(t) \/ CallsOn(t) \/ HasSent(t) \/ HasTaken(t)
      BY <2>1, <3>1, PlayerSteps
    <3>3. CASE Make(t)
      BY <1>0, <2>1, <3>3, GameMake
    <3>4. CASE ~Make(t)
      BY <1>0, <2>1, <3>2, <3>4, GameGo, GameExit, GameOn, GameSent, GameTaken
    <3> QED
      BY <3>3, <3>4
  <2>2. CASE t \notin Players
    <3>1. Exit(t) /\ ~Make(t)
      <4>1. Exit(t)
        BY <1>0, <2>2, OthersEnd
      <4>2. ~Make(t)
        BY <4>1 DEF Exit, Make
      <4> QED
        BY <4>1, <4>2
    <3> QED
      BY <3>1, GameExit
  <2> QED
    BY <2>1, <2>2
<1>2. AllOpen'
  BY StaysOpen
<1>3. Streams'
  <2>1. StayClosed /\ ~GaveUp(t)
    BY DEF AllOpen, StayClosed, GaveUp, OwnCalls, Calls
  <2> QED
    BY <1>1, <2>1, PingDisciplined, StreamsStep DEF AllOpen
<1> QED
  BY <1>1, <1>2, <1>3

LEMMA GameInit ==
  ASSUME PingBoard, Init
  PROVE  Game /\ AllOpen
<1>1. /\ Players \subseteq Threads /\ Pinger \in Threads /\ Ponger \in Threads /\ Ball \in Chans
      /\ Len(<<>>) = 0 /\ Idle.pc = "idle"
  BY FrameParts DEF PingBoard, Players
<1>2. /\ \A t \in Players : th[t] = Idle /\ ret[t] = <<>>
      /\ files[Ball] = NewFiles /\ sent[Ball] = NewFiles /\ rcvd[Ball] = NewFiles
  BY <1>1 DEF Init
<1>3. Gone(Ponger)
  <2>1. PICK on \in Boot : status = Booted(on)
    BY DEF Init
  <2> QED
    BY <1>1, <2>1 DEF Booted, Gone, PingBoard
<1>4. \A k \in BOOLEAN : sent[Ball][k] = <<>>
  BY <1>2 DEF NewFiles
<1>5. Numbered /\ HearsBack
  BY <1>1, <1>2, <1>4 DEF Numbered, HearsBack
<1>6. Game
  BY <1>1, <1>2, <1>3, <1>5 DEF Game, Playing, NotBegun, Players
<1> QED
  BY <1>6, NeverClosedInit DEF NeverClosed, AllOpen

\* Each side of the ping-pong hears the number it said, counted up by the other, for
\* every number of rounds, every size of the ring buffer, with one priority or two,
\* buffered or not: whoever receives has what the other said last, never its own
\* number, never an old one.  No call returns 0, so nobody closes the channel.
THEOREM PlayersHearBack ==
  ASSUME PingBoard
  PROVE  Spec => []Echoed
<1>1. Init => Streams /\ Game /\ AllOpen
  BY StreamsInit, GameInit
<1>2. Base /\ Provenance /\ Streams /\ Game /\ AllOpen /\ [Next]_vars => (Streams /\ Game /\ AllOpen)'
  <2>1. ASSUME UNCHANGED vars, Streams, Game, AllOpen PROVE (Streams /\ Game /\ AllOpen)'
    <3>1. Game'
      BY <2>1 DEF vars, Game, Playing, NextCalls, Numbered, HearsBack, NotBegun, Gone, Place, SentBy,
                  TakenBy, UnderWay, Writing, Before, Serves
    <3> QED
      BY <2>1, <3>1, StreamsStutter DEF vars, AllOpen, Closed
  <2> QED
    BY <2>1, GameStep DEF Next, Ended
<1>3. Game => Echoed
  BY DEF Game, HearsBack, Echoed, Hearings, Before, Players, Pinger, Ponger
<1> QED
  BY <1>1, <1>2, <1>3, PingDisciplined, BaseInvariant, ProvenanceInvariant, PTL DEF Spec

================================================================================
