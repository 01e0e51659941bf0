----------------------------- MODULE ChannelProofs -----------------------------
(******************************************************************************)
(* Theorems about Channel, for every set of threads and channels, every       *)
(* program, every size of the ring buffers and either build of them: its      *)
(* variables keep their types, whoever is registered on a channel sleeps      *)
(* there, who has ended stays so, and a closed channel takes no more data.    *)
(******************************************************************************)
EXTENDS ChannelProperties, SequenceTheorems, TLAPS

--------------------------------------------------------------------------------
(* The ring buffer *)

\* Adding never overfills a ring buffer.
LEMMA AddFits ==
  ASSUME NEW S, NEW q \in Seq(S), Len(q) <= BufSize, NEW data \in Seq(S)
  PROVE  /\ RbFree(q) \in Nat
         /\ RbAdd(q, data) \in Seq(S)
         /\ Len(RbAdd(q, data)) = Len(q) + Least(Len(data), RbFree(q))
         /\ Len(RbAdd(q, data)) <= BufSize
<1> DEFINE n == Least(Len(data), RbFree(q))
<1>1. /\ Len(q) \in Nat /\ Len(data) \in Nat /\ BufSize \in Nat
  BY RiotAssumption, LenProperties
<1>2. RbFree(q) \in Nat /\ RbFree(q) = BufSize - Len(q)
  BY <1>1 DEF RbFree
<1>3. n \in 0..Len(data) /\ n <= BufSize - Len(q)
  BY <1>1, <1>2 DEF Least
<1>4. \A i \in 1..n : data[i] \in S
  BY <1>1, <1>3, ElementOfSeq
<1>5. SubSeq(data, 1, n) \in Seq(S) /\ Len(SubSeq(data, 1, n)) = n
  BY <1>3, <1>4, SubSeqProperties
<1>6. /\ q \o SubSeq(data, 1, n) \in Seq(S)
      /\ Len(q \o SubSeq(data, 1, n)) = Len(q) + n
  BY <1>5, ConcatProperties
<1> QED
  BY <1>1, <1>2, <1>3, <1>6 DEF RbAdd

\* What a get takes and a drop leaves.
LEMMA GetAndDrop ==
  ASSUME NEW S, NEW q \in Seq(S), NEW n \in Nat
  PROVE  /\ RbGet(q, n) \in Seq(S)
         /\ Len(RbGet(q, n)) = Least(n, Len(q))
         /\ Len(RbGet(q, n)) <= n
         /\ RbDrop(q, n) \in Seq(S)
         /\ Len(RbDrop(q, n)) = Len(q) - Least(n, Len(q))
         /\ Len(RbDrop(q, n)) <= Len(q)
<1> DEFINE m == Least(n, Len(q))
<1>1. Len(q) \in Nat
  BY LenProperties
<1>2. m \in 0..Len(q) /\ m <= n
  BY <1>1 DEF Least
<1>3. \A i \in 1..Len(q) : q[i] \in S
  BY ElementOfSeq
<1>4. SubSeq(q, 1, m) \in Seq(S) /\ Len(SubSeq(q, 1, m)) = m
  <2>1. \A i \in 1..m : q[i] \in S
    BY <1>1, <1>2, <1>3
  <2> QED
    BY <1>2, <2>1, SubSeqProperties
<1>5. SubSeq(q, m + 1, Len(q)) \in Seq(S) /\ Len(SubSeq(q, m + 1, Len(q))) = Len(q) - m
  <2>1. \A i \in m + 1..Len(q) : q[i] \in S
    BY <1>1, <1>2, <1>3
  <2>2. m + 1 \in Int /\ Len(q) \in Int
    BY <1>1, <1>2
  <2>3. /\ SubSeq(q, m + 1, Len(q)) \in Seq(S)
        /\ Len(SubSeq(q, m + 1, Len(q))) = IF m + 1 <= Len(q) THEN Len(q) - (m + 1) + 1 ELSE 0
    BY <2>1, <2>2, SubSeqProperties
  <2> QED
    BY <1>1, <1>2, <2>3
<1> QED
  BY <1>1, <1>2, <1>4, <1>5 DEF RbGet, RbDrop

--------------------------------------------------------------------------------
(* Messages, frames and the parts of a step *)

LEMMA CellsType ==
  ASSUME NEW m \in Messages, NEW from \in Nat, NEW n \in Nat
  PROVE  Cells(m, from, n) \in Seq(CellSet) /\ Len(Cells(m, from, n)) = n
<1> DEFINE cell(i) == [msg |-> m, off |-> from + i]
<1>1. \A i \in 1..n : cell(i) \in CellSet
  BY DEF CellSet
<1>2. [i \in 1..n |-> cell(i)] \in Seq(CellSet)
  <2> HIDE DEF cell
  <2> QED  BY <1>1, IsASeq
<1> QED
  BY <1>2 DEF Cells

\* A new frame, and a frame with the locals of a data loop.
LEMMA FrameType ==
  ASSUME NEW pc \in Pcs, NEW call \in Calls, NEW rb \in BOOLEAN
  PROVE  Frame(pc, call, rb) \in Frames /\ InBounds(Frame(pc, call, rb))
<1>1. <<>> \in Seq(CellSet) /\ Len(<<>>) = 0
  BY EmptySeq
<1>2. call.n \in Nat
  BY DEF Calls
<1> QED
  BY <1>1, <1>2 DEF Frame, Frames, InBounds

LEMMA IdleType == Idle \in Frames /\ InBounds(Idle)
<1>1. <<>> \in Seq(CellSet) /\ Len(<<>>) = 0
  BY EmptySeq
<1> QED
  BY <1>1 DEF Idle, Frame, Frames, InBounds, Pcs

LEMMA SendFrameType ==
  ASSUME NEW pc \in Pcs, NEW call \in Calls, NEW rb \in BOOLEAN, NEW bytes \in 0..call.n
  PROVE  /\ SendFrame(pc, call, rb, bytes) \in Frames
         /\ InBounds(SendFrame(pc, call, rb, bytes))
         /\ SendFrame(pc, call, rb, bytes).pc = pc
         /\ SendFrame(pc, call, rb, bytes).call = call
<1> DEFINE f == Frame(pc, call, rb)
           g == [f EXCEPT !.bytes = bytes]
<1>1. f \in Frames /\ InBounds(f) /\ f.pc = pc /\ f.call = call
  BY FrameType DEF Frame
<1>2. bytes \in Nat /\ bytes <= call.n /\ f.call = call
  BY DEF Calls, Frame
<1> HIDE DEF f
<1>3. g \in Frames
  BY <1>1, <1>2 DEF Frames
<1>4. g.out = f.out /\ g.size = f.size /\ g.pc = f.pc /\ g.call = f.call /\ g.bytes = bytes
  BY <1>1 DEF Frames
<1>5. InBounds(g)
  BY <1>1, <1>2, <1>4 DEF InBounds
<1> QED
  BY <1>1, <1>3, <1>4, <1>5 DEF f, SendFrame

LEMMA RecvFrameType ==
  ASSUME NEW pc \in Pcs, NEW call \in Calls, NEW rb \in BOOLEAN,
         NEW size \in Nat, NEW out \in Seq(CellSet), Len(out) <= size
  PROVE  /\ RecvFrame(pc, call, rb, size, out) \in Frames
         /\ InBounds(RecvFrame(pc, call, rb, size, out))
         /\ RecvFrame(pc, call, rb, size, out).pc = pc
         /\ RecvFrame(pc, call, rb, size, out).call = call
<1> DEFINE f == Frame(pc, call, rb)
           g == [f EXCEPT !.size = size, !.out = out]
<1>1. f \in Frames /\ InBounds(f) /\ f.pc = pc /\ f.call = call
  BY FrameType DEF Frame
<1> HIDE DEF f
<1>3. g \in Frames
  BY <1>1 DEF Frames
<1>4. g.out = out /\ g.size = size /\ g.pc = f.pc /\ g.call = f.call /\ g.bytes = f.bytes
  BY <1>1 DEF Frames
<1>5. InBounds(g)
  BY <1>1, <1>4 DEF InBounds
<1> QED
  BY <1>1, <1>3, <1>4, <1>5 DEF f, RecvFrame

\* The parts of the steps, each with what it keeps.
LEMMA PutType ==
  ASSUME FilesOK, NEW c \in Chans, NEW k \in BOOLEAN, NEW q \in Rings, Put(c, k, q)
  PROVE  FilesOK'
BY DEF FilesOK, Put

LEMMA GotoType ==
  ASSUME ThreadsOK, NEW t \in Threads, NEW f \in Frames, InBounds(f), Goto(t, f)
  PROVE  ThreadsOK'
BY DEF ThreadsOK, Goto

LEMMA HeardType ==
  ASSUME NEW out \in Seq(CellSet)
  PROVE  Heard(out) \in Int
<1>1. CASE out = <<>>
  BY <1>1 DEF Heard
<1>2. CASE out # <<>>
  <2>1. out[1] \in CellSet
    <3>1. Len(out) \in Nat /\ Len(out) # 0
      BY <1>2, EmptySeq, LenProperties
    <3> QED
      BY <3>1, ElementOfSeq
  <2> QED
    BY <1>2, <2>1 DEF Heard, CellSet, Messages
<1> QED
  BY <1>1, <1>2

\* A call is remembered, or with it the last tries of its loop are forgotten.
LEMMA ReturnedType ==
  ASSUME NEW h \in Seq(Results), NEW call \in Calls, NEW n \in Nat, NEW heard \in Int
  PROVE  Returned(h, call, n, heard) \in Seq(Results)
<1>1. Len(h) \in Nat /\ call.again \in Nat
  BY LenProperties DEF Calls
<1>2. Append(h, [call |-> call, n |-> n, heard |-> heard]) \in Seq(Results)
  <2>1. [call |-> call, n |-> n, heard |-> heard] \in Results
    BY DEF Results
  <2> QED
    BY <2>1, AppendProperties
<1>3. CASE call.again > 0
  <2> DEFINE kept == Len(h) + 1 - call.again
  <2>1. kept \in Int /\ kept <= Len(h)
    BY <1>1, <1>3
  <2>2. \A i \in 1..kept : h[i] \in Results
    BY <1>1, <2>1, ElementOfSeq
  <2>3. SubSeq(h, 1, kept) \in Seq(Results)
    BY <2>1, <2>2, SubSeqProperties
  <2> QED
    BY <1>2, <2>3 DEF Returned
<1>4. CASE ~(call.again > 0)
  BY <1>2, <1>4 DEF Returned
<1> QED
  BY <1>3, <1>4

LEMMA ReturnHeardType ==
  ASSUME ThreadsOK, NEW t \in Threads, NEW call \in Calls, NEW n \in Nat, NEW heard \in Int,
         ReturnHeard(t, call, n, heard)
  PROVE  ThreadsOK'
<1>1. Returned(ret[t], call, n, heard) \in Seq(Results)
  BY ReturnedType DEF ThreadsOK
<1> QED
  BY <1>1, IdleType DEF ThreadsOK, ReturnHeard

LEMMA ReturnType ==
  ASSUME ThreadsOK, NEW t \in Threads, NEW call \in Calls, NEW n \in Nat, Return(t, call, n)
  PROVE  ThreadsOK'
BY ReturnHeardType DEF Return

LEMMA NotedType ==
  ASSUME NEW S, NEW h \in [Chans -> [BOOLEAN -> Seq(S)]],
         NEW c \in Chans, NEW k \in BOOLEAN, NEW x \in S
  PROVE  Noted(h, c, k, x) \in [Chans -> [BOOLEAN -> Seq(S)]]
<1>1. Append(h[c][k], x) \in Seq(S)
  BY AppendProperties
<1> QED
  BY <1>1 DEF Noted

LEMMA NewFilesType ==
  /\ NewFiles \in [BOOLEAN -> Rings]
  /\ NewFiles \in [BOOLEAN -> Seq(Messages)]
  /\ NewFiles \in [BOOLEAN -> Seq(Seq(CellSet))]
<1>1. <<>> \in Rings
  BY EmptySeq, RiotAssumption DEF Rings
<1> QED
  BY <1>1, EmptySeq DEF NewFiles

LEMMA SchedType ==
  ASSUME SchedOK, NEW t \in Threads, NEW c \in Chans, NEW slot \in Slots,
         Undisturbed \/ Block(t, c, slot) \/ Wake(c, slot)
  PROVE  SchedOK'
<1>1. CASE Undisturbed
  BY <1>1 DEF Undisturbed, SchedOK
<1>2. CASE Block(t, c, slot)
  BY <1>2 DEF Block, SchedOK, Statuses
<1>3. CASE Wake(c, slot)
  <2>1. CASE Undisturbed
    BY <2>1 DEF Undisturbed, SchedOK
  <2>2. CASE ~Undisturbed
    <3>1. /\ blocked' = [blocked EXCEPT ![c] = [@ EXCEPT ![slot] = NoThread]]
          /\ status' = [status EXCEPT ![blocked[c][slot]] = "ready"]
      BY <1>3, <2>2 DEF Wake
    <3> QED
      BY <3>1 DEF SchedOK, Statuses
  <2> QED
    BY <2>1, <2>2
<1> QED
  BY <1>1, <1>2, <1>3

--------------------------------------------------------------------------------
(* TypeOK, one lemma for each shared piece of code *)

LEMMA RingFacts ==
  ASSUME NEW q \in Rings
  PROVE  q \in Seq(CellSet) /\ Len(q) \in Nat /\ Len(q) <= BufSize
BY LenProperties DEF Rings

LEMMA DropType ==
  ASSUME NEW q \in Rings, NEW n \in Nat
  PROVE  RbDrop(q, n) \in Rings
<1>1. q \in Seq(CellSet) /\ Len(q) \in Nat /\ Len(q) <= BufSize /\ BufSize \in Nat
  BY RingFacts, RiotAssumption
<1>2. RbDrop(q, n) \in Seq(CellSet) /\ Len(RbDrop(q, n)) <= Len(q)
  BY <1>1, GetAndDrop
<1>3. Len(RbDrop(q, n)) \in Nat
  BY <1>2, LenProperties
<1> QED
  BY <1>1, <1>2, <1>3 DEF Rings

\* The bytes behind those that were in a ring buffer before an add are the first
\* bytes of the data.
LEMMA AddedCells ==
  ASSUME NEW q \in Rings, NEW data \in Seq(CellSet), NEW i \in 1..Len(RbAdd(q, data))
  PROVE  /\ i <= Len(q) => RbAdd(q, data)[i] = q[i]
         /\ i > Len(q) => /\ i - Len(q) \in 1..Len(data)
                          /\ RbAdd(q, data)[i] = data[i - Len(q)]
<1> DEFINE n == Least(Len(data), RbFree(q))
           part == SubSeq(data, 1, n)
<1>1. /\ q \in Seq(CellSet) /\ Len(q) \in Nat /\ Len(data) \in Nat /\ RbFree(q) \in Nat
      /\ Len(RbAdd(q, data)) = Len(q) + n
  BY RingFacts, AddFits, LenProperties
<1>2. n \in 0..Len(data)
  BY <1>1 DEF Least
<1>3. \A j \in 1..n : data[j] \in CellSet
  BY <1>1, <1>2, ElementOfSeq
<1>4. part \in Seq(CellSet) /\ Len(part) = n /\ \A j \in 1..n : part[j] = data[j]
  BY <1>2, <1>3, SubSeqProperties
<1>5. \A j \in 1..Len(q) + n : (q \o part)[j] = IF j <= Len(q) THEN q[j] ELSE part[j - Len(q)]
  BY <1>1, <1>4, ConcatProperties
<1>6. (q \o part)[i] = IF i <= Len(q) THEN q[i] ELSE part[i - Len(q)]
  BY <1>1, <1>5
<1>7. i > Len(q) => i - Len(q) \in 1..n
  BY <1>1, <1>2
<1> QED
  BY <1>2, <1>4, <1>6, <1>7 DEF RbAdd

\* The bytes a get sees are the first of the ring buffer.
LEMMA GotCells ==
  ASSUME NEW q \in Rings, NEW n \in Nat, NEW i \in 1..Len(RbGet(q, n))
  PROVE  i \in 1..Len(q) /\ RbGet(q, n)[i] = q[i]
<1> DEFINE m == Least(n, Len(q))
<1>1. q \in Seq(CellSet) /\ Len(q) \in Nat
  BY RingFacts
<1>2. m \in 0..Len(q)
  BY <1>1 DEF Least
<1>3. \A j \in 1..m : q[j] \in CellSet
  BY <1>1, <1>2, ElementOfSeq
<1>4. /\ Len(SubSeq(q, 1, m)) = m
      /\ \A j \in 1..m : SubSeq(q, 1, m)[j] = q[j]
  BY <1>2, <1>3, SubSeqProperties
<1> QED
  BY <1>1, <1>2, <1>4 DEF RbGet

\* A drop moves the bytes behind those it removes to the front.
LEMMA DroppedCells ==
  ASSUME NEW q \in Rings, NEW n \in Nat, NEW i \in 1..Len(RbDrop(q, n))
  PROVE  /\ i + Least(n, Len(q)) \in 1..Len(q)
         /\ RbDrop(q, n)[i] = q[i + Least(n, Len(q))]
<1> DEFINE e == Least(n, Len(q))
<1>1. q \in Seq(CellSet) /\ Len(q) \in Nat
  BY RingFacts
<1>2. e \in 0..Len(q) /\ Len(RbDrop(q, n)) = Len(q) - e
  BY <1>1, GetAndDrop DEF Least
<1>3. i \in 1..Len(q) - e /\ i + e \in 1..Len(q)
  BY <1>1, <1>2
<1>4. RbDrop(q, n)[i] = q[e + 1 + i - 1]
  <2>1. \A j \in e + 1..Len(q) : q[j] \in CellSet
    BY <1>1, <1>2, ElementOfSeq
  <2>2. e + 1 \in Int /\ Len(q) \in Int
    BY <1>1, <1>2
  <2>3. i \in 1..Len(SubSeq(q, e + 1, Len(q)))
    BY <1>2, <1>3 DEF RbDrop
  <2> QED
    BY <2>1, <2>2, <2>3, SubSeqProperties DEF RbDrop
<1>5. e + 1 + i - 1 = i + e
  BY <1>2, <1>3
<1> QED
  BY <1>3, <1>4, <1>5

LEMMA MessageType ==
  ASSUME ThreadsOK, NEW t \in Threads, NEW call \in Calls
  PROVE  Message(t, call) \in Messages /\ Message(t, call).size = call.n
<1>1. Len(ret[t]) \in Nat
  BY LenProperties DEF ThreadsOK
<1> QED
  BY <1>1 DEF Message, Messages, Calls

\* The data loop never counts more bytes than the message has.
LEMMA SentSoFar ==
  ASSUME ThreadsOK, NEW t \in Threads, NEW call \in Calls, NEW q \in Rings, NEW bytes \in 0..call.n
  PROVE  LET rest == Rest(Message(t, call), bytes)
         IN  /\ rest \in Seq(CellSet)
             /\ RbAdd(q, rest) \in Rings
             /\ bytes + Least(RbFree(q), Len(rest)) \in 0..call.n
<1> DEFINE m == Message(t, call)
           rest == Rest(m, bytes)
<1>1. call.n \in Nat /\ bytes \in Nat /\ HdrSize \in Nat
  BY ChannelAssumption DEF Calls
<1>2. m \in Messages /\ m.size = call.n
  BY MessageType
<1>3. rest \in Seq(CellSet) /\ Len(rest) = call.n - bytes
  <2>1. HdrSize + bytes \in Nat /\ call.n - bytes \in Nat
    BY <1>1
  <2> QED
    BY <1>2, <2>1, CellsType DEF Rest
<1>4. RbAdd(q, rest) \in Rings /\ RbFree(q) \in Nat
  BY <1>3, RingFacts, AddFits DEF Rings
<1>5. bytes + Least(RbFree(q), Len(rest)) \in 0..call.n
  BY <1>1, <1>3, <1>4 DEF Least
<1> QED
  BY <1>3, <1>4, <1>5

LEMMA SendLoopType ==
  ASSUME TypeOK, NEW t \in Threads, NEW call \in Calls, NEW k \in BOOLEAN,
         NEW q \in Rings, NEW bytes \in 0..call.n, SendLoop(t, call, k, q, bytes)
  PROVE  SchedOK' /\ FilesOK' /\ ThreadsOK'
<1> DEFINE m == Message(t, call)
           rest == Rest(m, bytes)
           chunk == Least(RbFree(q), Len(rest))
<1>1. call.c \in Chans /\ bytes \in Nat
  BY DEF Calls
<1>2. RbAdd(q, rest) \in Rings
  BY SentSoFar DEF TypeOK
<1>3. bytes + chunk \in 0..call.n
  BY SentSoFar DEF TypeOK
<1>4. {"send_sent", "send_loop"} \subseteq Pcs /\ {"read", "write"} \subseteq Slots
  BY DEF Pcs, Slots
<1>5. CASE SendStops(call.c) /\ Put(call.c, k, q) /\ Return(t, call, bytes) /\ Undisturbed
  BY <1>1, <1>4, <1>5, PutType, ReturnType, SchedType DEF TypeOK
<1>6. CASE /\ Put(call.c, k, RbAdd(q, rest))
           /\ Wake(call.c, "write")
           /\ Goto(t, SendFrame("send_sent", call, k, bytes + chunk))
  <2>1. /\ SendFrame("send_sent", call, k, bytes + chunk) \in Frames
        /\ InBounds(SendFrame("send_sent", call, k, bytes + chunk))
    BY <1>3, <1>4, SendFrameType
  <2> QED
    BY <1>1, <1>2, <1>4, <1>6, <2>1, PutType, GotoType, SchedType DEF TypeOK
<1>7. CASE /\ Put(call.c, k, q)
           /\ Block(t, call.c, "read")
           /\ Goto(t, SendFrame("send_loop", call, k, bytes))
  <2>1. /\ SendFrame("send_loop", call, k, bytes) \in Frames
        /\ InBounds(SendFrame("send_loop", call, k, bytes))
    BY <1>4, SendFrameType
  <2> QED
    BY <1>1, <1>4, <1>7, <2>1, PutType, GotoType, SchedType DEF TypeOK
<1> QED
  BY <1>5, <1>6, <1>7 DEF SendLoop

LEMMA SendHeaderType ==
  ASSUME TypeOK, NEW t \in Threads, NEW call \in Calls, NEW k \in BOOLEAN,
         SendHeader(t, call, k)
  PROVE  SchedOK' /\ FilesOK' /\ ThreadsOK' /\ sent' \in [Chans -> [BOOLEAN -> Seq(Messages)]]
<1> DEFINE c == call.c
           q == files[c][k]
           m == Message(t, call)
           torn == RbAdd(q, Header(m))
<1>1. c \in Chans /\ call.n \in Nat /\ HdrSize \in Nat
  BY ChannelAssumption DEF Calls
<1>2. m \in Messages /\ q \in Rings
  BY <1>1, MessageType DEF TypeOK, FilesOK
<1>3. torn \in Rings /\ RbFree(q) \in Nat
  <2>1. Header(m) \in Seq(CellSet)
    BY <1>1, <1>2, CellsType DEF Header
  <2> QED
    BY <1>2, <2>1, RingFacts, AddFits DEF Rings
<1>4. RbDrop(torn, RbFree(q)) \in Rings
  BY <1>3, DropType
<1>5. CASE sent' = Noted(sent, c, k, m) /\ SendLoop(t, call, k, torn, 0)
  <2>1. 0 \in 0..call.n
    BY <1>1
  <2> QED
    BY <1>1, <1>2, <1>3, <1>5, <2>1, SendLoopType, NotedType DEF TypeOK, HistoryOK
<1>6. CASE Put(c, k, torn) /\ Return(t, call, 0) /\ Undisturbed /\ UNCHANGED sent
  BY <1>1, <1>3, <1>6, PutType, ReturnType, SchedType DEF TypeOK, HistoryOK, Slots
<1>7. CASE /\ Put(c, k, RbDrop(torn, RbFree(q)))
           /\ Block(t, c, "read")
           /\ Goto(t, Frame("send_hdr", call, k))
           /\ UNCHANGED sent
  <2>1. Frame("send_hdr", call, k) \in Frames /\ InBounds(Frame("send_hdr", call, k))
    BY FrameType DEF Pcs
  <2> QED
    BY <1>1, <1>4, <1>7, <2>1, PutType, GotoType, SchedType DEF TypeOK, HistoryOK, Slots
<1> QED
  BY <1>5, <1>6, <1>7 DEF SendHeader

LEMMA SendBodyType ==
  ASSUME TypeOK, NEW t \in Threads, NEW call \in Calls, SendBody(t, call)
  PROVE  SchedOK' /\ FilesOK' /\ ThreadsOK' /\ sent' \in [Chans -> [BOOLEAN -> Seq(Messages)]]
<1>1. CASE Return(t, call, 0) /\ Undisturbed /\ UNCHANGED <<files, sent>>
  BY <1>1, ReturnType DEF TypeOK, HistoryOK, FilesOK, SchedOK, Undisturbed
<1>2. CASE SendHeader(t, call, OutFile(t, call.c))
  <2>1. OutFile(t, call.c) \in BOOLEAN
    BY DEF OutFile
  <2> QED
    BY <1>2, <2>1, SendHeaderType
<1> QED
  BY <1>1, <1>2 DEF SendBody

LEMMA SizesType ==
  ASSUME NEW q \in Seq(CellSet), Len(q) >= HdrSize, NEW size \in SizesIn(q)
  PROVE  size \in Nat
<1>1. q # <<>>
  BY ChannelAssumption, EmptySeq
<1>2. Head(q) \in CellSet
  BY <1>1, HeadTailProperties
<1>3. Head(q).msg.size \in Nat
  BY <1>2 DEF CellSet, Messages
<1> QED
  BY <1>3, ChannelAssumption DEF SizesIn

\* The chunk that the receive and the drop loop take next, and what is left.
LEMMA ChunkType ==
  ASSUME NEW q \in Rings, NEW size \in Nat, NEW out \in Seq(CellSet), Len(out) <= size
  PROVE  LET chunk == RbGet(q, size - Len(out))
         IN  /\ chunk \in Seq(CellSet)
             /\ out \o chunk \in Seq(CellSet) /\ Len(out \o chunk) <= size
             /\ RbDrop(q, Len(chunk)) \in Rings
<1> DEFINE chunk == RbGet(q, size - Len(out))
<1>1. size - Len(out) \in Nat /\ Len(out) \in Nat
  BY LenProperties
<1>2. q \in Seq(CellSet) /\ Len(q) \in Nat /\ Len(q) <= BufSize /\ BufSize \in Nat
  BY RingFacts, RiotAssumption
<1>3. chunk \in Seq(CellSet) /\ Len(chunk) <= size - Len(out)
  BY <1>1, <1>2, GetAndDrop
<1>4. Len(chunk) \in Nat
  BY <1>3, LenProperties
<1>5. RbDrop(q, Len(chunk)) \in Seq(CellSet) /\ Len(RbDrop(q, Len(chunk))) <= Len(q)
  BY <1>2, <1>4, GetAndDrop
<1>6. Len(RbDrop(q, Len(chunk))) \in Nat
  BY <1>5, LenProperties
<1>7. out \o chunk \in Seq(CellSet) /\ Len(out \o chunk) = Len(out) + Len(chunk)
  BY <1>3, ConcatProperties
<1>8. RbDrop(q, Len(chunk)) \in Rings
  BY <1>2, <1>5, <1>6 DEF Rings
<1> QED
  BY <1>1, <1>3, <1>4, <1>7, <1>8

LEMMA RecvLoopType ==
  ASSUME TypeOK, NEW t \in Threads, NEW call \in Calls, NEW k \in BOOLEAN, NEW size \in Nat,
         NEW q \in Rings, NEW out \in Seq(CellSet), Len(out) <= size,
         RecvLoop(t, call, k, size, q, out)
  PROVE  SchedOK' /\ FilesOK' /\ ThreadsOK'
<1> DEFINE c == call.c
           chunk == RbGet(q, size - Len(out))
<1>1. c \in Chans /\ {"read", "write"} \subseteq Slots /\ {"recv_got", "recv_loop"} \subseteq Pcs
  BY DEF Calls, Slots, Pcs
<1>2. CASE /\ Put(c, k, q)
           /\ ReturnHeard(t, call, IF Len(out) = size THEN size ELSE 0, Heard(out))
           /\ Undisturbed
  BY <1>1, <1>2, PutType, HeardType, ReturnHeardType, SchedType DEF TypeOK
<1>3. CASE /\ Put(c, k, RbDrop(q, Len(chunk)))
           /\ Wake(c, "read")
           /\ Goto(t, RecvFrame("recv_got", call, k, size, out \o chunk))
  <2>1. /\ RecvFrame("recv_got", call, k, size, out \o chunk) \in Frames
        /\ InBounds(RecvFrame("recv_got", call, k, size, out \o chunk))
    BY <1>1, ChunkType, RecvFrameType
  <2>2. RbDrop(q, Len(chunk)) \in Rings
    BY ChunkType
  <2> QED
    BY <1>1, <1>3, <2>1, <2>2, PutType, GotoType, SchedType DEF TypeOK
<1>4. CASE /\ Put(c, k, q)
           /\ Block(t, c, "write")
           /\ Goto(t, RecvFrame("recv_loop", call, k, size, out))
  <2>1. /\ RecvFrame("recv_loop", call, k, size, out) \in Frames
        /\ InBounds(RecvFrame("recv_loop", call, k, size, out))
    BY <1>1, RecvFrameType
  <2> QED
    BY <1>1, <1>4, <2>1, PutType, GotoType, SchedType DEF TypeOK
<1> QED
  BY <1>2, <1>3, <1>4 DEF RecvLoop

LEMMA RecvHeaderType ==
  ASSUME TypeOK, NEW t \in Threads, NEW call \in Calls, NEW k \in BOOLEAN,
         RecvHeader(t, call, k)
  PROVE  SchedOK' /\ FilesOK' /\ ThreadsOK'
<1> DEFINE q == files[call.c][k]
<1>1. call.c \in Chans /\ q \in Rings /\ HdrSize \in Nat
  BY ChannelAssumption DEF Calls, TypeOK, FilesOK
<1>2. CASE Block(t, call.c, "write") /\ Goto(t, Frame("recv_hdr", call, k)) /\ UNCHANGED files
  <2>1. Frame("recv_hdr", call, k) \in Frames /\ InBounds(Frame("recv_hdr", call, k))
    BY FrameType DEF Pcs
  <2> QED
    BY <1>1, <1>2, <2>1, GotoType, SchedType DEF TypeOK, Slots, FilesOK
<1>3. CASE /\ Len(q) >= HdrSize
           /\ \E size \in SizesIn(q) : RecvLoop(t, call, k, size, RbDrop(q, HdrSize), <<>>)
  <2>1. PICK size \in SizesIn(q) : RecvLoop(t, call, k, size, RbDrop(q, HdrSize), <<>>)
    BY <1>3
  <2>2. size \in Nat
    BY <1>1, <1>3, SizesType, RingFacts
  <2>3. RbDrop(q, HdrSize) \in Rings
    BY <1>1, DropType
  <2>4. <<>> \in Seq(CellSet) /\ Len(<<>>) <= size
    BY <2>2, EmptySeq
  <2> QED
    BY <2>1, <2>2, <2>3, <2>4, RecvLoopType
<1> QED
  BY <1>2, <1>3 DEF RecvHeader

LEMMA RecvBodyType ==
  ASSUME TypeOK, NEW t \in Threads, NEW call \in Calls, RecvBody(t, call)
  PROVE  SchedOK' /\ FilesOK' /\ ThreadsOK'
<1>1. CASE Return(t, call, 0) /\ Undisturbed /\ UNCHANGED files
  BY <1>1, ReturnType DEF TypeOK, FilesOK, SchedOK, Undisturbed
<1>2. CASE RecvHeader(t, call, InFile(t, call.c))
  <2>1. InFile(t, call.c) \in BOOLEAN
    BY DEF InFile
  <2> QED
    BY <1>2, <2>1, RecvHeaderType
<1> QED
  BY <1>1, <1>2 DEF RecvBody

LEMMA DropWaitType ==
  ASSUME TypeOK, NEW t \in Threads, NEW f \in Frames, InBounds(f), f.pc # "idle",
         NEW q \in Rings, DropWait(t, f, q)
  PROVE  SchedOK' /\ FilesOK' /\ ThreadsOK'
<1> DEFINE g == [f EXCEPT !.pc = "drop_loop"]
<1>1. f.call \in Calls /\ f.rb \in BOOLEAN
  BY DEF InBounds, Frames
<1>2. f.call.c \in Chans
  BY <1>1 DEF Calls
<1>3. g \in Frames
  BY DEF Frames, Pcs
<1>4. g.out = f.out /\ g.size = f.size /\ g.call = f.call /\ g.bytes = f.bytes
  BY DEF Frames
<1>5. InBounds(g)
  BY <1>4 DEF InBounds
<1> QED
  BY <1>1, <1>2, <1>3, <1>5, PutType, GotoType, ReturnType, SchedType DEF DropWait, TypeOK, Slots

LEMMA DropLoopType ==
  ASSUME TypeOK, NEW t \in Threads, NEW call \in Calls, NEW k \in BOOLEAN, NEW size \in Nat,
         NEW q \in Rings, NEW out \in Seq(CellSet), Len(out) <= size,
         DropLoop(t, call, k, size, q, out)
  PROVE  SchedOK' /\ FilesOK' /\ ThreadsOK'
<1> DEFINE c == call.c
           chunk == RbGet(q, size - Len(out))
           left == RbDrop(q, Len(chunk))
           frame == RecvFrame("drop_dropped", call, k, size, out \o chunk)
<1>1. c \in Chans /\ {"read", "write"} \subseteq Slots /\ "drop_dropped" \in Pcs
  BY DEF Calls, Slots, Pcs
<1>2. frame \in Frames /\ InBounds(frame)
  BY <1>1, ChunkType, RecvFrameType
<1>3. left \in Rings
  BY ChunkType
<1>4. frame.pc # "idle"
  BY DEF RecvFrame, Frame
<1>5. CASE /\ Put(c, k, q)
           /\ ReturnHeard(t, call, IF Len(out) = size THEN size ELSE 0, Heard(out))
           /\ Undisturbed
  BY <1>1, <1>5, PutType, HeardType, ReturnHeardType, SchedType DEF TypeOK
<1>6. CASE Put(c, k, left) /\ Wake(c, "read") /\ Goto(t, frame)
  BY <1>1, <1>2, <1>3, <1>6, PutType, GotoType, SchedType DEF TypeOK
<1>7. CASE DropWait(t, frame, left)
  BY <1>2, <1>3, <1>4, <1>7, DropWaitType
<1> QED
  BY <1>5, <1>6, <1>7 DEF DropLoop

LEMMA DropHeaderType ==
  ASSUME TypeOK, NEW t \in Threads, NEW call \in Calls, NEW k \in BOOLEAN,
         DropHeader(t, call, k)
  PROVE  SchedOK' /\ FilesOK' /\ ThreadsOK'
<1> DEFINE q == files[call.c][k]
<1>1. call.c \in Chans /\ q \in Rings /\ HdrSize \in Nat
  BY ChannelAssumption DEF Calls, TypeOK, FilesOK
<1>2. CASE Block(t, call.c, "write") /\ Goto(t, Frame("drop_hdr", call, k)) /\ UNCHANGED files
  <2>1. Frame("drop_hdr", call, k) \in Frames /\ InBounds(Frame("drop_hdr", call, k))
    BY FrameType DEF Pcs
  <2> QED
    BY <1>1, <1>2, <2>1, GotoType, SchedType DEF TypeOK, Slots, FilesOK
<1>3. CASE /\ Len(q) >= HdrSize
           /\ \E size \in SizesIn(q) : DropLoop(t, call, k, size, RbDrop(q, HdrSize), <<>>)
  <2>1. PICK size \in SizesIn(q) : DropLoop(t, call, k, size, RbDrop(q, HdrSize), <<>>)
    BY <1>3
  <2>2. size \in Nat
    BY <1>1, <1>3, SizesType, RingFacts
  <2>3. RbDrop(q, HdrSize) \in Rings
    BY <1>1, DropType
  <2>4. <<>> \in Seq(CellSet) /\ Len(<<>>) <= size
    BY <2>2, EmptySeq
  <2> QED
    BY <2>1, <2>2, <2>3, <2>4, DropLoopType
<1> QED
  BY <1>2, <1>3 DEF DropHeader

--------------------------------------------------------------------------------
(* TypeOK, one lemma for each group of actions *)

LEMMA NextCallsType ==
  ASSUME NEW t \in Threads, NEW call \in NextCalls(t)
  PROVE  call \in Calls /\ call.c \in Chans
BY DEF NextCalls, Calls

LEMMA FrameFacts ==
  ASSUME ThreadsOK, NEW t \in Threads, th[t].pc # "idle"
  PROVE  /\ th[t] \in Frames /\ InBounds(th[t])
         /\ th[t].call \in Calls /\ th[t].call.c \in Chans
         /\ th[t].rb \in BOOLEAN
         /\ th[t].bytes \in 0..th[t].call.n
         /\ th[t].size \in Nat /\ th[t].out \in Seq(CellSet) /\ Len(th[t].out) <= th[t].size
         /\ th[t].flags \subseteq Flags
<1>1. th[t] \in Frames /\ InBounds(th[t])
  BY DEF ThreadsOK
<1>2. th[t].call \in Calls /\ th[t].bytes <= th[t].call.n /\ Len(th[t].out) <= th[t].size
  BY <1>1 DEF InBounds
<1> QED
  BY <1>1, <1>2 DEF Frames, Calls

LEMMA EnterType ==
  ASSUME TypeOK, NEW t \in Threads, Enter(t)
  PROVE  TypeOK'
<1>1. PICK call \in NextCalls(t) :
        /\ Invokes(t, call, {"send", "try_send", "recv", "try_recv", "drop"})
        /\ Return(t, call, 0) \/ Goto(t, Frame(call.op, call, InFile(t, call.c)))
        /\ Undisturbed
        /\ UNCHANGED <<chan, files, sent, rcvd>>
  BY DEF Enter
<1>2. call \in Calls /\ call.op \in Pcs
  BY <1>1, NextCallsType DEF Invokes, Pcs, TypeOK
<1>3. InFile(t, call.c) \in BOOLEAN
  BY DEF InFile
<1>4. ThreadsOK'
  BY <1>1, <1>2, <1>3, FrameType, GotoType, ReturnType DEF TypeOK
<1> QED
  BY <1>1, <1>4 DEF TypeOK, SchedOK, ChanOK, FilesOK, HistoryOK, Undisturbed

LEMMA SynchronizeType ==
  ASSUME TypeOK, NEW t \in Threads, NEW call \in Calls, NEW sender \in BOOLEAN, NEW pc \in Pcs,
         Synchronize(t, call, sender, pc)
  PROVE  TypeOK'
<1>1. call.c \in Chans /\ MySlot(sender) \in Slots /\ PeerSlot(sender) \in Slots
  BY DEF Calls, MySlot, PeerSlot, Slots
<1>2. SchedOK'
  BY <1>1, SchedType DEF Synchronize, Meet, TypeOK
<1>3. ThreadsOK'
  BY FrameType, GotoType DEF Synchronize, TypeOK
<1> QED
  BY <1>2, <1>3 DEF Synchronize, TypeOK, ChanOK, FilesOK, HistoryOK

LEMMA SendsType ==
  ASSUME TypeOK, NEW t \in Threads, Sends(t)
  PROVE  TypeOK'
<1> DEFINE call == th[t].call
<1>0. th[t].pc # "idle" =>
        call \in Calls /\ call.c \in Chans /\ th[t].rb \in BOOLEAN /\ th[t].bytes \in 0..call.n
  BY FrameFacts DEF TypeOK
<1>1. ASSUME SchedOK', FilesOK', ThreadsOK', UNCHANGED <<chan, rcvd>>,
             sent' \in [Chans -> [BOOLEAN -> Seq(Messages)]]
      PROVE  TypeOK'
  BY <1>1 DEF TypeOK, ChanOK, HistoryOK
<1>2. UNCHANGED sent => sent' \in [Chans -> [BOOLEAN -> Seq(Messages)]]
  BY DEF TypeOK, HistoryOK
<1>3. CASE SendSync(t)
  <2>1. th[t].pc # "idle"
    BY <1>3 DEF SendSync, At
  <2>2. CASE Synchronize(t, call, TRUE, "send_body")
    BY <1>0, <2>1, <2>2, SynchronizeType DEF Pcs
  <2>3. CASE SendBody(t, call) /\ UNCHANGED <<chan, rcvd>>
    BY <1>0, <1>1, <2>1, <2>3, SendBodyType
  <2> QED
    BY <1>3, <2>2, <2>3 DEF SendSync
<1>4. CASE SendSynced(t)
  BY <1>0, <1>1, <1>4, SendBodyType DEF SendSynced, At
<1>5. CASE SendMsgCall(t)
  <2>1. PICK c \in NextCalls(t) :
          SendHeader(t, c, OutFile(t, c.c)) /\ UNCHANGED <<chan, rcvd>>
    BY <1>5 DEF SendMsgCall
  <2>2. c \in Calls /\ OutFile(t, c.c) \in BOOLEAN
    BY NextCallsType DEF TypeOK, OutFile
  <2> QED
    BY <1>1, <2>1, <2>2, SendHeaderType
<1>6. CASE SendHeaderAgain(t)
  BY <1>0, <1>1, <1>6, SendHeaderType DEF SendHeaderAgain, At
<1>7. ASSUME th[t].pc # "idle", UNCHANGED <<chan, sent, rcvd>>,
             SendLoop(t, call, th[t].rb, files[call.c][th[t].rb], th[t].bytes)
      PROVE  TypeOK'
  <2>1. files[call.c][th[t].rb] \in Rings
    BY <1>0, <1>7 DEF TypeOK, FilesOK
  <2> QED
    BY <1>0, <1>1, <1>2, <1>7, <2>1, SendLoopType
<1>8. CASE SendResume(t)
  BY <1>7, <1>8 DEF SendResume, At
<1>9. CASE SendSent(t)
  <2>1. th[t].pc # "idle" /\ UNCHANGED <<chan, sent, rcvd>>
    BY <1>9 DEF SendSent, At
  <2>2. CASE Return(t, call, th[t].bytes) /\ Undisturbed /\ UNCHANGED files
    <3>1. th[t].bytes \in Nat
      BY <1>0, <2>1
    <3>2. ThreadsOK'
      BY <1>0, <2>1, <2>2, <3>1, ReturnType DEF TypeOK
    <3> QED
      BY <1>1, <1>2, <2>1, <2>2, <3>2 DEF TypeOK, SchedOK, FilesOK, Undisturbed
  <2> QED
    BY <1>7, <1>9, <2>1, <2>2 DEF SendSent
<1> QED
  BY <1>3, <1>4, <1>5, <1>6, <1>8, <1>9 DEF Sends

\* The end of a receive or a drop.
LEMMA TakenType ==
  ASSUME TypeOK, NEW t \in Threads, th[t].pc # "idle",
         Taken(t, th[t]), UNCHANGED <<chan, sent>>
  PROVE  TypeOK'
<1> DEFINE f == th[t]
<1>1. f.call \in Calls /\ f.call.c \in Chans /\ f.rb \in BOOLEAN /\ f.out \in Seq(CellSet)
  BY FrameFacts DEF TypeOK
<1>2. Len(f.out) \in Nat
  BY <1>1, LenProperties
<1>3. ThreadsOK'
  BY <1>1, <1>2, HeardType, ReturnHeardType DEF Taken, TypeOK
<1>4. rcvd' \in [Chans -> [BOOLEAN -> Seq(Seq(CellSet))]]
  BY <1>1, NotedType DEF Taken, TypeOK, HistoryOK
<1> QED
  BY <1>3, <1>4 DEF Taken, TypeOK, SchedOK, ChanOK, FilesOK, HistoryOK, Undisturbed

LEMMA RecvsType ==
  ASSUME TypeOK, NEW t \in Threads, Recvs(t)
  PROVE  TypeOK'
<1> DEFINE call == th[t].call
<1>0. th[t].pc # "idle" => call \in Calls /\ call.c \in Chans /\ th[t].rb \in BOOLEAN
  BY FrameFacts DEF TypeOK
<1>1. ASSUME SchedOK', FilesOK', ThreadsOK', UNCHANGED <<chan, sent, rcvd>>
      PROVE  TypeOK'
  BY <1>1 DEF TypeOK, ChanOK, HistoryOK
<1>2. CASE RecvSync(t)
  <2>1. th[t].pc # "idle"
    BY <1>2 DEF RecvSync, At
  <2>2. CASE Synchronize(t, call, FALSE, "recv_body")
    BY <1>0, <2>1, <2>2, SynchronizeType DEF Pcs
  <2>3. CASE RecvBody(t, call) /\ UNCHANGED <<chan, sent, rcvd>>
    BY <1>0, <1>1, <2>1, <2>3, RecvBodyType
  <2> QED
    BY <1>2, <2>2, <2>3 DEF RecvSync
<1>3. CASE RecvSynced(t)
  BY <1>0, <1>1, <1>3, RecvBodyType DEF RecvSynced, At
<1>4. CASE RecvMsgCall(t)
  <2>1. PICK c \in NextCalls(t) :
          RecvHeader(t, c, InFile(t, c.c)) /\ UNCHANGED <<chan, sent, rcvd>>
    BY <1>4 DEF RecvMsgCall
  <2>2. c \in Calls /\ InFile(t, c.c) \in BOOLEAN
    BY NextCallsType DEF TypeOK, InFile
  <2> QED
    BY <1>1, <2>1, <2>2, RecvHeaderType
<1>5. CASE RecvHeaderAgain(t)
  BY <1>0, <1>1, <1>5, RecvHeaderType DEF RecvHeaderAgain, At
<1>6. ASSUME th[t].pc # "idle", UNCHANGED <<chan, sent, rcvd>>,
             RecvLoop(t, call, th[t].rb, th[t].size, files[call.c][th[t].rb], th[t].out)
      PROVE  TypeOK'
  <2>1. files[call.c][th[t].rb] \in Rings
    BY <1>0, <1>6 DEF TypeOK, FilesOK
  <2>2. th[t].size \in Nat /\ th[t].out \in Seq(CellSet) /\ Len(th[t].out) <= th[t].size
    BY <1>6, FrameFacts DEF TypeOK
  <2> QED
    BY <1>0, <1>1, <1>6, <2>1, <2>2, RecvLoopType
<1>7. CASE RecvResume(t)
  BY <1>6, <1>7 DEF RecvResume, At
<1>8. CASE RecvGot(t)
  BY <1>6, <1>8, TakenType DEF RecvGot, At
<1> QED
  BY <1>2, <1>3, <1>4, <1>5, <1>7, <1>8 DEF Recvs

LEMMA DropsType ==
  ASSUME TypeOK, NEW t \in Threads, Drops(t)
  PROVE  TypeOK'
<1> DEFINE call == th[t].call
<1>0. th[t].pc # "idle" =>
        call \in Calls /\ call.c \in Chans /\ th[t].rb \in BOOLEAN /\ InFile(t, call.c) \in BOOLEAN
  BY FrameFacts DEF TypeOK, InFile
<1>1. ASSUME SchedOK', FilesOK', ThreadsOK', UNCHANGED <<chan, sent, rcvd>>
      PROVE  TypeOK'
  BY <1>1 DEF TypeOK, ChanOK, HistoryOK
<1>2. CASE DropSync(t)
  <2>1. th[t].pc # "idle"
    BY <1>2 DEF DropSync, At
  <2>2. CASE Synchronize(t, call, ~OutFile(t, call.c), "drop_body")
    <3>1. (~OutFile(t, call.c)) \in BOOLEAN /\ "drop_body" \in Pcs
      BY DEF OutFile, Pcs
    <3> QED
      BY <1>0, <2>1, <2>2, <3>1, SynchronizeType
  <2>3. CASE DropHeader(t, call, InFile(t, call.c)) /\ UNCHANGED <<chan, sent, rcvd>>
    BY <1>0, <1>1, <2>1, <2>3, DropHeaderType
  <2> QED
    BY <1>2, <2>2, <2>3 DEF DropSync
<1>3. CASE DropSynced(t)
  BY <1>0, <1>1, <1>3, DropHeaderType DEF DropSynced, At
<1>4. CASE DropHeaderAgain(t)
  BY <1>0, <1>1, <1>4, DropHeaderType DEF DropHeaderAgain, At
<1>5. th[t].pc # "idle" => files[call.c][th[t].rb] \in Rings
  BY <1>0 DEF TypeOK, FilesOK
<1>6. CASE DropResume(t)
  <2>1. th[t].pc # "idle" /\ UNCHANGED <<chan, sent, rcvd>>
    BY <1>6 DEF DropResume, At
  <2>2. th[t].size \in Nat /\ th[t].out \in Seq(CellSet) /\ Len(th[t].out) <= th[t].size
    BY <2>1, FrameFacts DEF TypeOK
  <2>3. DropLoop(t, call, th[t].rb, th[t].size, files[call.c][th[t].rb], th[t].out)
    BY <1>6 DEF DropResume
  <2> QED
    BY <1>0, <1>1, <1>5, <2>1, <2>2, <2>3, DropLoopType
<1>7. CASE DropDropped(t)
  <2>1. th[t].pc # "idle" /\ UNCHANGED <<chan, sent>>
    BY <1>7 DEF DropDropped, At
  <2>2. CASE Taken(t, th[t])
    BY <2>1, <2>2, TakenType
  <2>3. CASE DropWait(t, th[t], files[call.c][th[t].rb]) /\ UNCHANGED rcvd
    <3>1. th[t] \in Frames /\ InBounds(th[t])
      BY <2>1, FrameFacts DEF TypeOK
    <3> QED
      BY <1>1, <1>5, <2>1, <2>3, <3>1, DropWaitType
  <2> QED
    BY <1>7, <2>2, <2>3 DEF DropDropped
<1> QED
  BY <1>2, <1>3, <1>4, <1>6, <1>7 DEF Drops

LEMMA TriesType ==
  ASSUME TypeOK, NEW t \in Threads, Tries(t)
  PROVE  TypeOK'
<1> DEFINE f == th[t]
           call == f.call
           c == call.c
<1>0. HdrSize \in Nat /\ 0 \in Nat /\ 1 \in Nat
  BY ChannelAssumption
<1>1. CASE TrySend(t)
  <2> DEFINE k == OutFile(t, c)
             q == files[c][k]
             m == Message(t, call)
             headed == RbAdd(q, Header(m))
             full == RbAdd(headed, Payload(m))
  <2>1. c \in Chans /\ k \in BOOLEAN /\ call \in Calls
    BY <1>1, FrameFacts DEF TrySend, At, TypeOK, OutFile
  <2>2. m \in Messages /\ m.size = call.n /\ call.n \in Nat /\ q \in Rings
    BY <2>1, MessageType DEF TypeOK, FilesOK, Calls
  <2>3. Header(m) \in Seq(CellSet) /\ Payload(m) \in Seq(CellSet)
    BY <1>0, <2>2, CellsType DEF Header, Payload
  <2>4. headed \in Rings
    BY <2>2, <2>3, RingFacts, AddFits DEF Rings
  <2>5. full \in Rings /\ Len(full) - Len(headed) \in Nat
    <3>1. /\ RbFree(headed) \in Nat /\ full \in Seq(CellSet) /\ Len(full) <= BufSize
          /\ Len(full) = Len(headed) + Least(Len(Payload(m)), RbFree(headed))
      BY <2>3, <2>4, RingFacts, AddFits
    <3>2. Len(headed) \in Nat /\ Len(Payload(m)) \in Nat
      BY <2>3, <2>4, RingFacts, LenProperties
    <3> QED
      BY <3>1, <3>2 DEF Rings, Least
  <2>6. RbDrop(headed, 1) \in Rings
    BY <1>0, <2>4, DropType
  <2>7. FilesOK'
    BY <1>1, <2>1, <2>4, <2>5, <2>6, PutType DEF TrySend, TypeOK, FilesOK
  <2>8. ThreadsOK'
    BY <1>0, <1>1, <2>1, <2>5, ReturnType DEF TrySend, TypeOK
  <2>9. sent' \in [Chans -> [BOOLEAN -> Seq(Messages)]]
    <3>1. sent \in [Chans -> [BOOLEAN -> Seq(Messages)]]
      BY DEF TypeOK, HistoryOK
    <3>2. Noted(sent, c, k, m) \in [Chans -> [BOOLEAN -> Seq(Messages)]]
      BY <2>1, <2>2, <3>1, NotedType
    <3>3. sent' = sent \/ sent' = Noted(sent, c, k, m)
      BY <1>1 DEF TrySend
    <3> QED
      BY <3>1, <3>2, <3>3
  <2> QED
    BY <1>1, <2>7, <2>8, <2>9 DEF TrySend, TypeOK, SchedOK, ChanOK, HistoryOK, Undisturbed
<1>2. CASE TryRecv(t)
  <2> DEFINE q == files[c][f.rb]
             hdr == RbGet(q, HdrSize)
             data == RbGet(RbDrop(q, HdrSize), Len(hdr))
  <2>1. call \in Calls /\ c \in Chans /\ f.rb \in BOOLEAN
    BY <1>2, FrameFacts DEF TryRecv, At, TypeOK
  <2>2. q \in Rings
    BY <2>1 DEF TypeOK, FilesOK
  <2>3. hdr \in Seq(CellSet) /\ Len(hdr) \in Nat
    BY <1>0, <2>2, RingFacts, GetAndDrop, LenProperties
  <2>4. data \in Seq(CellSet) /\ Len(data) \in Nat
    BY <1>0, <2>2, <2>3, DropType, RingFacts, GetAndDrop, LenProperties
  <2>5. Len(hdr \o data) \in Nat
    BY <2>3, <2>4, ConcatProperties
  <2>6. FilesOK'
    <3>1. RbDrop(q, Len(hdr \o data)) \in Rings
      BY <2>2, <2>5, DropType
    <3> QED
      BY <1>2, <2>1, <3>1, PutType DEF TryRecv, TypeOK
  <2>7. ThreadsOK'
    BY <1>2, <2>1, <2>4, HeardType, ReturnHeardType DEF TryRecv, TypeOK
  <2>8. rcvd' \in [Chans -> [BOOLEAN -> Seq(Seq(CellSet))]]
    BY <1>2, <2>1, <2>4, NotedType DEF TryRecv, TypeOK, HistoryOK
  <2> QED
    BY <1>2, <2>6, <2>7, <2>8 DEF TryRecv, TypeOK, SchedOK, ChanOK, HistoryOK, Undisturbed
<1> QED
  BY <1>1, <1>2 DEF Tries

LEMMA ManagesType ==
  ASSUME TypeOK, NEW t \in Threads, Manages(t)
  PROVE  TypeOK'
<1>0. 0 \in Nat
  OBVIOUS
<1>1. CASE FlagsLoad(t)
  <2>1. PICK call \in NextCalls(t) :
          /\ Goto(t, [Frame("flags", call, FALSE) EXCEPT !.flags = chan[call.c].flags])
          /\ Undisturbed
          /\ UNCHANGED <<chan, files, sent, rcvd>>
    BY <1>1 DEF FlagsLoad
  <2> DEFINE f == Frame("flags", call, FALSE)
             g == [f EXCEPT !.flags = chan[call.c].flags]
  <2>2. call \in Calls /\ call.c \in Chans
    BY NextCallsType DEF TypeOK
  <2>3. f \in Frames /\ InBounds(f)
    BY <2>2, FrameType DEF Pcs
  <2> HIDE DEF f
  <2>4. chan[call.c].flags \subseteq Flags
    BY <2>2 DEF TypeOK, ChanOK
  <2>5. g \in Frames
    BY <2>3, <2>4 DEF Frames
  <2>6. /\ g.out = f.out /\ g.size = f.size /\ g.pc = f.pc
        /\ g.call = f.call /\ g.bytes = f.bytes
    BY <2>3 DEF Frames
  <2>7. InBounds(g)
    BY <2>3, <2>6 DEF InBounds
  <2>8. ThreadsOK'
    BY <2>1, <2>5, <2>7, GotoType DEF TypeOK, f
  <2> QED
    BY <2>1, <2>8 DEF TypeOK, SchedOK, ChanOK, FilesOK, HistoryOK, Undisturbed
<1>2. CASE FlagsStore(t)
  <2>1. th[t].call \in Calls /\ th[t].call.c \in Chans /\ th[t].flags \subseteq Flags
    BY <1>2, FrameFacts DEF FlagsStore, At, TypeOK
  <2>2. ThreadsOK'
    BY <1>0, <1>2, <2>1, ReturnType DEF FlagsStore, TypeOK
  <2>3. ChanOK'
    <3>1. PICK bit \in SUBSET Flags :
            chan' = [chan EXCEPT ![th[t].call.c].flags = th[t].flags \cup bit]
      BY <1>2 DEF FlagsStore, MadeFlags, Flags
    <3>2. th[t].flags \cup bit \in SUBSET Flags
      BY <2>1
    <3> QED
      BY <2>1, <3>1, <3>2 DEF TypeOK, ChanOK
  <2> QED
    BY <1>2, <2>2, <2>3 DEF FlagsStore, TypeOK, SchedOK, FilesOK, HistoryOK, Undisturbed
<1>3. CASE SetOwner(t)
  <2>1. PICK call \in NextCalls(t) :
          /\ chan' = [chan EXCEPT ![call.c].creator = call.to]
          /\ Return(t, call, 0)
          /\ Undisturbed
          /\ UNCHANGED <<files, sent, rcvd>>
    BY <1>3 DEF SetOwner
  <2>2. call \in Calls /\ call.c \in Chans /\ call.to \in Threads
    BY NextCallsType DEF TypeOK, Calls
  <2>3. ThreadsOK'
    BY <1>0, <2>1, <2>2, ReturnType DEF TypeOK
  <2>4. ChanOK'
    BY <2>1, <2>2 DEF TypeOK, ChanOK
  <2> QED
    BY <2>1, <2>3, <2>4 DEF TypeOK, SchedOK, FilesOK, HistoryOK, Undisturbed
<1>4. CASE Make(t)
  <2>1. PICK call \in NextCalls(t) :
          /\ chan' = [chan EXCEPT ![call.c] = [creator |-> t, flags |-> MadeFlags(call.n # 0)]]
          /\ blocked' = [blocked EXCEPT ![call.c] = [s \in Slots |-> NoThread]]
          /\ files' = [files EXCEPT ![call.c] = NewFiles]
          /\ sent' = [sent EXCEPT ![call.c] = NewFiles]
          /\ rcvd' = [rcvd EXCEPT ![call.c] = NewFiles]
          /\ Return(t, call, 0)
          /\ UNCHANGED status
    BY <1>4 DEF Make
  <2>2. call \in Calls /\ call.c \in Chans
    BY NextCallsType DEF TypeOK
  <2>3. ThreadsOK'
    BY <1>0, <2>1, <2>2, ReturnType DEF TypeOK
  <2>4. ChanOK'
    BY <2>1, <2>2 DEF TypeOK, ChanOK, MadeFlags, Flags
  <2>5. SchedOK'
    BY <2>1, <2>2 DEF TypeOK, SchedOK
  <2>6. FilesOK' /\ HistoryOK'
    BY <2>1, <2>2, NewFilesType DEF TypeOK, FilesOK, HistoryOK
  <2> QED
    BY <2>3, <2>4, <2>5, <2>6 DEF TypeOK
<1> QED
  BY <1>1, <1>2, <1>3, <1>4 DEF Manages

LEMMA LivesType ==
  ASSUME TypeOK, NEW t \in Threads, Lives(t)
  PROVE  TypeOK'
<1>1. ASSUME ThreadsOK', UNCHANGED <<chan, blocked, files, sent, rcvd>>,
             status' \in [Threads -> Statuses]
      PROVE  TypeOK'
  BY <1>1 DEF TypeOK, SchedOK, ChanOK, FilesOK, HistoryOK
<1>2. \A u \in Threads, s \in Statuses : [status EXCEPT ![u] = s] \in [Threads -> Statuses]
  BY DEF TypeOK, SchedOK
<1>3. {"ready", "sleeping", "stopped"} \subseteq Statuses /\ 0 \in Nat /\ 0 \in Int
  BY DEF Statuses
<1>4. \A call \in NextCalls(t) : call \in Calls /\ call.to \in Threads
  BY NextCallsType DEF Calls
<1>5. CASE Go(t)
  <2>1. PICK call \in NextCalls(t) :
          /\ call.to # t
          /\ status' = [status EXCEPT ![call.to] = "ready"]
          /\ th' = [th EXCEPT ![call.to] = Idle]
          /\ ret' = [ret EXCEPT ![call.to] = <<>>, ![t] = Returned(@, call, 0, 0)]
          /\ UNCHANGED <<chan, blocked, files, sent, rcvd>>
    BY <1>5 DEF Go
  <2> DEFINE p == call.to
             back == Returned(ret[t], call, 0, 0)
  <2>2. ret \in [Threads -> Seq(Results)] /\ p \in Threads /\ call \in Calls
    BY <1>4 DEF TypeOK, ThreadsOK
  <2>3. back \in Seq(Results) /\ <<>> \in Seq(Results)
    BY <1>3, <2>2, ReturnedType, EmptySeq
  <2>4. ret' = [ret EXCEPT ![p] = <<>>, ![t] = back]
    BY <2>1, <2>2
  <2> HIDE DEF back
  <2>5. ret' \in [Threads -> Seq(Results)]
    BY <2>2, <2>3, <2>4
  <2>6. ThreadsOK'
    BY <2>1, <2>2, <2>5, IdleType DEF TypeOK, ThreadsOK
  <2> QED
    BY <1>1, <1>2, <1>3, <2>1, <2>2, <2>6
<1>6. CASE Kill(t)
  <2>1. PICK call \in NextCalls(t) :
          /\ status' = [status EXCEPT ![call.to] = "stopped"]
          /\ Return(t, call, 0)
          /\ UNCHANGED <<chan, blocked, files, sent, rcvd>>
    BY <1>6 DEF Kill
  <2>2. ThreadsOK'
    BY <1>3, <1>4, <2>1, ReturnType DEF TypeOK
  <2> QED
    BY <1>1, <1>2, <1>3, <1>4, <2>1, <2>2
<1>7. ASSUME NEW call \in NextCalls(t), NEW pc \in Pcs, Goto(t, Frame(pc, call, FALSE))
      PROVE  ThreadsOK'
  BY <1>4, <1>7, FrameType, GotoType DEF TypeOK
<1>8. CASE Sleep(t)
  <2>1. ThreadsOK'
    BY <1>7, <1>8 DEF Sleep, Pcs
  <2> QED
    BY <1>1, <1>2, <1>3, <1>8, <2>1 DEF Sleep
<1>9. CASE Timer(t)
  <2>1. ThreadsOK'
    BY <1>3, <1>9, FrameFacts, ReturnType DEF Timer, TypeOK
  <2> QED
    BY <1>1, <1>2, <1>3, <1>9, <2>1 DEF Timer
<1>10. CASE Spin(t)
  <2>1. ThreadsOK'
    BY <1>7, <1>10 DEF Spin, Pcs
  <2> QED
    BY <1>1, <1>10, <2>1 DEF Spin, TypeOK, SchedOK
<1>11. CASE Exit(t)
  <2>1. ThreadsOK'
    BY <1>11 DEF Exit, TypeOK, ThreadsOK
  <2> QED
    BY <1>1, <1>2, <1>3, <1>11, <2>1 DEF Exit
<1> QED
  BY <1>5, <1>6, <1>8, <1>9, <1>10, <1>11 DEF Lives

--------------------------------------------------------------------------------
\* For every program every variable of the channels keeps its type: no call puts
\* more than CHANNEL_BUFSIZE bytes into a ring buffer, reads past the end of the
\* data it sends or writes more than the size its header announced.
THEOREM TypeCorrect == Spec => []TypeOK
<1>1. Init => TypeOK
  <2> SUFFICES ASSUME Init PROVE TypeOK
    OBVIOUS
  <2>1. SchedOK
    BY DEF Init, Booted, SchedOK, Statuses
  <2>2. ChanOK
    BY ChannelAssumption DEF Init, ChanOK, MadeFlags, Flags
  <2>3. FilesOK /\ HistoryOK
    BY NewFilesType DEF Init, FilesOK, HistoryOK
  <2>4. ThreadsOK
    <3>1. <<>> \in Seq(Results)
      BY EmptySeq
    <3> QED
      BY <3>1, IdleType DEF Init, ThreadsOK
  <2> QED
    BY <2>1, <2>2, <2>3, <2>4 DEF TypeOK
<1>2. TypeOK /\ [Next]_vars => TypeOK'
  <2> SUFFICES ASSUME TypeOK, [Next]_vars PROVE TypeOK'
    OBVIOUS
  <2>1. ASSUME NEW t \in Threads, Step(t) PROVE TypeOK'
    BY <2>1, EnterType, SendsType, RecvsType, DropsType, TriesType, ManagesType, LivesType DEF Step
  <2>2. CASE UNCHANGED vars
    BY <2>2 DEF vars, TypeOK, SchedOK, ChanOK, FilesOK, ThreadsOK, HistoryOK
  <2> QED
    BY <2>1, <2>2 DEF Next, Ended
<1> QED
  BY <1>1, <1>2, PTL DEF Spec

--------------------------------------------------------------------------------
(* WaiterAsleep.  Every step of a call does one of three things with threads: *)
(* nothing, Wake, or Block with the program counter where that wait belongs.  *)

Changes(t) == th' = [th EXCEPT ![t] = th'[t]]
Waits(t) == \E c \in Chans, slot \in Slots :
  Block(t, c, slot) /\ th'[t].pc \in WaitsAt(slot) /\ th'[t].call.c = c
Orderly(t, call, pcs) ==
  /\ Changes(t)
  /\ th'[t] = Idle \/ (th'[t].call = call /\ th'[t].pc \in pcs)
  /\ Undisturbed \/ (\E c \in Chans, slot \in Slots : Wake(c, slot)) \/ Waits(t)

LEMMA RunsAlone ==
  ASSUME WaiterAsleep, NEW t \in Threads, status[t] = "ready"
  PROVE  \A c \in Chans, slot \in Slots : blocked[c][slot] # t
<1> SUFFICES ASSUME NEW c \in Chans, NEW slot \in Slots, blocked[c][slot] = t PROVE FALSE
  OBVIOUS
<1>1. t # NoThread
  BY RiotAssumption
<1> QED
  BY <1>1 DEF WaiterAsleep

\* The three kinds of steps keep WaiterAsleep: the thread that takes one is ready,
\* and so in no slot.
LEMMA OrderlyKeeps ==
  ASSUME TypeOK, WaiterAsleep, NEW t \in Threads, status[t] = "ready",
         NEW call, NEW pcs, Orderly(t, call, pcs)
  PROVE  WaiterAsleep'
<1>0. /\ status \in [Threads -> Statuses]
      /\ blocked \in [Chans -> [Slots -> Threads \cup {NoThread}]]
      /\ DOMAIN th = Threads
  BY DEF TypeOK, SchedOK, ThreadsOK
<1>1. \A c \in Chans, slot \in Slots : blocked[c][slot] # t
  BY RunsAlone
<1>2. \A u \in Threads : u # t => th'[u] = th[u]
  BY <1>0 DEF Orderly, Changes
<1> SUFFICES ASSUME NEW d \in Chans, NEW s \in Slots, blocked'[d][s] # NoThread
             PROVE  LET u == blocked'[d][s]
                    IN  /\ status'[u] = "sleeping"
                        /\ th'[u].pc \in WaitsAt(s) /\ th'[u].call.c = d
                        /\ \A e \in Chans, other \in Slots :
                              blocked'[e][other] = u => e = d /\ other = s
  BY DEF WaiterAsleep
<1> DEFINE u == blocked'[d][s]
<1>3. CASE Undisturbed
  <2>1. u = blocked[d][s] /\ u \in Threads /\ u # t
    BY <1>0, <1>1, <1>3 DEF Undisturbed
  <2> QED
    BY <1>2, <1>3, <2>1 DEF WaiterAsleep, Undisturbed
<1>4. ASSUME NEW c \in Chans, NEW slot \in Slots, Wake(c, slot), ~Undisturbed
      PROVE  /\ status'[u] = "sleeping"
             /\ th'[u].pc \in WaitsAt(s) /\ th'[u].call.c = d
             /\ \A e \in Chans, other \in Slots : blocked'[e][other] = u => e = d /\ other = s
  <2> DEFINE woken == blocked[c][slot]
  <2>1. /\ blocked' = [blocked EXCEPT ![c][slot] = NoThread]
        /\ status' = [status EXCEPT ![woken] = "ready"]
        /\ woken # NoThread
    BY <1>4 DEF Wake
  <2>2. \A e \in Chans, other \in Slots :
          blocked'[e][other] = IF e = c /\ other = slot THEN NoThread ELSE blocked[e][other]
    BY <1>0, <2>1
  <2>3. u = blocked[d][s] /\ ~(d = c /\ s = slot) /\ u \in Threads /\ u # t
    BY <1>0, <1>1, <2>2
  <2>4. u # woken
    BY <2>1, <2>3 DEF WaiterAsleep
  <2>5. status'[u] = status[u]
    BY <1>0, <2>1, <2>3, <2>4
  <2>6. status[u] = "sleeping" /\ th[u].pc \in WaitsAt(s) /\ th[u].call.c = d
    BY <2>3 DEF WaiterAsleep
  <2>7. \A e \in Chans, other \in Slots : blocked[e][other] = u => e = d /\ other = s
    BY <2>3 DEF WaiterAsleep
  <2>8. \A e \in Chans, other \in Slots : blocked'[e][other] = u => blocked[e][other] = u
    BY <2>2, RiotAssumption, <2>3
  <2> QED
    BY <1>2, <2>3, <2>5, <2>6, <2>7, <2>8
<1>5. ASSUME NEW c \in Chans, NEW slot \in Slots, Block(t, c, slot),
             th'[t].pc \in WaitsAt(slot), th'[t].call.c = c
      PROVE  /\ status'[u] = "sleeping"
             /\ th'[u].pc \in WaitsAt(s) /\ th'[u].call.c = d
             /\ \A e \in Chans, other \in Slots : blocked'[e][other] = u => e = d /\ other = s
  <2>1. \A e \in Chans, other \in Slots :
          blocked'[e][other] = IF e = c /\ other = slot THEN t ELSE blocked[e][other]
    BY <1>0, <1>5 DEF Block
  <2>2. status' = [status EXCEPT ![t] = "sleeping"]
    BY <1>5 DEF Block
  <2>3. CASE d = c /\ s = slot
    <3>1. u = t
      BY <2>1, <2>3
    <3> QED
      BY <1>0, <1>1, <1>5, <2>1, <2>2, <2>3, <3>1
  <2>4. CASE ~(d = c /\ s = slot)
    <3>1. u = blocked[d][s] /\ u \in Threads /\ u # t
      BY <1>0, <1>1, <2>1, <2>4
    <3>2. status'[u] = status[u] /\ th'[u] = th[u]
      BY <1>0, <1>2, <2>2, <3>1
    <3>3. status[u] = "sleeping" /\ th[u].pc \in WaitsAt(s) /\ th[u].call.c = d
      BY <3>1 DEF WaiterAsleep
    <3>4. \A e \in Chans, other \in Slots : blocked[e][other] = u => e = d /\ other = s
      BY <3>1 DEF WaiterAsleep
    <3>5. \A e \in Chans, other \in Slots : blocked'[e][other] = u => blocked[e][other] = u
      BY <2>1, <3>1
    <3> QED
      BY <3>2, <3>3, <3>4, <3>5
  <2> QED
    BY <2>3, <2>4
<1> QED
  BY <1>3, <1>4, <1>5 DEF Orderly, Waits

SendPcs == {"send", "send_body", "send_hdr", "send_loop", "send_sent"}
RecvPcs == {"recv", "recv_body", "recv_hdr", "recv_loop", "recv_got"}
DropPcs == {"drop", "drop_body", "drop_hdr", "drop_loop", "drop_dropped"}

LEMMA GotoChanges ==
  ASSUME ThreadsOK, NEW t \in Threads, NEW f
  PROVE  /\ Goto(t, f) => Changes(t) /\ th'[t] = f
         /\ \A call, n, heard : ReturnHeard(t, call, n, heard) => Changes(t) /\ th'[t] = Idle
         /\ \A call, n : Return(t, call, n) => Changes(t) /\ th'[t] = Idle
BY DEF ThreadsOK, Goto, Return, ReturnHeard, Changes

LEMMA SendLoopOrderly ==
  ASSUME TypeOK, NEW t \in Threads, NEW call \in Calls, NEW k \in BOOLEAN,
         NEW q \in Rings, NEW bytes \in 0..call.n, SendLoop(t, call, k, q, bytes)
  PROVE  Orderly(t, call, SendPcs)
<1>1. call.c \in Chans /\ {"read", "write"} \subseteq Slots
  BY DEF Calls, Slots
<1>2. CASE Return(t, call, bytes) /\ Undisturbed
  BY <1>2, GotoChanges DEF Orderly, TypeOK
<1>3. ASSUME NEW n \in 0..call.n, Wake(call.c, "write"), Goto(t, SendFrame("send_sent", call, k, n))
      PROVE  Orderly(t, call, SendPcs)
  <2>1. /\ SendFrame("send_sent", call, k, n).pc = "send_sent"
        /\ SendFrame("send_sent", call, k, n).call = call
    BY SendFrameType DEF Pcs
  <2> QED
    BY <1>1, <1>3, <2>1, GotoChanges DEF Orderly, SendPcs, TypeOK
<1>4. CASE Block(t, call.c, "read") /\ Goto(t, SendFrame("send_loop", call, k, bytes))
  <2>1. /\ SendFrame("send_loop", call, k, bytes).pc \in WaitsAt("read") \cap SendPcs
        /\ SendFrame("send_loop", call, k, bytes).call = call
    BY SendFrameType DEF WaitsAt, Pcs, SendPcs
  <2> QED
    BY <1>1, <1>4, <2>1, GotoChanges DEF Orderly, Waits, TypeOK
<1>5. bytes + Least(RbFree(q), Len(Rest(Message(t, call), bytes))) \in 0..call.n
  BY SentSoFar DEF TypeOK
<1> QED
  BY <1>2, <1>3, <1>4, <1>5 DEF SendLoop

LEMMA FrameOrderly ==
  ASSUME TypeOK, NEW t \in Threads, NEW call \in Calls, NEW k \in BOOLEAN, NEW slot \in Slots,
         NEW pcs, NEW pc \in WaitsAt(slot) \cap pcs,
         Block(t, call.c, slot), Goto(t, Frame(pc, call, k))
  PROVE  Orderly(t, call, pcs)
<1>1. Frame(pc, call, k).pc = pc /\ Frame(pc, call, k).call = call /\ call.c \in Chans
  BY DEF Frame, Calls
<1> QED
  BY <1>1, GotoChanges DEF Orderly, Waits, TypeOK

LEMMA SendHeaderOrderly ==
  ASSUME TypeOK, NEW t \in Threads, NEW call \in Calls, NEW k \in BOOLEAN,
         SendHeader(t, call, k)
  PROVE  Orderly(t, call, SendPcs)
<1> DEFINE q == files[call.c][k]
           torn == RbAdd(q, Header(Message(t, call)))
<1>1. call.c \in Chans /\ call.n \in Nat /\ HdrSize \in Nat /\ 0 \in 0..call.n
  BY ChannelAssumption DEF Calls
<1>2. torn \in Rings
  <2>1. Message(t, call) \in Messages /\ q \in Rings
    BY <1>1, MessageType DEF TypeOK, FilesOK
  <2>2. Header(Message(t, call)) \in Seq(CellSet)
    BY <1>1, <2>1, CellsType DEF Header
  <2> QED
    BY <2>1, <2>2, RingFacts, AddFits DEF Rings
<1>3. CASE SendLoop(t, call, k, torn, 0)
  BY <1>1, <1>2, <1>3, SendLoopOrderly
<1>4. CASE Return(t, call, 0) /\ Undisturbed
  BY <1>4, GotoChanges DEF Orderly, TypeOK
<1>5. CASE Block(t, call.c, "read") /\ Goto(t, Frame("send_hdr", call, k))
  BY <1>5, FrameOrderly DEF Slots, WaitsAt, SendPcs
<1> QED
  BY <1>3, <1>4, <1>5 DEF SendHeader

LEMMA RecvLoopOrderly ==
  ASSUME TypeOK, NEW t \in Threads, NEW call \in Calls, NEW k \in BOOLEAN, NEW size \in Nat,
         NEW q \in Rings, NEW out \in Seq(CellSet), Len(out) <= size,
         RecvLoop(t, call, k, size, q, out)
  PROVE  Orderly(t, call, RecvPcs)
<1> DEFINE chunk == RbGet(q, size - Len(out))
<1>1. call.c \in Chans /\ {"read", "write"} \subseteq Slots
  BY DEF Calls, Slots
<1>2. CASE Undisturbed /\ \E n, heard : ReturnHeard(t, call, n, heard)
  BY <1>2, GotoChanges DEF Orderly, TypeOK
<1>3. CASE Wake(call.c, "read") /\ Goto(t, RecvFrame("recv_got", call, k, size, out \o chunk))
  <2> DEFINE more == out \o chunk
  <2>1. more \in Seq(CellSet) /\ Len(more) <= size
    BY ChunkType
  <2>2. Goto(t, RecvFrame("recv_got", call, k, size, more))
    BY <1>3
  <2> HIDE DEF more
  <2>3. /\ RecvFrame("recv_got", call, k, size, more).pc = "recv_got"
        /\ RecvFrame("recv_got", call, k, size, more).call = call
    BY <2>1, RecvFrameType DEF Pcs
  <2> QED
    BY <1>1, <1>3, <2>2, <2>3, GotoChanges DEF Orderly, RecvPcs, TypeOK
<1>4. CASE Block(t, call.c, "write") /\ Goto(t, RecvFrame("recv_loop", call, k, size, out))
  <2>1. /\ RecvFrame("recv_loop", call, k, size, out).pc \in WaitsAt("write") \cap RecvPcs
        /\ RecvFrame("recv_loop", call, k, size, out).call = call
    BY RecvFrameType DEF WaitsAt, Pcs, RecvPcs
  <2> QED
    BY <1>1, <1>4, <2>1, GotoChanges DEF Orderly, Waits, TypeOK
<1> QED
  BY <1>2, <1>3, <1>4 DEF RecvLoop

LEMMA RecvHeaderOrderly ==
  ASSUME TypeOK, NEW t \in Threads, NEW call \in Calls, NEW k \in BOOLEAN,
         RecvHeader(t, call, k)
  PROVE  Orderly(t, call, RecvPcs)
<1> DEFINE q == files[call.c][k]
<1>1. q \in Rings /\ HdrSize \in Nat
  BY ChannelAssumption DEF Calls, TypeOK, FilesOK
<1>2. CASE Block(t, call.c, "write") /\ Goto(t, Frame("recv_hdr", call, k))
  BY <1>2, FrameOrderly DEF Slots, WaitsAt, RecvPcs
<1>3. CASE /\ Len(q) >= HdrSize
           /\ \E size \in SizesIn(q) : RecvLoop(t, call, k, size, RbDrop(q, HdrSize), <<>>)
  <2>1. PICK size \in SizesIn(q) : RecvLoop(t, call, k, size, RbDrop(q, HdrSize), <<>>)
    BY <1>3
  <2>2. size \in Nat /\ RbDrop(q, HdrSize) \in Rings
    BY <1>1, <1>3, SizesType, RingFacts, DropType
  <2>3. <<>> \in Seq(CellSet) /\ Len(<<>>) <= size
    BY <2>2, EmptySeq
  <2> QED
    BY <2>1, <2>2, <2>3, RecvLoopOrderly
<1> QED
  BY <1>2, <1>3 DEF RecvHeader

LEMMA DropWaitOrderly ==
  ASSUME TypeOK, NEW t \in Threads, NEW f \in Frames, InBounds(f), f.pc # "idle",
         NEW q, DropWait(t, f, q)
  PROVE  Orderly(t, f.call, DropPcs)
<1>1. f.call.c \in Chans /\ "write" \in Slots
  BY DEF InBounds, Calls, Slots
<1>2. CASE Undisturbed /\ Return(t, f.call, 0)
  BY <1>2, GotoChanges DEF Orderly, TypeOK
<1>3. CASE Block(t, f.call.c, "write") /\ Goto(t, [f EXCEPT !.pc = "drop_loop"])
  <2>1. /\ [f EXCEPT !.pc = "drop_loop"].pc \in WaitsAt("write") \cap DropPcs
        /\ [f EXCEPT !.pc = "drop_loop"].call = f.call
    BY DEF Frames, WaitsAt, DropPcs
  <2> QED
    BY <1>1, <1>3, <2>1, GotoChanges DEF Orderly, Waits, TypeOK
<1> QED
  BY <1>2, <1>3 DEF DropWait

LEMMA DropLoopOrderly ==
  ASSUME TypeOK, NEW t \in Threads, NEW call \in Calls, NEW k \in BOOLEAN, NEW size \in Nat,
         NEW q \in Rings, NEW out \in Seq(CellSet), Len(out) <= size,
         DropLoop(t, call, k, size, q, out)
  PROVE  Orderly(t, call, DropPcs)
<1> DEFINE chunk == RbGet(q, size - Len(out))
           frame == RecvFrame("drop_dropped", call, k, size, out \o chunk)
<1>1. call.c \in Chans /\ "read" \in Slots /\ "drop_dropped" \in Pcs
  BY DEF Calls, Slots, Pcs
<1>2. CASE Undisturbed /\ \E n, heard : ReturnHeard(t, call, n, heard)
  BY <1>2, GotoChanges DEF Orderly, TypeOK
<1>3. frame \in Frames /\ InBounds(frame) /\ frame.pc = "drop_dropped" /\ frame.call = call
  <2> DEFINE more == out \o chunk
  <2>1. more \in Seq(CellSet) /\ Len(more) <= size
    BY ChunkType
  <2> HIDE DEF more
  <2>2. LET f == RecvFrame("drop_dropped", call, k, size, more)
        IN  f \in Frames /\ InBounds(f) /\ f.pc = "drop_dropped" /\ f.call = call
    BY <1>1, <2>1, RecvFrameType
  <2> QED
    BY <2>2 DEF more
<1>4. CASE Wake(call.c, "read") /\ Goto(t, frame)
  BY <1>1, <1>3, <1>4, GotoChanges DEF Orderly, DropPcs, TypeOK
<1>5. CASE DropWait(t, frame, RbDrop(q, Len(chunk)))
  BY <1>3, <1>5, DropWaitOrderly
<1> QED
  BY <1>2, <1>4, <1>5 DEF DropLoop

LEMMA DropHeaderOrderly ==
  ASSUME TypeOK, NEW t \in Threads, NEW call \in Calls, NEW k \in BOOLEAN,
         DropHeader(t, call, k)
  PROVE  Orderly(t, call, DropPcs)
<1> DEFINE q == files[call.c][k]
<1>1. q \in Rings /\ HdrSize \in Nat
  BY ChannelAssumption DEF Calls, TypeOK, FilesOK
<1>2. CASE Block(t, call.c, "write") /\ Goto(t, Frame("drop_hdr", call, k))
  BY <1>2, FrameOrderly DEF Slots, WaitsAt, DropPcs
<1>3. CASE /\ Len(q) >= HdrSize
           /\ \E size \in SizesIn(q) : DropLoop(t, call, k, size, RbDrop(q, HdrSize), <<>>)
  <2>1. PICK size \in SizesIn(q) : DropLoop(t, call, k, size, RbDrop(q, HdrSize), <<>>)
    BY <1>3
  <2>2. size \in Nat /\ RbDrop(q, HdrSize) \in Rings
    BY <1>1, <1>3, SizesType, RingFacts, DropType
  <2>3. <<>> \in Seq(CellSet) /\ Len(<<>>) <= size
    BY <2>2, EmptySeq
  <2> QED
    BY <2>1, <2>2, <2>3, DropLoopOrderly
<1> QED
  BY <1>2, <1>3 DEF DropHeader

LEMMA SynchronizeOrderly ==
  ASSUME TypeOK, NEW t \in Threads, NEW call \in Calls, NEW sender \in BOOLEAN, NEW pcs,
         NEW pc \in WaitsAt(MySlot(sender)) \cap pcs, Synchronize(t, call, sender, pc)
  PROVE  Orderly(t, call, pcs)
<1>1. call.c \in Chans /\ MySlot(sender) \in Slots /\ PeerSlot(sender) \in Slots
  BY DEF Calls, MySlot, PeerSlot, Slots
<1>2. Goto(t, Frame(pc, call, FALSE)) /\ Frame(pc, call, FALSE).pc = pc /\ Frame(pc, call, FALSE).call = call
  BY DEF Synchronize, Frame
<1>3. CASE Wake(call.c, PeerSlot(sender))
  BY <1>1, <1>2, <1>3, GotoChanges DEF Orderly, TypeOK
<1>4. CASE Block(t, call.c, MySlot(sender))
  BY <1>1, <1>2, <1>4, FrameOrderly
<1> QED
  BY <1>3, <1>4 DEF Synchronize, Meet

--------------------------------------------------------------------------------
(* Which calls a thread makes, and where it is in them. *)

OwnCalls(t) == {call \in Calls : \E h \in Seq(Results) : call \in Code(t, h)}

PcsOf(op) ==
  IF op \in {"send", "send_msg"} THEN SendPcs
  ELSE IF op \in {"recv", "recv_msg"} THEN RecvPcs
  ELSE IF op = "drop" THEN DropPcs
  ELSE {"try_send", "try_recv", "flags", "asleep", "spin"}

\* A thread in a call is in a call of its program, at a place of that call.
InProgram ==
  \A t \in Threads : th[t].pc # "idle" =>
    th[t].call \in OwnCalls(t) /\ th[t].pc \in PcsOf(th[t].call.op)

LEMMA NextIsOwn ==
  ASSUME ThreadsOK, NEW t \in Threads, NEW call \in NextCalls(t)
  PROVE  call \in OwnCalls(t)
BY DEF ThreadsOK, NextCalls, OwnCalls

\* Every step of a call on a channel but Make is of one of the three kinds.
LEMMA StepOrderly ==
  ASSUME TypeOK, InProgram, NEW t \in Threads, Step(t), ~Make(t), ~Lives(t)
  PROVE  \E call \in OwnCalls(t) : Orderly(t, call, PcsOf(call.op))
<1> DEFINE f == th[t]
           own == f.call
           OK(call) == call \in OwnCalls(t) /\ Orderly(t, call, PcsOf(call.op))
<1>0. f.pc # "idle" =>
        /\ own \in Calls /\ own.c \in Chans /\ f.rb \in BOOLEAN
        /\ f \in Frames /\ InBounds(f) /\ f.bytes \in 0..own.n
        /\ f.size \in Nat /\ f.out \in Seq(CellSet) /\ Len(f.out) <= f.size
        /\ files[own.c][f.rb] \in Rings
        /\ own \in OwnCalls(t) /\ f.pc \in PcsOf(own.op)
  BY FrameFacts DEF TypeOK, FilesOK, InProgram
<1>1. \A call : OutFile(t, call.c) \in BOOLEAN /\ InFile(t, call.c) \in BOOLEAN
  BY DEF OutFile, InFile
<1>2. /\ f.pc \in SendPcs => f.pc # "idle" /\ PcsOf(own.op) = SendPcs
      /\ f.pc \in RecvPcs => f.pc # "idle" /\ PcsOf(own.op) = RecvPcs
      /\ f.pc \in DropPcs => f.pc # "idle" /\ PcsOf(own.op) = DropPcs
  BY <1>0 DEF PcsOf, SendPcs, RecvPcs, DropPcs
<1>3. ASSUME NEW call \in NextCalls(t)
      PROVE  call \in Calls /\ call \in OwnCalls(t)
  BY NextCallsType, NextIsOwn DEF TypeOK
<1>4. ASSUME NEW call, NEW n, NEW heard, ReturnHeard(t, call, n, heard), Undisturbed
      PROVE  Orderly(t, call, PcsOf(call.op))
  BY <1>4, GotoChanges DEF Orderly, TypeOK
<1>5. CASE Enter(t)
  <2>1. PICK call \in NextCalls(t) :
          /\ call.op \in {"send", "try_send", "recv", "try_recv", "drop"}
          /\ Return(t, call, 0) \/ Goto(t, Frame(call.op, call, InFile(t, call.c)))
          /\ Undisturbed
    BY <1>5 DEF Enter, Invokes
  <2>2. CASE Return(t, call, 0)
    BY <1>3, <1>4, <2>1, <2>2 DEF Return
  <2>3. CASE Goto(t, Frame(call.op, call, InFile(t, call.c)))
    <3>1. /\ Frame(call.op, call, InFile(t, call.c)).pc \in PcsOf(call.op)
          /\ Frame(call.op, call, InFile(t, call.c)).call = call
      BY <2>1 DEF Frame, PcsOf, SendPcs, RecvPcs, DropPcs
    <3>2. Orderly(t, call, PcsOf(call.op))
      BY <2>1, <2>3, <3>1, GotoChanges DEF Orderly, TypeOK
    <3> QED
      BY <1>3, <3>2
  <2> QED
    BY <2>1, <2>2, <2>3
<1>6. CASE Sends(t)
  <2>1. ASSUME f.pc \in SendPcs, SendBody(t, own) PROVE OK(own)
    <3>1. CASE Return(t, own, 0) /\ Undisturbed
      BY <1>0, <1>2, <1>4, <2>1, <3>1 DEF Return
    <3>2. CASE SendHeader(t, own, OutFile(t, own.c))
      BY <1>0, <1>1, <1>2, <2>1, <3>2, SendHeaderOrderly
    <3> QED
      BY <2>1, <3>1, <3>2 DEF SendBody
  <2>2. CASE SendSync(t)
    <3>1. f.pc \in SendPcs
      BY <2>2 DEF SendSync, At, SendPcs
    <3>2. CASE Synchronize(t, own, TRUE, "send_body")
      <4>1. "send_body" \in WaitsAt(MySlot(TRUE)) \cap SendPcs
        BY DEF WaitsAt, MySlot, SendPcs
      <4> QED
        BY <1>0, <1>2, <3>1, <3>2, <4>1, SynchronizeOrderly
    <3> QED
      BY <2>1, <2>2, <3>1, <3>2 DEF SendSync
  <2>3. CASE SendSynced(t)
    BY <2>1, <2>3 DEF SendSynced, At, SendPcs
  <2>4. CASE SendMsgCall(t)
    <3>1. PICK call \in NextCalls(t) : call.op = "send_msg" /\ SendHeader(t, call, OutFile(t, call.c))
      BY <2>4 DEF SendMsgCall, Invokes
    <3>2. PcsOf(call.op) = SendPcs
      BY <3>1 DEF PcsOf
    <3> QED
      BY <1>1, <1>3, <3>1, <3>2, SendHeaderOrderly
  <2>5. CASE SendHeaderAgain(t)
    <3>1. f.pc \in SendPcs /\ SendHeader(t, own, f.rb)
      BY <2>5 DEF SendHeaderAgain, At, SendPcs
    <3> QED
      BY <1>0, <1>2, <3>1, SendHeaderOrderly
  <2>6. ASSUME f.pc \in SendPcs, SendLoop(t, own, f.rb, files[own.c][f.rb], f.bytes) PROVE OK(own)
    BY <1>0, <1>2, <2>6, SendLoopOrderly
  <2>7. CASE SendResume(t)
    BY <2>6, <2>7 DEF SendResume, At, SendPcs
  <2>8. CASE SendSent(t)
    <3>1. f.pc \in SendPcs
      BY <2>8 DEF SendSent, At, SendPcs
    <3>2. CASE Return(t, own, f.bytes) /\ Undisturbed
      BY <1>0, <1>2, <1>4, <3>1, <3>2 DEF Return
    <3> QED
      BY <2>6, <2>8, <3>1, <3>2 DEF SendSent
  <2> QED
    BY <1>6, <2>2, <2>3, <2>4, <2>5, <2>7, <2>8 DEF Sends
<1>7. CASE Recvs(t)
  <2>1. ASSUME f.pc \in RecvPcs, RecvBody(t, own) PROVE OK(own)
    <3>1. CASE Return(t, own, 0) /\ Undisturbed
      BY <1>0, <1>2, <1>4, <2>1, <3>1 DEF Return
    <3>2. CASE RecvHeader(t, own, InFile(t, own.c))
      BY <1>0, <1>1, <1>2, <2>1, <3>2, RecvHeaderOrderly
    <3> QED
      BY <2>1, <3>1, <3>2 DEF RecvBody
  <2>2. CASE RecvSync(t)
    <3>1. f.pc \in RecvPcs
      BY <2>2 DEF RecvSync, At, RecvPcs
    <3>2. CASE Synchronize(t, own, FALSE, "recv_body")
      <4>1. "recv_body" \in WaitsAt(MySlot(FALSE)) \cap RecvPcs
        BY DEF WaitsAt, MySlot, RecvPcs
      <4> QED
        BY <1>0, <1>2, <3>1, <3>2, <4>1, SynchronizeOrderly
    <3> QED
      BY <2>1, <2>2, <3>1, <3>2 DEF RecvSync
  <2>3. CASE RecvSynced(t)
    BY <2>1, <2>3 DEF RecvSynced, At, RecvPcs
  <2>4. CASE RecvMsgCall(t)
    <3>1. PICK call \in NextCalls(t) : call.op = "recv_msg" /\ RecvHeader(t, call, InFile(t, call.c))
      BY <2>4 DEF RecvMsgCall, Invokes
    <3>2. PcsOf(call.op) = RecvPcs
      BY <3>1 DEF PcsOf
    <3> QED
      BY <1>1, <1>3, <3>1, <3>2, RecvHeaderOrderly
  <2>5. CASE RecvHeaderAgain(t)
    <3>1. f.pc \in RecvPcs /\ RecvHeader(t, own, f.rb)
      BY <2>5 DEF RecvHeaderAgain, At, RecvPcs
    <3> QED
      BY <1>0, <1>2, <3>1, RecvHeaderOrderly
  <2>6. ASSUME f.pc \in RecvPcs, RecvLoop(t, own, f.rb, f.size, files[own.c][f.rb], f.out)
        PROVE  OK(own)
    BY <1>0, <1>2, <2>6, RecvLoopOrderly
  <2>7. CASE RecvResume(t)
    BY <2>6, <2>7 DEF RecvResume, At, RecvPcs
  <2>8. CASE RecvGot(t)
    <3>1. f.pc \in RecvPcs
      BY <2>8 DEF RecvGot, At, RecvPcs
    <3>2. CASE Taken(t, f)
      BY <1>0, <1>2, <1>4, <3>1, <3>2 DEF Taken
    <3> QED
      BY <2>6, <2>8, <3>1, <3>2 DEF RecvGot
  <2> QED
    BY <1>7, <2>2, <2>3, <2>4, <2>5, <2>7, <2>8 DEF Recvs
<1>8. CASE Drops(t)
  <2>1. CASE DropSync(t)
    <3>1. f.pc \in DropPcs
      BY <2>1 DEF DropSync, At, DropPcs
    <3>2. CASE Synchronize(t, own, ~OutFile(t, own.c), "drop_body")
      <4>1. /\ "drop_body" \in WaitsAt(MySlot(~OutFile(t, own.c))) \cap DropPcs
            /\ (~OutFile(t, own.c)) \in BOOLEAN
        BY DEF WaitsAt, DropPcs
      <4> QED
        BY <1>0, <1>2, <3>1, <3>2, <4>1, SynchronizeOrderly
    <3>3. CASE DropHeader(t, own, InFile(t, own.c))
      BY <1>0, <1>1, <1>2, <3>1, <3>3, DropHeaderOrderly
    <3> QED
      BY <2>1, <3>2, <3>3 DEF DropSync
  <2>2. CASE DropSynced(t)
    <3>1. f.pc \in DropPcs /\ DropHeader(t, own, InFile(t, own.c))
      BY <2>2 DEF DropSynced, At, DropPcs
    <3> QED
      BY <1>0, <1>1, <1>2, <3>1, DropHeaderOrderly
  <2>3. CASE DropHeaderAgain(t)
    <3>1. f.pc \in DropPcs /\ DropHeader(t, own, f.rb)
      BY <2>3 DEF DropHeaderAgain, At, DropPcs
    <3> QED
      BY <1>0, <1>2, <3>1, DropHeaderOrderly
  <2>4. CASE DropResume(t)
    <3>1. f.pc \in DropPcs /\ DropLoop(t, own, f.rb, f.size, files[own.c][f.rb], f.out)
      BY <2>4 DEF DropResume, At, DropPcs
    <3> QED
      BY <1>0, <1>2, <3>1, DropLoopOrderly
  <2>5. CASE DropDropped(t)
    <3>1. f.pc \in DropPcs
      BY <2>5 DEF DropDropped, At, DropPcs
    <3>2. CASE Taken(t, f)
      BY <1>0, <1>2, <1>4, <3>1, <3>2 DEF Taken
    <3>3. CASE DropWait(t, f, files[own.c][f.rb])
      BY <1>0, <1>2, <3>1, <3>3, DropWaitOrderly
    <3> QED
      BY <2>5, <3>2, <3>3 DEF DropDropped
  <2> QED
    BY <1>8, <2>1, <2>2, <2>3, <2>4, <2>5 DEF Drops
<1>9. CASE Tries(t)
  <2>1. f.pc # "idle" /\ Undisturbed
    BY <1>9 DEF Tries, TrySend, TryRecv, At
  <2>2. \E n, heard : ReturnHeard(t, own, n, heard)
    BY <1>9 DEF Tries, TrySend, TryRecv, Return
  <2> QED
    BY <1>0, <1>4, <2>1, <2>2
<1>10. CASE FlagsLoad(t)
  <2>1. PICK call \in NextCalls(t) :
          /\ call.op \in {"close", "set_buffered"}
          /\ Goto(t, [Frame("flags", call, FALSE) EXCEPT !.flags = chan[call.c].flags])
          /\ Undisturbed
    BY <1>10 DEF FlagsLoad, Invokes
  <2> DEFINE g == [Frame("flags", call, FALSE) EXCEPT !.flags = chan[call.c].flags]
  <2>2. g.pc = "flags" /\ g.call = call
    BY DEF Frame
  <2>3. Orderly(t, call, PcsOf(call.op))
    BY <2>1, <2>2, GotoChanges DEF Orderly, PcsOf, TypeOK
  <2> QED
    BY <1>3, <2>3
<1>11. CASE FlagsStore(t)
  BY <1>0, <1>4, <1>11 DEF FlagsStore, At, Return
<1>12. CASE SetOwner(t)
  BY <1>3, <1>4, <1>12 DEF SetOwner, Return
<1> QED
  BY <1>5, <1>6, <1>7, <1>8, <1>9, <1>10, <1>11, <1>12 DEF Step, Manages

\* A timer wakes a thread that sleeps outside the channels; everyone else who
\* takes a step runs.
LEMMA StepRuns ==
  ASSUME WaiterAsleep, NEW t \in Threads, Step(t)
  PROVE  /\ status[t] = "ready" \/ Timer(t)
         /\ \A c \in Chans, slot \in Slots : blocked[c][slot] # t
<1>1. CASE Enter(t) \/ Tries(t) \/ Manages(t)
  BY <1>1, RunsAlone DEF Enter, Tries, TrySend, TryRecv, Manages, FlagsLoad, FlagsStore,
                         SetOwner, Make, Invokes, At, Runs
<1>2. CASE Sends(t)
  BY <1>2, RunsAlone DEF Sends, SendSync, SendSynced, SendMsgCall, SendHeaderAgain, SendResume,
                         SendSent, Invokes, At, Runs
<1>3. CASE Recvs(t)
  BY <1>3, RunsAlone DEF Recvs, RecvSync, RecvSynced, RecvMsgCall, RecvHeaderAgain, RecvResume,
                         RecvGot, Invokes, At, Runs
<1>4. CASE Drops(t)
  BY <1>4, RunsAlone DEF Drops, DropSync, DropSynced, DropHeaderAgain, DropResume, DropDropped,
                         At, Runs
<1>5. CASE Go(t) \/ Kill(t) \/ Sleep(t) \/ Spin(t) \/ Exit(t)
  BY <1>5, RunsAlone DEF Go, Kill, Sleep, Spin, Exit, Invokes, Runs
<1>6. CASE Timer(t)
  <2> SUFFICES ASSUME NEW c \in Chans, NEW slot \in Slots, blocked[c][slot] = t PROVE FALSE
    BY <1>6
  <2>1. th[t].pc \in WaitsAt(slot)
    BY RiotAssumption DEF WaiterAsleep
  <2> QED
    BY <1>6, <2>1 DEF Timer, WaitsAt
<1> QED
  BY <1>1, <1>2, <1>3, <1>4, <1>5, <1>6 DEF Step, Lives

\* A step that takes names out of slots and touches only threads in none of them.
LEMMA QuietKeeps ==
  ASSUME TypeOK, WaiterAsleep, NEW S,
         \A c \in Chans, slot \in Slots : blocked[c][slot] \notin S,
         \A c \in Chans, slot \in Slots : blocked'[c][slot] \in {blocked[c][slot], NoThread},
         \A u \in Threads \ S : th'[u] = th[u] /\ status'[u] = status[u]
  PROVE  WaiterAsleep'
<1> SUFFICES ASSUME NEW d \in Chans, NEW s \in Slots, blocked'[d][s] # NoThread
             PROVE  LET u == blocked'[d][s]
                    IN  /\ status'[u] = "sleeping"
                        /\ th'[u].pc \in WaitsAt(s) /\ th'[u].call.c = d
                        /\ \A e \in Chans, other \in Slots :
                              blocked'[e][other] = u => e = d /\ other = s
  BY DEF WaiterAsleep
<1> DEFINE u == blocked'[d][s]
<1>1. u = blocked[d][s] /\ u \in Threads \ S
  BY DEF TypeOK, SchedOK
<1>2. th'[u] = th[u] /\ status'[u] = status[u]
  BY <1>1
<1>3. \A e \in Chans, other \in Slots : blocked'[e][other] = u => blocked[e][other] = u
  OBVIOUS
<1> QED
  BY <1>1, <1>2, <1>3 DEF WaiterAsleep

\* No program kills: the name of a killed thread stays in its slot, and GO may
\* start the same thread again.
NoKills == \A t \in Threads : \A call \in OwnCalls(t) : call.op # "kill"

LEMMA LivesKeep ==
  ASSUME NoKills, TypeOK, WaiterAsleep, InProgram, NEW t \in Threads, Step(t), Lives(t)
  PROVE  WaiterAsleep' /\ InProgram'
<1>0. /\ status \in [Threads -> Statuses] /\ DOMAIN th = Threads
      /\ \A c \in Chans, slot \in Slots : blocked[c][slot] # t
      /\ \A call \in NextCalls(t) : call \in OwnCalls(t) /\ call.to \in Threads
  BY StepRuns, NextIsOwn, NextCallsType DEF TypeOK, SchedOK, ThreadsOK, Calls
<1>1. ASSUME blocked' = blocked, \A u \in Threads \ {t} : th'[u] = th[u] /\ status'[u] = status[u]
      PROVE  WaiterAsleep'
  <2>1. \A c \in Chans, slot \in Slots : blocked[c][slot] \notin {t}
    BY <1>0
  <2>2. \A c \in Chans, slot \in Slots : blocked'[c][slot] \in {blocked[c][slot], NoThread}
    BY <1>1
  <2> QED
    BY <1>1, <2>1, <2>2, QuietKeeps
<1>2. ASSUME NEW call \in NextCalls(t), NEW pc \in {"asleep", "spin"},
             call.op \in {"sleep", "spin"}, Goto(t, Frame(pc, call, FALSE))
      PROVE  InProgram' /\ \A u \in Threads \ {t} : th'[u] = th[u]
  BY <1>0, <1>2 DEF InProgram, Goto, Frame, PcsOf
<1>3. CASE Go(t)
  <2>1. PICK call \in NextCalls(t) :
          /\ Gone(call.to)
          /\ status' = [status EXCEPT ![call.to] = "ready"]
          /\ th' = [th EXCEPT ![call.to] = Idle]
          /\ UNCHANGED blocked
    BY <1>3 DEF Go
  <2> DEFINE p == call.to
  <2>2. p \in Threads /\ status[p] # "sleeping"
    BY <1>0, <2>1 DEF Gone
  <2>3. \A c \in Chans, slot \in Slots : blocked[c][slot] \notin {p}
    BY <2>2, RiotAssumption DEF WaiterAsleep
  <2>4. \A u \in Threads \ {p} : th'[u] = th[u] /\ status'[u] = status[u]
    BY <1>0, <2>1
  <2>5. WaiterAsleep'
    BY <2>1, <2>3, <2>4, QuietKeeps
  <2>6. InProgram'
    BY <1>0, <2>1, <2>2 DEF InProgram, Idle, Frame
  <2> QED
    BY <2>5, <2>6
<1>4. ~Kill(t)
  BY <1>0 DEF Kill, Invokes, NoKills
<1>5. CASE Sleep(t)
  BY <1>0, <1>1, <1>2, <1>5 DEF Sleep, Invokes
<1>6. CASE Timer(t)
  BY <1>0, <1>1, <1>6 DEF Timer, Return, ReturnHeard, InProgram, Idle, Frame
<1>7. CASE Spin(t)
  BY <1>0, <1>1, <1>2, <1>7 DEF Spin, Invokes
<1>8. CASE Exit(t)
  BY <1>0, <1>1, <1>8 DEF Exit, InProgram
<1> QED
  BY <1>3, <1>4, <1>5, <1>6, <1>7, <1>8 DEF Lives

LEMMA StepKeeps ==
  ASSUME NoKills, TypeOK, WaiterAsleep, InProgram, NEW t \in Threads, Step(t)
  PROVE  WaiterAsleep' /\ InProgram'
<1>0. DOMAIN th = Threads
  BY DEF TypeOK, ThreadsOK
<1>1. CASE Make(t)
  <2>1. PICK call \in NextCalls(t) :
          /\ blocked' = [blocked EXCEPT ![call.c] = [s \in Slots |-> NoThread]]
          /\ Return(t, call, 0) /\ status' = status
    BY <1>1 DEF Make
  <2>2. \A c \in Chans, slot \in Slots : blocked'[c][slot] \in {blocked[c][slot], NoThread}
    BY <2>1 DEF TypeOK, SchedOK
  <2>3. \A u \in Threads \ {t} : th'[u] = th[u] /\ status'[u] = status[u]
    BY <1>0, <2>1 DEF Return, ReturnHeard
  <2>4. WaiterAsleep'
    <3>1. \A c \in Chans, slot \in Slots : blocked[c][slot] \notin {t}
      BY StepRuns
    <3> QED
      BY <2>2, <2>3, <3>1, QuietKeeps
  <2>5. InProgram'
    BY <1>0, <2>1 DEF InProgram, Return, ReturnHeard, Idle, Frame
  <2> QED
    BY <2>4, <2>5
<1>2. CASE Lives(t)
  BY <1>2, LivesKeep
<1>3. CASE ~Make(t) /\ ~Lives(t)
  <2>1. PICK call \in OwnCalls(t) : Orderly(t, call, PcsOf(call.op))
    BY <1>3, StepOrderly
  <2>2. status[t] = "ready"
    BY <1>3, StepRuns DEF Lives
  <2>3. WaiterAsleep'
    BY <2>1, <2>2, OrderlyKeeps
  <2>4. InProgram'
    BY <1>0, <2>1 DEF InProgram, Orderly, Changes, Idle, Frame
  <2> QED
    BY <2>3, <2>4
<1> QED
  BY <1>1, <1>2, <1>3

LEMMA SlotsInvariant ==
  ASSUME NoKills PROVE Spec => [](TypeOK /\ WaiterAsleep /\ InProgram)
<1>1. Init => WaiterAsleep /\ InProgram
  BY DEF Init, WaiterAsleep, InProgram, Idle, Frame
<1>2. TypeOK /\ WaiterAsleep /\ InProgram /\ [Next]_vars => (WaiterAsleep /\ InProgram)'
  <2> SUFFICES ASSUME TypeOK, WaiterAsleep, InProgram, [Next]_vars
               PROVE  (WaiterAsleep /\ InProgram)'
    OBVIOUS
  <2>1. CASE \E t \in Threads : Step(t)
    BY <2>1, StepKeeps
  <2>2. CASE UNCHANGED vars
    BY <2>2 DEF vars, WaiterAsleep, InProgram
  <2> QED
    BY <2>1, <2>2 DEF Next, Ended
<1> QED
  BY <1>1, <1>2, TypeCorrect, PTL DEF Spec

\* Whatever the threads do with the channels, and however many share one: as long
\* as none of them kills another, whoever is registered in a slot sleeps in a call
\* that waits there, and nowhere else, so channel_sched_other never makes a wrong
\* thread ready.
THEOREM WaitersSleep == ASSUME NoKills PROVE Spec => []WaiterAsleep
BY SlotsInvariant, PTL

--------------------------------------------------------------------------------
(* NoLostWaiter, where the slots are not shared. *)

\* The slots in which a call may put the name of its thread.
SlotsOf(op) ==
  IF op \in {"send", "send_msg"} THEN {"read"}
  ELSE IF op \in {"recv", "recv_msg"} THEN {"write"}
  ELSE IF op = "drop" THEN Slots
  ELSE {}

MayWait(t, c, slot) == \E call \in OwnCalls(t) : call.c = c /\ slot \in SlotsOf(call.op)

\* At most one thread ever waits on either side of a channel.
MonoChannels ==
  \A c \in Chans, slot \in Slots : \A t, u \in Threads :
    MayWait(t, c, slot) /\ MayWait(u, c, slot) => t = u

\* No thread of the program makes a channel; and none polls channel_make, which
\* returns nothing.
NoMakes == \A t \in Threads : \A call \in OwnCalls(t) : call.op # "make"
MakesOnce == \A t \in Threads : \A call \in OwnCalls(t) : call.op = "make" => call.again = 0

LEMMA NothingMade ==
  ASSUME ThreadsOK, NoMakes, NEW t \in Threads PROVE ~Make(t)
BY NextIsOwn DEF Make, Invokes, NoMakes

\* Who makes a channel is in no call, and the channel was unused.
LEMMA MakesOne ==
  ASSUME TypeOK, MakesOnce, NEW t \in Threads, Make(t)
  PROVE  \E call \in NextCalls(t) :
           /\ call \in OwnCalls(t) /\ call.op = "make" /\ call.c \in Chans /\ th[t].pc = "idle"
           /\ th'[t] = Idle /\ \A u \in Threads \ {t} : th'[u] = th[u] /\ ret'[u] = ret[u]
           /\ \E flags \in {{}, {"buffered"}} :
                chan' = [chan EXCEPT ![call.c] = [creator |-> t, flags |-> flags]]
           /\ blocked' = [blocked EXCEPT ![call.c] = [s \in Slots |-> NoThread]]
           /\ files' = [files EXCEPT ![call.c] = NewFiles]
           /\ sent' = [sent EXCEPT ![call.c] = NewFiles]
           /\ rcvd' = [rcvd EXCEPT ![call.c] = NewFiles]
           /\ UNCHANGED status
           /\ MadeUnused => Unused(call.c)
<1>1. PICK call \in NextCalls(t) :
        /\ call.op = "make" /\ th[t].pc = "idle"
        /\ chan' = [chan EXCEPT ![call.c] = [creator |-> t, flags |-> MadeFlags(call.n # 0)]]
        /\ blocked' = [blocked EXCEPT ![call.c] = [s \in Slots |-> NoThread]]
        /\ files' = [files EXCEPT ![call.c] = NewFiles]
        /\ sent' = [sent EXCEPT ![call.c] = NewFiles] /\ rcvd' = [rcvd EXCEPT ![call.c] = NewFiles]
        /\ Return(t, call, 0)
        /\ UNCHANGED status
  BY DEF Make, Invokes
<1>2. call \in OwnCalls(t) /\ call \in Calls /\ call.c \in Chans
  BY NextIsOwn, NextCallsType DEF TypeOK, Calls
<1>3. /\ th' = [th EXCEPT ![t] = Idle]
      /\ ret' = [ret EXCEPT ![t] = Append(ret[t], [call |-> call, n |-> 0, heard |-> 0])]
  <2>1. call.again = 0
    BY <1>1, <1>2 DEF MakesOnce
  <2>2. Returned(ret[t], call, 0, 0) = Append(ret[t], [call |-> call, n |-> 0, heard |-> 0])
    BY <2>1 DEF Returned
  <2> QED
    BY <1>1, <2>2 DEF Return, ReturnHeard
<1>4. th'[t] = Idle /\ \A u \in Threads \ {t} : th'[u] = th[u] /\ ret'[u] = ret[u]
  BY <1>3 DEF TypeOK, ThreadsOK
<1>5. JustMade(t, call.c)
  <2>1. ret[t] \in Seq(Results) /\ [call |-> call, n |-> 0, heard |-> 0] \in Results
    <3>1. ret[t] \in Seq(Results)
      BY DEF TypeOK, ThreadsOK
    <3>2. [call |-> call, n |-> 0, heard |-> 0] \in Results
      BY <1>2 DEF Results
    <3> QED
      BY <3>1, <3>2
  <2>2. ret'[t] = Append(ret[t], [call |-> call, n |-> 0, heard |-> 0])
    BY <1>3 DEF TypeOK, ThreadsOK
  <2>3. /\ Len(ret'[t]) = Len(ret[t]) + 1 /\ Len(ret[t]) \in Nat
        /\ ret'[t][Len(ret[t]) + 1] = [call |-> call, n |-> 0, heard |-> 0]
    BY <2>1, <2>2, AppendProperties, LenProperties
  <2> QED
    BY <1>1, <2>3 DEF JustMade
<1>6. MadeUnused => Unused(call.c)
  BY <1>2, <1>5 DEF MadeUnused
<1>7. MadeFlags(call.n # 0) \in {{}, {"buffered"}}
  BY DEF MadeFlags
<1> QED
  BY <1>1, <1>2, <1>4, <1>6, <1>7

LEMMA LostInit == ASSUME Init PROVE NoLostWaiter
BY DEF Init, Booted, NoLostWaiter

LEMMA NoneLostStep ==
  ASSUME MonoChannels, NoKills, TypeOK, WaiterAsleep, InProgram, NoLostWaiter,
         NEW t \in Threads, Step(t), ~Make(t) \/ (MakesOnce /\ MadeUnused)
  PROVE  NoLostWaiter'
<1>0. /\ status \in [Threads -> Statuses]
      /\ blocked \in [Chans -> [Slots -> Threads \cup {NoThread}]]
      /\ DOMAIN th = Threads
  BY DEF TypeOK, SchedOK, ThreadsOK
<1>1. \A c \in Chans, slot \in Slots : blocked[c][slot] # t
  BY StepRuns
<1>2. CASE Make(t)
  <2>1. PICK call \in NextCalls(t) :
          /\ blocked' = [blocked EXCEPT ![call.c] = [s \in Slots |-> NoThread]]
          /\ th'[t] = Idle /\ \A u \in Threads \ {t} : th'[u] = th[u]
          /\ UNCHANGED status
          /\ Unused(call.c)
    BY <1>2, MakesOne
  <2>2. ASSUME NEW u \in Threads, status'[u] = "sleeping", th'[u].pc # "asleep"
        PROVE  \E c \in Chans, slot \in Slots : blocked'[c][slot] = u
    <3>1. status[u] = "sleeping" /\ u # t
      BY <2>1, <2>2, StepRuns, <1>2 DEF Make, Invokes, Runs
    <3>2. PICK c \in Chans, slot \in Slots : blocked[c][slot] = u
      BY <2>1, <2>2, <3>1 DEF NoLostWaiter
    <3>3. th[u].pc \in WaitsAt(slot) /\ th[u].call.c = c
      BY <3>2, RiotAssumption DEF WaiterAsleep
    <3>4. c # call.c
      BY <2>1, <3>1, <3>3 DEF Unused, WaitsAt, Gone
    <3>5. blocked'[c][slot] = u
      BY <1>0, <2>1, <3>2, <3>4
    <3> QED
      BY <3>5
  <2> QED
    BY <2>2 DEF NoLostWaiter
<1>3. CASE Lives(t)
  <2>1. ASSUME NEW u \in Threads, status'[u] = "sleeping", th'[u].pc # "asleep"
        PROVE  status[u] = "sleeping" /\ th[u].pc # "asleep"
    <3>1. CASE Go(t)
      BY <1>0, <2>1, <3>1 DEF Go, Idle, Frame
    <3>2. ~Kill(t)
      BY NextIsOwn DEF TypeOK, Kill, Invokes, NoKills
    <3>3. CASE Sleep(t)
      BY <1>0, <2>1, <3>3 DEF Sleep, Goto, Frame
    <3>4. CASE Timer(t)
      BY <1>0, <2>1, <3>4 DEF Timer, Return, ReturnHeard
    <3>5. CASE Spin(t)
      BY <1>0, <2>1, <3>5 DEF Spin, Invokes, Goto, Frame
    <3>6. CASE Exit(t)
      BY <1>0, <2>1, <3>6 DEF Exit
    <3> QED
      BY <1>3, <3>1, <3>2, <3>3, <3>4, <3>5, <3>6 DEF Lives
  <2>2. UNCHANGED blocked
    BY <1>3 DEF Lives, Go, Kill, Sleep, Timer, Spin, Exit
  <2> QED
    BY <2>1, <2>2 DEF NoLostWaiter
<1>4. CASE ~Make(t) /\ ~Lives(t)
  <2>1. PICK call \in OwnCalls(t) : Orderly(t, call, PcsOf(call.op))
    BY <1>4, StepOrderly
  <2>0. status[t] = "ready" /\ \A u \in Threads \ {t} : th'[u] = th[u]
    BY <1>0, <1>4, <2>1, StepRuns DEF Orderly, Changes, Lives
  <2>2. CASE Undisturbed
    BY <2>0, <2>2 DEF NoLostWaiter, Undisturbed
  <2>3. ASSUME NEW c \in Chans, NEW slot \in Slots, Wake(c, slot), ~Undisturbed
        PROVE  NoLostWaiter'
    <3> DEFINE woken == blocked[c][slot]
    <3>1. /\ blocked' = [blocked EXCEPT ![c][slot] = NoThread]
          /\ status' = [status EXCEPT ![woken] = "ready"]
          /\ woken # NoThread
      BY <2>3 DEF Wake
    <3>2. ASSUME NEW u \in Threads, status'[u] = "sleeping", th'[u].pc # "asleep"
          PROVE  \E d \in Chans, s \in Slots : blocked'[d][s] = u
      <4>1. u # woken /\ status[u] = "sleeping" /\ th[u].pc # "asleep"
        BY <1>0, <2>0, <3>1, <3>2
      <4>2. PICK d \in Chans, s \in Slots : blocked[d][s] = u
        BY <4>1 DEF NoLostWaiter
      <4>3. blocked'[d][s] = u
        BY <1>0, <3>1, <4>1, <4>2
      <4> QED
        BY <4>3
    <3> QED
      BY <3>2 DEF NoLostWaiter
  <2>4. ASSUME NEW c \in Chans, NEW slot \in Slots, Block(t, c, slot),
               th'[t].pc \in WaitsAt(slot), th'[t].call.c = c
        PROVE  NoLostWaiter'
    <3>1. MayWait(t, c, slot)
      <4>1. th'[t].call = call /\ th'[t].pc \in PcsOf(call.op)
        BY <2>1, <2>4 DEF Orderly, Idle, Frame, WaitsAt
      <4>2. slot \in SlotsOf(call.op)
        BY <2>4, <4>1 DEF WaitsAt, PcsOf, SendPcs, RecvPcs, DropPcs, SlotsOf, Slots
      <4> QED
        BY <2>4, <4>1, <4>2 DEF MayWait
    <3>2. blocked[c][slot] = NoThread
      <4> SUFFICES ASSUME blocked[c][slot] # NoThread PROVE FALSE
        OBVIOUS
      <4> DEFINE u == blocked[c][slot]
      <4>1. u \in Threads /\ u # t
        BY <1>0, <1>1
      <4>2. th[u].pc \in WaitsAt(slot) /\ th[u].call.c = c
        BY DEF WaiterAsleep
      <4>3. th[u].call \in OwnCalls(u) /\ th[u].pc \in PcsOf(th[u].call.op)
        BY <4>1, <4>2 DEF InProgram, WaitsAt
      <4>4. slot \in SlotsOf(th[u].call.op)
        BY <4>2, <4>3 DEF WaitsAt, PcsOf, SendPcs, RecvPcs, DropPcs, SlotsOf, Slots
      <4>5. MayWait(u, c, slot)
        BY <4>2, <4>3, <4>4 DEF MayWait
      <4> QED
        BY <3>1, <4>1, <4>5 DEF MonoChannels
    <3>3. /\ blocked' = [blocked EXCEPT ![c][slot] = t]
          /\ status' = [status EXCEPT ![t] = "sleeping"]
      BY <2>4 DEF Block
    <3>4. ASSUME NEW u \in Threads, status'[u] = "sleeping", th'[u].pc # "asleep"
          PROVE  \E d \in Chans, s \in Slots : blocked'[d][s] = u
      <4>1. CASE u = t
        BY <1>0, <3>3, <4>1
      <4>2. CASE u # t
        <5>1. status[u] = "sleeping" /\ th[u].pc # "asleep"
          BY <1>0, <2>0, <3>3, <3>4, <4>2
        <5>2. PICK d \in Chans, s \in Slots : blocked[d][s] = u
          BY <5>1 DEF NoLostWaiter
        <5>3. u # NoThread
          BY RiotAssumption
        <5>4. blocked'[d][s] = u
          BY <1>0, <3>2, <3>3, <5>2, <5>3
        <5> QED
          BY <5>4
      <4> QED
        BY <4>1, <4>2
    <3> QED
      BY <3>4 DEF NoLostWaiter
  <2> QED
    BY <2>1, <2>2, <2>3, <2>4 DEF Orderly, Waits
<1> QED
  BY <1>2, <1>3, <1>4

LEMMA NoneLostStutter ==
  ASSUME NoLostWaiter, UNCHANGED vars PROVE NoLostWaiter'
BY DEF vars, NoLostWaiter

\* On such channels nobody who sleeps is forgotten: channel_sched_self never
\* overwrites the name of another thread.
THEOREM NoneLost == ASSUME MonoChannels, NoKills, NoMakes PROVE Spec => []NoLostWaiter
<1>1. TypeOK /\ WaiterAsleep /\ InProgram /\ NoLostWaiter /\ [Next]_vars => NoLostWaiter'
  BY NoneLostStep, NoneLostStutter, NothingMade DEF TypeOK, Next, Ended
<1> QED
  BY <1>1, LostInit, SlotsInvariant, PTL DEF Spec

\* Where the program makes channels too, as often as it likes, nobody is forgotten as
\* long as each is made while it is unused: channel_make clears both slots.
THEOREM NoneLostByMakes ==
  ASSUME MonoChannels, NoKills, MakesOnce
  PROVE  Spec /\ MakesUnused => []NoLostWaiter
<1>1. /\ TypeOK /\ WaiterAsleep /\ InProgram /\ NoLostWaiter
      /\ [Next]_vars /\ [MadeUnused]_vars
      => NoLostWaiter'
  BY NoneLostStep, NoneLostStutter DEF Next, Ended
<1> QED
  BY <1>1, LostInit, SlotsInvariant, PTL DEF Spec, MakesUnused

--------------------------------------------------------------------------------
(* StaysGone, of every program. *)

LEMMA LivesInProgram ==
  ASSUME TypeOK, InProgram, NEW t \in Threads, Lives(t)
  PROVE  InProgram'
<1>0. /\ DOMAIN th = Threads
      /\ \A call \in NextCalls(t) : call \in OwnCalls(t) /\ call.to \in Threads
  BY NextIsOwn, NextCallsType DEF TypeOK, ThreadsOK, Calls
<1>1. CASE Go(t)
  <2>1. PICK call \in NextCalls(t) : th' = [th EXCEPT ![call.to] = Idle]
    BY <1>1 DEF Go
  <2> QED
    BY <1>0, <2>1 DEF InProgram, Idle, Frame
<1>2. CASE Kill(t) \/ Timer(t)
  BY <1>0, <1>2 DEF Kill, Timer, Return, ReturnHeard, InProgram, Idle, Frame
<1>3. CASE Sleep(t) \/ Spin(t)
  <2>1. PICK call \in NextCalls(t), pc \in {"asleep", "spin"} :
          call.op \in {"sleep", "spin"} /\ pc \in PcsOf(call.op) /\ Goto(t, Frame(pc, call, FALSE))
    BY <1>3 DEF Sleep, Spin, Invokes, PcsOf
  <2> QED
    BY <1>0, <2>1 DEF InProgram, Goto, Frame
<1>4. CASE Exit(t)
  BY <1>4 DEF Exit, InProgram
<1> QED
  BY <1>1, <1>2, <1>3, <1>4 DEF Lives

\* Where a thread is belongs to its program, kills or not.
LEMMA ProgramInvariant ==
  Spec => [](TypeOK /\ InProgram)
<1>1. Init => InProgram
  BY DEF Init, InProgram, Idle, Frame
<1>2. TypeOK /\ InProgram /\ [Next]_vars => InProgram'
  <2> SUFFICES ASSUME TypeOK, InProgram, [Next]_vars PROVE InProgram'
    OBVIOUS
  <2>0. DOMAIN th = Threads
    BY DEF TypeOK, ThreadsOK
  <2>1. ASSUME NEW t \in Threads, Step(t) PROVE InProgram'
    <3>1. CASE Make(t)
      BY <2>0, <3>1 DEF Make, InProgram, Return, ReturnHeard, Idle, Frame
    <3>2. CASE ~Make(t) /\ ~Lives(t)
      <4>1. PICK call \in OwnCalls(t) : Orderly(t, call, PcsOf(call.op))
        BY <2>1, <3>2, StepOrderly
      <4> QED
        BY <2>0, <4>1 DEF InProgram, Orderly, Changes, Idle, Frame
    <3> QED
      BY <3>1, <3>2, LivesInProgram
  <2>2. CASE UNCHANGED vars
    BY <2>2 DEF vars, InProgram
  <2> QED
    BY <2>1, <2>2 DEF Next, Ended
<1> QED
  BY <1>1, <1>2, TypeCorrect, PTL DEF Spec

\* Wake, which makes others ready, asks whether they still exist; timers and Block
\* are about threads that do.
LEMMA GoStarts ==
  ASSUME TypeOK, InProgram, NEW t \in Threads, Step(t), NEW u \in Threads, Gone(u), ~Gone(u)'
  PROVE  \E call \in NextCalls(t) :
           call.op = "go" /\ call.to = u /\ ret'[t] = Returned(ret[t], call, 0, 0)
<1>0. /\ status \in [Threads -> Statuses] /\ ret \in [Threads -> Seq(Results)]
      /\ ~Gone(t) /\ t # u /\ status'[u] # status[u]
  BY DEF TypeOK, SchedOK, ThreadsOK, Step, Gone
<1>1. ~Make(t)
  BY <1>0 DEF Make
<1>2. Lives(t)
  <2> SUFFICES ASSUME ~Lives(t) PROVE FALSE
    OBVIOUS
  <2>1. PICK call \in OwnCalls(t) : Orderly(t, call, PcsOf(call.op))
    BY <1>1, StepOrderly
  <2>2. Undisturbed \/ (\E c \in Chans, slot \in Slots : Wake(c, slot) \/ Block(t, c, slot))
    BY <2>1 DEF Orderly, Waits
  <2> QED
    BY <1>0, <2>2 DEF Undisturbed, Wake, Block
<1>3. ~Kill(t) /\ ~Sleep(t) /\ ~Timer(t) /\ ~Spin(t) /\ ~Exit(t)
  <2>1. ~Kill(t)
    BY <1>0 DEF Kill, Gone
  <2> QED
    BY <1>0, <2>1 DEF Sleep, Timer, Spin, Exit
<1>4. Go(t)
  BY <1>2, <1>3 DEF Lives
<1>5. PICK call \in NextCalls(t) :
        /\ call.op = "go" /\ call.to # t
        /\ status' = [status EXCEPT ![call.to] = "ready"]
        /\ ret' = [ret EXCEPT ![call.to] = <<>>, ![t] = Returned(@, call, 0, 0)]
  BY <1>4 DEF Go, Invokes
<1>6. call.to = u /\ ret'[t] = Returned(ret[t], call, 0, 0)
  BY <1>0, <1>5
<1> QED
  BY <1>5, <1>6

\* Whatever the program, kills included: a name that a thread left in a channel never
\* brings it back; only GO does.
THEOREM GoneStayGone == Spec => StaysGone
<1>1. ASSUME TypeOK, InProgram, Next, NEW u \in Threads, Gone(u), ~Gone(u)'
      PROVE  \E t \in Threads : \E call \in NextCalls(t) :
               call.op = "go" /\ call.to = u /\ ret'[t] = Returned(ret[t], call, 0, 0)
  <2>1. CASE Ended
    BY <1>1, <2>1 DEF Ended, vars, Gone
  <2>2. ASSUME NEW t \in Threads, Step(t)
        PROVE  \E call \in NextCalls(t) :
                 call.op = "go" /\ call.to = u /\ ret'[t] = Returned(ret[t], call, 0, 0)
    BY <1>1, <2>2, GoStarts
  <2> QED
    BY <1>1, <2>1, <2>2 DEF Next
<1>2. TypeOK /\ InProgram /\ [Next]_vars => [OnlyGoStarts]_vars
  BY <1>1 DEF OnlyGoStarts
<1> QED
  BY <1>2, ProgramInvariant, PTL DEF Spec, StaysGone

--------------------------------------------------------------------------------
(* ClosedTakesNoPayload, of every program.                                    *)

\* What q has behind the first n bytes is not the data of a late message.
NotLate(q, n) == \A i \in n + 1..Len(q) : ~IsLatePayload(q[i])

\* Whatever a step adds to a closed channel is not the data of a late message.
KeepsClosed ==
  \A c \in Chans, k \in BOOLEAN :
    Closed(c) => NotLate(files'[c][k], Len(files[c][k]))

--------------------------------------------------------------------------------
(* Ring buffers *)

\* Nothing is new in a ring buffer that has not grown.
LEMMA ShorterNotLate ==
  ASSUME NEW q \in Rings, NEW n \in Nat, Len(q) <= n
  PROVE  NotLate(q, n)
<1>1. Len(q) \in Nat
  BY RingFacts
<1>2. n + 1..Len(q) = {}
  BY <1>1
<1> QED
  BY <1>2 DEF NotLate

LEMMA DropShortens ==
  ASSUME NEW q \in Rings, NEW n \in Nat
  PROVE  RbDrop(q, n) \in Rings /\ Len(RbDrop(q, n)) <= Len(q)
BY RingFacts, GetAndDrop, DropType

\* A header is no data.
LEMMA HeaderNotLate ==
  ASSUME NEW m \in Messages, NEW j \in 1..Len(Header(m))
  PROVE  ~IsLatePayload(Header(m)[j])
<1>1. HdrSize \in Nat /\ Len(Header(m)) = HdrSize
  BY CellsType, ChannelAssumption DEF Header
<1>2. Header(m)[j].off = j /\ j <= HdrSize
  BY <1>1 DEF Header, Cells
<1> QED
  BY <1>1, <1>2 DEF IsLatePayload

\* An add of cells none of which is late.
LEMMA AddNotLate ==
  ASSUME NEW q \in Rings, NEW n \in Nat, NotLate(q, n), n <= Len(q),
         NEW data \in Seq(CellSet), \A j \in 1..Len(data) : ~IsLatePayload(data[j])
  PROVE  RbAdd(q, data) \in Rings /\ n <= Len(RbAdd(q, data)) /\ NotLate(RbAdd(q, data), n)
<1> DEFINE r == RbAdd(q, data)
<1>1. /\ q \in Seq(CellSet) /\ Len(q) \in Nat /\ Len(data) \in Nat /\ RbFree(q) \in Nat
      /\ r \in Seq(CellSet) /\ Len(r) <= BufSize
      /\ Len(r) = Len(q) + Least(Len(data), RbFree(q))
  BY RingFacts, AddFits, LenProperties
<1>2. r \in Rings /\ Len(r) \in Nat /\ n <= Len(r)
  BY <1>1 DEF Rings, Least
<1>3. ASSUME NEW i \in n + 1..Len(r) PROVE ~IsLatePayload(r[i])
  <2>1. i \in 1..Len(r)
    BY <1>2
  <2>2. CASE i <= Len(q)
    <3>1. r[i] = q[i]
      BY <2>1, <2>2, AddedCells
    <3>2. i \in n + 1..Len(q)
      BY <1>1, <2>2
    <3> QED
      BY <3>1, <3>2 DEF NotLate
  <2>3. CASE i > Len(q)
    <3>1. i - Len(q) \in 1..Len(data) /\ r[i] = data[i - Len(q)]
      BY <2>1, <2>3, AddedCells
    <3> QED
      BY <3>1
  <2> QED
    BY <1>1, <2>1, <2>2, <2>3
<1>4. NotLate(r, n)
  BY <1>3 DEF NotLate
<1> QED
  BY <1>2, <1>4

\* A drop moves the bytes to the front.
LEMMA DropNotLate ==
  ASSUME NEW q \in Rings, NEW n \in Nat, NotLate(q, n), NEW d \in Nat
  PROVE  NotLate(RbDrop(q, d), n)
<1> DEFINE r == RbDrop(q, d)
           e == Least(d, Len(q))
<1>1. q \in Seq(CellSet) /\ Len(q) \in Nat
  BY RingFacts
<1>2. e \in 0..Len(q)
  BY <1>1 DEF Least
<1>3. Len(r) = Len(q) - e
  BY <1>1, GetAndDrop
<1>4. ASSUME NEW i \in n + 1..Len(r) PROVE ~IsLatePayload(r[i])
  <2>1. i \in 1..Len(q) - e /\ i + e \in n + 1..Len(q)
    BY <1>1, <1>2, <1>3
  <2>2. r[i] = q[i + e]
    BY <1>3, <2>1, DroppedCells
  <2> QED
    BY <2>1, <2>2 DEF NotLate
<1> QED
  BY <1>4 DEF NotLate

--------------------------------------------------------------------------------
(* Steps *)

LEMMA PutKeeps ==
  ASSUME FilesOK, NEW c \in Chans, NEW k \in BOOLEAN, NEW q, Put(c, k, q),
         Closed(c) => NotLate(q, Len(files[c][k]))
  PROVE  KeepsClosed
<1> SUFFICES ASSUME NEW d \in Chans, NEW l \in BOOLEAN, Closed(d)
             PROVE  NotLate(files'[d][l], Len(files[d][l]))
  BY DEF KeepsClosed
<1>1. CASE d = c /\ l = k
  BY <1>1 DEF Put, FilesOK
<1>2. CASE ~(d = c /\ l = k)
  <2>1. files'[d][l] = files[d][l] /\ files[d][l] \in Rings
    BY <1>2 DEF Put, FilesOK
  <2> QED
    BY <2>1, RingFacts, ShorterNotLate
<1> QED
  BY <1>1, <1>2

LEMMA UnchangedKeeps ==
  ASSUME FilesOK, UNCHANGED files
  PROVE  KeepsClosed
<1>1. ASSUME NEW c \in Chans, NEW k \in BOOLEAN
      PROVE  NotLate(files'[c][k], Len(files[c][k]))
  <2>1. files[c][k] \in Rings
    BY DEF FilesOK
  <2> QED
    BY <2>1, RingFacts, ShorterNotLate
<1> QED
  BY <1>1 DEF KeepsClosed

\* A step that leaves a ring buffer no longer than it was.
LEMMA ShorterKeeps ==
  ASSUME FilesOK, NEW c \in Chans, NEW k \in BOOLEAN, NEW q \in Rings, Put(c, k, q),
         Len(q) <= Len(files[c][k])
  PROVE  KeepsClosed
<1>1. Len(files[c][k]) \in Nat
  BY RingFacts DEF FilesOK
<1> QED
  BY <1>1, ShorterNotLate, PutKeeps

\* The data loop of a sender stops before it adds anything to a closed channel.
LEMMA SendLoopKeeps ==
  ASSUME TypeOK, NEW t \in Threads, NEW call \in Calls, NEW k \in BOOLEAN,
         NEW q \in Rings, NEW bytes \in 0..call.n, SendLoop(t, call, k, q, bytes),
         NotLate(q, Len(files[call.c][k]))
  PROVE  KeepsClosed
<1>1. call.c \in Chans /\ FilesOK
  BY DEF Calls, TypeOK
<1>2. CASE Put(call.c, k, q)
  BY <1>1, <1>2, PutKeeps
<1>3. CASE /\ ~SendStops(call.c)
           /\ Put(call.c, k, RbAdd(q, Rest(Message(t, call), bytes)))
  BY <1>1, <1>3, PutKeeps DEF SendStops
<1> QED
  BY <1>2, <1>3 DEF SendLoop

LEMMA SendHeaderKeeps ==
  ASSUME TypeOK, NEW t \in Threads, NEW call \in Calls, NEW k \in BOOLEAN,
         SendHeader(t, call, k)
  PROVE  KeepsClosed
<1> DEFINE c == call.c
           q == files[c][k]
           m == Message(t, call)
           torn == RbAdd(q, Header(m))
<1>1. c \in Chans /\ q \in Rings /\ 0 \in 0..call.n /\ FilesOK
  BY DEF Calls, TypeOK, FilesOK
<1>2. m \in Messages /\ Header(m) \in Seq(CellSet)
  <2>1. m \in Messages
    BY MessageType DEF TypeOK
  <2> QED
    BY <2>1, CellsType, ChannelAssumption DEF Header
<1>3. torn \in Rings /\ NotLate(torn, Len(q))
  <2>1. Len(q) \in Nat /\ NotLate(q, Len(q))
    BY <1>1, RingFacts, ShorterNotLate
  <2>2. \A j \in 1..Len(Header(m)) : ~IsLatePayload(Header(m)[j])
    BY <1>2, HeaderNotLate
  <2> QED
    BY <1>1, <1>2, <2>1, <2>2, AddNotLate
<1>4. CASE SendLoop(t, call, k, torn, 0)
  BY <1>1, <1>3, <1>4, SendLoopKeeps
<1>5. CASE Put(c, k, torn)
  BY <1>1, <1>3, <1>5, PutKeeps
<1>6. CASE ~Closed(c) /\ Put(c, k, RbDrop(torn, RbFree(q)))
  BY <1>1, <1>6, PutKeeps
<1> QED
  BY <1>4, <1>5, <1>6 DEF SendHeader

LEMMA SendBodyKeeps ==
  ASSUME TypeOK, NEW t \in Threads, NEW call \in Calls, SendBody(t, call)
  PROVE  KeepsClosed
<1>1. OutFile(t, call.c) \in BOOLEAN
  BY DEF OutFile
<1> QED
  BY <1>1, UnchangedKeeps, SendHeaderKeeps DEF SendBody, TypeOK

LEMMA SynchronizeKeeps ==
  ASSUME TypeOK, NEW t, NEW call, NEW sender, NEW pc, Synchronize(t, call, sender, pc)
  PROVE  KeepsClosed
BY UnchangedKeeps DEF Synchronize, TypeOK

LEMMA SendsKeep ==
  ASSUME TypeOK, NEW t \in Threads, Sends(t)
  PROVE  KeepsClosed
<1> DEFINE f == th[t]
<1>1. th[t].pc # "idle" =>
        /\ f.call \in Calls /\ f.call.c \in Chans /\ f.rb \in BOOLEAN /\ f.bytes \in 0..f.call.n
        /\ files[f.call.c][f.rb] \in Rings
        /\ NotLate(files[f.call.c][f.rb], Len(files[f.call.c][f.rb]))
  BY FrameFacts, RingFacts, ShorterNotLate DEF TypeOK, FilesOK
<1>2. CASE SendSync(t)
  BY <1>1, <1>2, SynchronizeKeeps, SendBodyKeeps DEF SendSync, At
<1>3. CASE SendSynced(t)
  BY <1>1, <1>3, SendBodyKeeps DEF SendSynced, At
<1>4. CASE SendMsgCall(t)
  <2>1. PICK call \in NextCalls(t) : SendHeader(t, call, OutFile(t, call.c))
    BY <1>4 DEF SendMsgCall
  <2>2. call \in Calls /\ OutFile(t, call.c) \in BOOLEAN
    BY NextCallsType DEF OutFile
  <2> QED
    BY <2>1, <2>2, SendHeaderKeeps
<1>5. CASE SendHeaderAgain(t)
  BY <1>1, <1>5, SendHeaderKeeps DEF SendHeaderAgain, At
<1>6. CASE SendResume(t)
  BY <1>1, <1>6, SendLoopKeeps DEF SendResume, At
<1>7. CASE SendSent(t)
  <2>1. CASE UNCHANGED files
    BY <2>1, UnchangedKeeps DEF TypeOK
  <2>2. CASE SendLoop(t, f.call, f.rb, files[f.call.c][f.rb], f.bytes)
    BY <1>1, <1>7, <2>2, SendLoopKeeps DEF SendSent, At
  <2> QED
    BY <1>7, <2>1, <2>2 DEF SendSent
<1> QED
  BY <1>2, <1>3, <1>4, <1>5, <1>6, <1>7 DEF Sends

\* The loops of receive and drop leave a ring buffer as long as it was or shorter.
LEMMA LoopsKeep ==
  ASSUME TypeOK, NEW t \in Threads, NEW call \in Calls, NEW k \in BOOLEAN, NEW size \in Nat,
         NEW q \in Rings, NEW out \in Seq(CellSet), Len(out) <= size,
         Len(q) <= Len(files[call.c][k]),
         RecvLoop(t, call, k, size, q, out) \/ DropLoop(t, call, k, size, q, out)
  PROVE  KeepsClosed
<1> DEFINE c == call.c
           chunk == RbGet(q, size - Len(out))
           left == RbDrop(q, Len(chunk))
<1>1. c \in Chans /\ FilesOK /\ Len(files[c][k]) \in Nat
  BY RingFacts DEF Calls, TypeOK, FilesOK
<1>2. Len(chunk) \in Nat
  BY ChunkType, LenProperties
<1>3. left \in Rings /\ Len(left) <= Len(files[c][k])
  <2>1. left \in Rings /\ Len(left) <= Len(q)
    BY <1>2, DropShortens
  <2>2. Len(left) \in Nat /\ Len(q) \in Nat
    BY <2>1, RingFacts
  <2> QED
    BY <1>1, <2>1, <2>2
<1>4. CASE Put(c, k, q)
  BY <1>1, <1>4, ShorterKeeps
<1>5. CASE Put(c, k, left)
  BY <1>1, <1>3, <1>5, ShorterKeeps
<1>6. Put(c, k, q) \/ Put(c, k, left)
  <2>1. CASE RecvLoop(t, call, k, size, q, out)
    BY <2>1 DEF RecvLoop
  <2>2. CASE DropLoop(t, call, k, size, q, out)
    <3>1. RecvFrame("drop_dropped", call, k, size, out \o chunk).rb = k
          /\ RecvFrame("drop_dropped", call, k, size, out \o chunk).call = call
      BY DEF RecvFrame, Frame
    <3> QED
      BY <2>2, <3>1 DEF DropLoop, DropWait
  <2> QED
    BY <2>1, <2>2
<1> QED
  BY <1>4, <1>5, <1>6

LEMMA HeadersKeep ==
  ASSUME TypeOK, NEW t \in Threads, NEW call \in Calls, NEW k \in BOOLEAN,
         RecvHeader(t, call, k) \/ DropHeader(t, call, k)
  PROVE  KeepsClosed
<1> DEFINE q == files[call.c][k]
<1>1. q \in Rings /\ HdrSize \in Nat /\ FilesOK
  BY ChannelAssumption DEF Calls, TypeOK, FilesOK
<1>2. CASE UNCHANGED files
  BY <1>1, <1>2, UnchangedKeeps
<1>3. CASE /\ Len(q) >= HdrSize
           /\ \E size \in SizesIn(q) :
                \/ RecvLoop(t, call, k, size, RbDrop(q, HdrSize), <<>>)
                \/ DropLoop(t, call, k, size, RbDrop(q, HdrSize), <<>>)
  <2>1. PICK size \in SizesIn(q) :
               \/ RecvLoop(t, call, k, size, RbDrop(q, HdrSize), <<>>)
               \/ DropLoop(t, call, k, size, RbDrop(q, HdrSize), <<>>)
    BY <1>3
  <2>2. size \in Nat
    BY <1>1, <1>3, SizesType, RingFacts
  <2>3. RbDrop(q, HdrSize) \in Rings /\ Len(RbDrop(q, HdrSize)) <= Len(q)
    BY <1>1, DropShortens
  <2>4. <<>> \in Seq(CellSet) /\ Len(<<>>) <= size
    BY <2>2, EmptySeq
  <2> QED
    BY <2>1, <2>2, <2>3, <2>4, LoopsKeep
<1> QED
  BY <1>2, <1>3 DEF RecvHeader, DropHeader

LEMMA ReceivesKeep ==
  ASSUME TypeOK, NEW t \in Threads, Recvs(t) \/ Drops(t)
  PROVE  KeepsClosed
<1> DEFINE f == th[t]
           q == files[f.call.c][f.rb]
<1>0. f.pc # "idle" =>
        /\ f.call \in Calls /\ f.call.c \in Chans /\ f.rb \in BOOLEAN
        /\ f.size \in Nat /\ f.out \in Seq(CellSet) /\ Len(f.out) <= f.size
        /\ q \in Rings /\ Len(q) \in Nat /\ InFile(t, f.call.c) \in BOOLEAN
  BY FrameFacts, RingFacts DEF TypeOK, FilesOK, InFile
<1>1. CASE UNCHANGED files
  BY <1>1, UnchangedKeeps DEF TypeOK
<1>2. CASE RecvSync(t) \/ RecvSynced(t) \/ DropSync(t) \/ DropSynced(t)
  <2>1. f.pc # "idle"
    BY <1>2 DEF RecvSync, RecvSynced, DropSync, DropSynced, At
  <2>2. \/ UNCHANGED files
        \/ RecvHeader(t, f.call, InFile(t, f.call.c))
        \/ DropHeader(t, f.call, InFile(t, f.call.c))
    BY <1>2 DEF RecvSync, RecvSynced, DropSync, DropSynced, RecvBody, Synchronize
  <2> QED
    BY <1>0, <1>1, <2>1, <2>2, HeadersKeep
<1>3. CASE RecvMsgCall(t)
  <2>1. PICK call \in NextCalls(t) : RecvHeader(t, call, InFile(t, call.c))
    BY <1>3 DEF RecvMsgCall
  <2>2. call \in Calls /\ InFile(t, call.c) \in BOOLEAN
    BY NextCallsType DEF InFile
  <2> QED
    BY <2>1, <2>2, HeadersKeep
<1>4. CASE RecvHeaderAgain(t) \/ DropHeaderAgain(t)
  BY <1>0, <1>4, HeadersKeep DEF RecvHeaderAgain, DropHeaderAgain, At
<1>5. CASE RecvResume(t) \/ DropResume(t)
  BY <1>0, <1>5, LoopsKeep DEF RecvResume, DropResume, At
<1>6. CASE RecvGot(t)
  <2>1. f.pc # "idle"
    BY <1>6 DEF RecvGot, At
  <2>2. UNCHANGED files \/ RecvLoop(t, f.call, f.rb, f.size, q, f.out)
    BY <1>6 DEF RecvGot, Taken
  <2> QED
    BY <1>0, <1>1, <2>1, <2>2, LoopsKeep
<1>7. CASE DropDropped(t)
  <2>1. f.pc # "idle"
    BY <1>7 DEF DropDropped, At
  <2>2. UNCHANGED files \/ Put(f.call.c, f.rb, q)
    BY <1>7 DEF DropDropped, Taken, DropWait
  <2> QED
    BY <1>0, <1>1, <2>1, <2>2, ShorterKeeps DEF TypeOK
<1> QED
  BY <1>2, <1>3, <1>4, <1>5, <1>6, <1>7 DEF Recvs, Drops

LEMMA TriesKeep ==
  ASSUME TypeOK, NEW t \in Threads, Tries(t)
  PROVE  KeepsClosed
<1> DEFINE f == th[t]
           c == f.call.c
<1>0. HdrSize \in Nat /\ 1 \in Nat /\ FilesOK
  BY ChannelAssumption DEF TypeOK
<1>1. CASE TrySend(t)
  <2> DEFINE k == OutFile(t, c)
             q == files[c][k]
             m == Message(t, f.call)
             headed == RbAdd(q, Header(m))
             full == RbAdd(headed, Payload(m))
  <2>1. c \in Chans /\ k \in BOOLEAN /\ f.call \in Calls
    BY <1>1, FrameFacts DEF TrySend, At, TypeOK, OutFile
  <2>2. m \in Messages /\ m.size \in Nat /\ q \in Rings /\ Len(q) \in Nat
    BY <1>0, <2>1, MessageType, RingFacts DEF TypeOK, FilesOK, Calls
  <2>3. Header(m) \in Seq(CellSet) /\ Payload(m) \in Seq(CellSet)
    BY <1>0, <2>2, CellsType DEF Header, Payload
  <2>4. headed \in Rings /\ Len(q) <= Len(headed) /\ NotLate(headed, Len(q))
    <3>1. NotLate(q, Len(q))
      BY <2>2, ShorterNotLate
    <3>2. \A j \in 1..Len(Header(m)) : ~IsLatePayload(Header(m)[j])
      BY <2>2, HeaderNotLate
    <3> QED
      BY <2>2, <2>3, <3>1, <3>2, AddNotLate, SMTT(20)
  <2>5. NotLate(full, Len(q))
    <3>1. \A j \in 1..Len(Payload(m)) : ~IsLatePayload(Payload(m)[j])
      <4>1. m.from = t /\ th[t].pc = "try_send"
        BY <1>1 DEF TrySend, At, Message
      <4>2. Len(Payload(m)) = m.size
        BY <1>0, <2>2, CellsType DEF Payload
      <4>3. \A j \in 1..m.size : Payload(m)[j].msg = m
        BY DEF Payload, Cells
      <4> QED
        BY <4>1, <4>2, <4>3 DEF IsLatePayload
    <3> QED
      BY <2>2, <2>3, <2>4, <3>1, AddNotLate
  <2>6. NotLate(RbDrop(headed, 1), Len(q))
    BY <1>0, <2>2, <2>4, DropNotLate
  <2>7. UNCHANGED files \/ Put(c, k, full) \/ Put(c, k, RbDrop(headed, 1))
    BY <1>1 DEF TrySend
  <2> QED
    BY <1>0, <2>1, <2>5, <2>6, <2>7, UnchangedKeeps, PutKeeps
<1>2. CASE TryRecv(t)
  <2> DEFINE q == files[c][f.rb]
             hdr == RbGet(q, HdrSize)
             data == RbGet(RbDrop(q, HdrSize), Len(hdr))
  <2>1. c \in Chans /\ f.rb \in BOOLEAN
    BY <1>2, FrameFacts DEF TryRecv, At, TypeOK
  <2>2. q \in Rings
    BY <2>1 DEF TypeOK, FilesOK
  <2>3. hdr \in Seq(CellSet) /\ Len(hdr) \in Nat
    BY <1>0, <2>2, RingFacts, GetAndDrop, LenProperties
  <2>4. data \in Seq(CellSet) /\ Len(data) \in Nat
    BY <1>0, <2>2, <2>3, DropType, RingFacts, GetAndDrop, LenProperties
  <2>5. Len(hdr \o data) \in Nat
    BY <2>3, <2>4, ConcatProperties
  <2>6. Put(c, f.rb, RbDrop(q, Len(hdr \o data)))
    BY <1>2 DEF TryRecv
  <2> QED
    BY <1>0, <2>1, <2>2, <2>5, <2>6, DropShortens, ShorterKeeps
<1> QED
  BY <1>1, <1>2 DEF Tries

LEMMA RestKeeps ==
  ASSUME TypeOK, NEW t \in Threads, Enter(t) \/ Manages(t) \/ Lives(t)
  PROVE  KeepsClosed
<1>1. CASE UNCHANGED files
  BY <1>1, UnchangedKeeps DEF TypeOK
<1>2. CASE Make(t)
  <2>1. PICK call \in NextCalls(t) : files' = [files EXCEPT ![call.c] = NewFiles]
    BY <1>2 DEF Make
  <2>2. ASSUME NEW c \in Chans, NEW k \in BOOLEAN
        PROVE  NotLate(files'[c][k], Len(files[c][k]))
    <3>1. files[c][k] \in Rings /\ Len(files[c][k]) \in Nat
      BY RingFacts DEF TypeOK, FilesOK
    <3>2. NewFiles[k] \in Rings /\ NewFiles[k] = <<>> /\ Len(<<>>) = 0
      BY NewFilesType, EmptySeq DEF NewFiles
    <3>3. files'[c][k] = files[c][k] \/ files'[c][k] = NewFiles[k]
      BY <2>1 DEF TypeOK, FilesOK
    <3> QED
      BY <3>1, <3>2, <3>3, ShorterNotLate
  <2> QED
    BY <2>2 DEF KeepsClosed
<1>3. UNCHANGED files \/ Make(t)
  BY DEF Enter, Manages, FlagsLoad, FlagsStore, SetOwner, Lives, Go, Kill, Sleep, Timer, Spin, Exit
<1> QED
  BY <1>1, <1>2, <1>3

--------------------------------------------------------------------------------
\* No payload enters a closed channel, in any program: a sender asleep in its data
\* loop, or past the first test for closed, stops at the test of the loop
\* (csp.c:207); only the one message of a channel_try_send that had passed its only
\* test (csp.c:264) may follow the close.
THEOREM ClosedStaysDry == Spec => ClosedTakesNoPayload
<1>1. TypeOK /\ [Next]_vars => [KeepsClosed]_vars
  <2> SUFFICES ASSUME TypeOK, [Next]_vars, ~UNCHANGED vars PROVE KeepsClosed
    OBVIOUS
  <2>1. PICK t \in Threads : Step(t)
    BY DEF Next, Ended
  <2> QED
    BY <2>1, SendsKeep, ReceivesKeep, TriesKeep, RestKeeps DEF Step
<1>2. [KeepsClosed]_vars =>
        [\A c \in Chans, k \in BOOLEAN :
           Closed(c) /\ Len(files'[c][k]) > Len(files[c][k]) =>
             \A i \in Len(files[c][k]) + 1..Len(files'[c][k]) :
               ~IsLatePayload(files'[c][k][i])]_vars
  BY DEF KeepsClosed, NotLate
<1> QED
  BY <1>1, <1>2, TypeCorrect, PTL DEF Spec, ClosedTakesNoPayload

================================================================================
