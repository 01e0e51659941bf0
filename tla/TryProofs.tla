-------------------------------- MODULE TryProofs --------------------------------
(******************************************************************************)
(* Messages of one word, the only ones the try operations take whole: then    *)
(* every step moves a whole message, and any number of threads may send, try  *)
(* and select on a channel that one thread receives from.                     *)
(******************************************************************************)
EXTENDS IntegrityProofs

--------------------------------------------------------------------------------
(* The programs *)

\* A message of one word with its header, and the lengths that are multiples of it.
Pair == 2 * HdrSize
Pairs == {Pair * i : i \in Nat}

\* A full ring has no room for a header alone.  rb_avail tells the try operations
\* what is free only in the default build.
PairsFit == BufSize \in Pairs /\ Tsrb = FALSE

\* No thread sends anything but one word, or calls without data; channels are made
\* before they are shared and stay open; nobody is killed in the middle of a message.
WordCalls ==
  \A t \in Threads : \A call \in OwnCalls(t) :
    /\ call.op \in SendOps \cup {"try_send"} =>
         call.n = HdrSize \/ (call.n = 0 /\ call.op # "send_msg")
    /\ call.op \notin {"close", "make", "kill"}

\* A thread that blocks in a receive or a drop is the only one that takes from the
\* channel; where all only try, there may be several.
OneTaker ==
  \A c \in Chans, t, u \in Threads :
    MayCall(t, c, TakeOps) /\ MayCall(u, c, ReceiveOps) => t = u

OneWord == PairsFit /\ WordCalls /\ OneTaker

--------------------------------------------------------------------------------
(* The invariant *)

\* Nobody ever waits in the middle of a message.
Placed(t) ==
  /\ th[t].pc \notin {"send_loop", "recv_loop", "drop_loop"}
  /\ th[t].pc = "send_sent" => th[t].bytes = th[t].call.n
  /\ th[t].pc \in ReadPcs => Complete(th[t])
  /\ th[t].pc \in {"send_hdr", "try_send"} => th[t].call.n = HdrSize
  /\ th[t].pc \in TryPcs => th[t].call.op = th[t].pc
  /\ th[t].pc = "flags" => "closed" \notin th[t].flags
GoneIdle == \A t \in Threads : Gone(t) => th[t].pc = "idle"
AllOpen == \A c \in Chans : ~Closed(c)
Places == GoneIdle /\ AllOpen /\ \A t \in Threads : Placed(t)

\* A file holds whole messages; the one a receiver has in its hands is the next.
WholeFile(c, k) ==
  /\ Len(files[c][k]) \in Pairs
  /\ \A i \in 1..Len(sent[c][k]) : sent[c][k][i].size = HdrSize
  /\ \E took : Stream(files[c][k], sent[c][k], rcvd[c][k], 0, took) /\ Takes(c, k, took)
WholeFiles == \A c \in Chans, k \in BOOLEAN : WholeFile(c, k)

WordBase == TypeOK /\ InProgram /\ Places

--------------------------------------------------------------------------------
(* One message *)

LEMMA PairFacts ==
  ASSUME NEW a \in Pairs, NEW b \in Pairs
  PROVE  /\ a \in Nat /\ a \in Words
         /\ a + Pair \in Pairs
         /\ b <= a => a - b \in Pairs
         /\ a # 0 => a >= Pair
<1>1. HdrSize \in Nat \ {0}
  BY ChannelAssumption
<1>2. PICK w \in Nat : w = Pair /\ w = 2 * HdrSize /\ w > HdrSize
  BY <1>1 DEF Pair
<1>3. PICK i \in Nat, j \in Nat : a = w * i /\ b = w * j
  BY <1>2 DEF Pairs
<1>4. a \in Nat /\ b \in Nat /\ w > 0
  BY <1>1, <1>2, <1>3
<1>5. a \in Words
  <2>1. a = HdrSize * (2 * i) /\ 2 * i \in Nat
    BY <1>1, <1>2, <1>3
  <2> QED
    BY <2>1 DEF Words
<1>6. a + w \in Pairs
  <2>1. a + w = w * (i + 1) /\ i + 1 \in Nat
    BY <1>3
  <2> QED
    BY <1>2, <2>1 DEF Pairs
<1>7. ASSUME b <= a PROVE a - b \in Pairs
  <2>1. a - b = w * (i - j)
    BY <1>3
  <2>2. i - j \in Nat
    <3>1. CASE i < j
      <4>1. w * (i - j) < 0
        BY <1>4, <3>1
      <4> QED
        BY <1>4, <1>7, <2>1, <4>1
    <3> QED
      BY <3>1
  <2> QED
    BY <1>2, <2>1, <2>2 DEF Pairs
<1>8. a # 0 => a >= w
  <2>1. CASE i = 0
    BY <1>3, <2>1
  <2>2. CASE i >= 1
    BY <1>3, <1>4, <2>2
  <2> QED
    BY <2>1, <2>2
<1> QED
  BY <1>2, <1>4, <1>5, <1>6, <1>7, <1>8

LEMMA PairOfWords == 0 \in Pairs /\ Pair \in Pairs /\ Pair \in Words /\ Pair = HdrSize + HdrSize
<1>1. HdrSize \in Nat \ {0}
  BY ChannelAssumption
<1>2. Pair = HdrSize + HdrSize /\ Pair \in Nat
  BY <1>1 DEF Pair
<1>3. 0 \in Pairs /\ Pair \in Pairs
  <2>1. 0 = Pair * 0 /\ Pair = Pair * 1
    BY <1>2
  <2> QED
    BY <2>1 DEF Pairs
<1> QED
  BY <1>2, <1>3, PairFacts

\* There is room for a whole message or none.
LEMMA PairsOfRoom ==
  ASSUME PairsFit, NEW q \in Rings, Len(q) \in Pairs
  PROVE  RbFree(q) \in Pairs /\ (RbFree(q) >= Pair \/ RbFree(q) = 0)
<1>1. Len(q) <= BufSize /\ BufSize \in Pairs
  BY RingFacts DEF PairsFit
<1> QED
  BY <1>1, PairFacts DEF RbFree

\* A message of one word goes in at once.
LEMMA WordGoesIn ==
  ASSUME PairsFit, NEW q \in Rings, Len(q) \in Pairs, RbFree(q) # 0,
         NEW s \in Seq(Messages), NEW d \in Seq(Seq(CellSet)), NEW took, Stream(q, s, d, 0, took),
         NEW m \in Messages, m.size = HdrSize
  PROVE  LET headed == RbAdd(q, Header(m))
             full == RbAdd(headed, Rest(m, 0))
         IN  /\ headed \in Rings /\ RbFree(headed) \in Nat /\ RbFree(headed) >= HdrSize
             /\ Len(Rest(m, 0)) = HdrSize /\ Rest(m, 0) = Payload(m)
             /\ full \in Rings /\ Len(full) = Len(headed) + HdrSize /\ Len(full) \in Pairs
             /\ Stream(full, Append(s, m), d, 0, took)
<1> DEFINE headed == RbAdd(q, Header(m))
           full == RbAdd(headed, Rest(m, 0))
           z == Append(s, m)
<1>1. /\ HdrSize \in Nat \ {0} /\ Pair = HdrSize + HdrSize /\ m.size \in Words /\ BufSize \in Words
      /\ BufSize \in Nat
  BY ChannelAssumption, HeaderIsWord, PairOfWords, PairFacts DEF PairsFit
<1>2. RbFree(q) >= Pair /\ RbFree(q) \in Nat
  BY PairsOfRoom, PairFacts
<1>3. Header(m) \in Seq(CellSet) /\ Len(Header(m)) = HdrSize
  BY HeaderCells
<1>4. headed \in Rings /\ Len(headed) = Len(q) + HdrSize /\ Len(q) \in Nat
  <2>1. /\ headed \in Seq(CellSet) /\ Len(headed) = Len(q) + Least(HdrSize, RbFree(q))
        /\ Len(headed) <= BufSize
    BY <1>3, RingFacts, AddFits
  <2>2. Least(HdrSize, RbFree(q)) = HdrSize
    BY <1>1, <1>2 DEF Least
  <2> QED
    BY <2>1, <2>2, RingFacts DEF Rings
<1>5. RbFree(headed) = RbFree(q) - HdrSize
  <2> HIDE DEF headed
  <2> QED
    BY <1>1, <1>4 DEF RbFree
<1>6. Rest(m, 0) = Payload(m) /\ Len(Rest(m, 0)) = HdrSize /\ Rest(m, 0) \in Seq(CellSet)
  <2>1. HdrSize + 0 = HdrSize /\ m.size - 0 = m.size
    BY <1>1
  <2>2. Rest(m, 0) = Cells(m, HdrSize, m.size)
    BY <2>1 DEF Rest
  <2> QED
    BY <1>1, <2>2, CellsType DEF Payload
<1>7. full \in Rings /\ Len(full) = Len(headed) + HdrSize
  <2> HIDE DEF headed
  <2>1. /\ full \in Seq(CellSet) /\ Len(full) = Len(headed) + Least(HdrSize, RbFree(headed))
        /\ Len(full) <= BufSize
    BY <1>4, <1>6, RingFacts, AddFits
  <2>2. Least(HdrSize, RbFree(headed)) = HdrSize
    BY <1>1, <1>2, <1>5 DEF Least
  <2> QED
    BY <2>1, <2>2 DEF Rings
<1>8. Len(full) \in Pairs
  <2>1. Len(q) + Pair \in Pairs
    BY PairFacts
  <2> HIDE DEF headed, full
  <2>2. Len(full) = Len(q) + Pair
    BY <1>1, <1>4, <1>7
  <2> QED
    BY <2>1, <2>2
<1>9. Stream(headed, z, d, HdrSize, took)
  <2>1. RbFree(q) >= HdrSize
    BY <1>1, <1>2
  <2> QED
    BY <1>1, <2>1, HeaderGoesIn
<1>10. Stream(full, z, d, 0, took)
  <2>1. z \in Seq(Messages) /\ Len(z) > 0 /\ z[Len(z)] = m
    <3>1. z \in Seq(Messages) /\ Len(z) = Len(s) + 1 /\ z[Len(s) + 1] = m
      BY AppendProperties
    <3> QED
      BY <3>1, LenProperties
  <2>2. 0 \in Nat /\ 0 + HdrSize = m.size
    BY <1>1
  <2> HIDE DEF headed, z
  <2>3. Stream(RbAdd(headed, Rest(z[Len(z)], 0)), z, d, HdrSize - Least(RbFree(headed), HdrSize), took)
    BY <1>1, <1>4, <1>9, <2>1, <2>2, DataGoesIn
  <2>4. HdrSize - Least(RbFree(headed), HdrSize) = 0
    BY <1>1, <1>2, <1>5 DEF Least
  <2> QED
    BY <2>1, <2>3, <2>4
<1>11. RbFree(headed) \in Nat /\ RbFree(headed) >= HdrSize
  <2> HIDE DEF headed
  <2> QED
    BY <1>1, <1>2, <1>5
<1> QED
  BY <1>4, <1>6, <1>7, <1>8, <1>10, <1>11

\* The first of the data comes out behind a header.
LEMMA DataComesOut ==
  ASSUME NEW q \in Rings, NEW s \in Seq(Messages), NEW d \in Seq(Seq(CellSet)),
         NEW owed, Stream(q, s, d, owed, HdrSize), Len(d) < Len(s),
         s[Len(d) + 1] \in Messages
  PROVE  LET chunk == RbGet(q, s[Len(d) + 1].size)
         IN  /\ chunk = Cells(s[Len(d) + 1], HdrSize, Len(chunk))
             /\ Stream(RbDrop(q, Len(chunk)), s, d, owed, HdrSize + Len(chunk))
<1> DEFINE m == s[Len(d) + 1]
<1>1. HdrSize \in Nat
  BY ChannelAssumption
<1>2. PICK none \in Seq(CellSet) : none = <<>> /\ none = Cells(m, HdrSize, 0)
  <2> HIDE DEF m
  <2>1. Cells(m, HdrSize, 0) \in Seq(CellSet) /\ Len(Cells(m, HdrSize, 0)) = 0
    BY <1>1, CellsType DEF m
  <2> QED
    BY <2>1, EmptySeq
<1>3. PICK size \in Nat : size = m.size
  BY DEF Messages
<1>4. Len(none) = 0 /\ none = Cells(m, HdrSize, Len(none)) /\ HdrSize + Len(none) = HdrSize
  BY <1>1, <1>2
<1>5. Stream(q, s, d, owed, HdrSize + Len(none)) /\ Len(none) <= size
  BY <1>3, <1>4
<1>6. LET chunk == RbGet(q, size - Len(none))
          more == none \o chunk
      IN  /\ more = Cells(m, HdrSize, Len(more))
          /\ Stream(RbDrop(q, Len(chunk)), s, d, owed, HdrSize + Len(more))
  BY <1>3, <1>4, <1>5, ChunkComesOut, ZenonT(40)
<1>7. PICK chunk \in Seq(CellSet) : chunk = RbGet(q, size)
  BY RingFacts, GetAndDrop
<1>8. none \o chunk = chunk /\ size - Len(none) = size
  BY <1>2, <1>4
<1> QED
  BY <1>3, <1>6, <1>7, <1>8

\* A message of one word comes out at once, header first or, of channel_try_recv,
\* with its header.
LEMMA WordComesOut ==
  ASSUME NEW q \in Rings, Len(q) \in Pairs, Len(q) # 0,
         NEW s \in Seq(Messages), NEW d \in Seq(Seq(CellSet)), Stream(q, s, d, 0, 0),
         \A i \in 1..Len(s) : s[i].size = HdrSize
  PROVE  LET rest == RbDrop(q, HdrSize)
             chunk == RbGet(rest, HdrSize)
         IN  /\ Len(q) >= Pair /\ SizesIn(q) = {HdrSize}
             /\ Len(d) < Len(s) /\ s[Len(d) + 1] \in Messages /\ s[Len(d) + 1].size = HdrSize
             /\ rest \in Rings /\ chunk \in Seq(CellSet) /\ Len(chunk) = HdrSize
             /\ chunk = Payload(s[Len(d) + 1])
             /\ RbDrop(rest, HdrSize) \in Rings /\ Len(RbDrop(rest, HdrSize)) \in Pairs
             /\ Stream(RbDrop(rest, HdrSize), s, d, 0, Pair)
             /\ RbDrop(q, Pair) \in Rings /\ Len(RbDrop(q, Pair)) \in Pairs
             /\ Stream(RbDrop(q, Pair), s, d, 0, Pair)
<1> DEFINE rest == RbDrop(q, HdrSize)
           chunk == RbGet(rest, HdrSize)
           left == RbDrop(rest, HdrSize)
           m == s[Len(d) + 1]
<1>1. /\ HdrSize \in Nat \ {0} /\ Pair = HdrSize + HdrSize /\ Pair \in Nat /\ Pair \in Words
      /\ Pair \in Pairs
  BY ChannelAssumption, PairOfWords
<1>2. Len(q) >= Pair /\ Len(q) \in Nat /\ Len(q) - Pair \in Pairs
  BY <1>1, PairFacts
<1>3. Len(d) < Len(s) /\ SizesIn(q) = {m.size} /\ Stream(rest, s, d, 0, HdrSize)
  <2>1. Len(q) >= HdrSize
    BY <1>1, <1>2
  <2> QED
    BY <2>1, HeaderComesOut
<1>4. m \in Messages /\ m.size = HdrSize
  <2>1. Len(d) + 1 \in 1..Len(s)
    BY <1>3, LenProperties
  <2> QED
    BY <2>1, ElementOfSeq
<1>5. rest \in Rings /\ rest \in Seq(CellSet) /\ Len(rest) = Len(q) - HdrSize
  <2>1. rest \in Rings /\ Len(rest) = Len(q) - Least(HdrSize, Len(q))
    BY <1>1, DropType, RingFacts, GetAndDrop
  <2>2. Least(HdrSize, Len(q)) = HdrSize
    BY <1>1, <1>2 DEF Least
  <2> QED
    BY <2>1, <2>2, RingFacts
<1>6. /\ chunk \in Seq(CellSet) /\ Len(chunk) = HdrSize
      /\ left \in Rings /\ Len(left) = Len(rest) - HdrSize
  <2> HIDE DEF rest
  <2>1. Least(HdrSize, Len(rest)) = HdrSize
    BY <1>1, <1>2, <1>5 DEF Least
  <2>2. chunk \in Seq(CellSet) /\ Len(chunk) = Least(HdrSize, Len(rest))
    BY <1>1, <1>5, GetAndDrop
  <2>3. left \in Rings /\ Len(left) = Len(rest) - Least(HdrSize, Len(rest))
    BY <1>1, <1>5, DropType, GetAndDrop
  <2> QED
    BY <2>1, <2>2, <2>3
<1>7. chunk = Payload(m) /\ Stream(left, s, d, 0, Pair)
  <2> HIDE DEF rest
  <2>1. rest \in Rings /\ m.size \in Nat
    BY <1>1, <1>4, <1>5
  <2>2. LET piece == RbGet(rest, m.size)
        IN  /\ piece = Cells(m, HdrSize, Len(piece))
            /\ Stream(RbDrop(rest, Len(piece)), s, d, 0, HdrSize + Len(piece))
    BY <1>3, <2>1, DataComesOut
  <2>3. RbGet(rest, m.size) = chunk
    BY <1>4
  <2>4. /\ chunk = Cells(m, HdrSize, Len(chunk))
        /\ Stream(RbDrop(rest, Len(chunk)), s, d, 0, HdrSize + Len(chunk))
    <3> HIDE DEF chunk, m
    <3> QED
      BY <2>2, <2>3
  <2>5. chunk = Cells(m, HdrSize, m.size)
    BY <1>4, <1>6, <2>4
  <2> QED
    BY <1>1, <1>6, <2>4, <2>5 DEF Payload
<1>8. Len(left) \in Pairs
  <2> HIDE DEF left, rest
  <2>1. Len(left) = Len(q) - Pair
    BY <1>1, <1>2, <1>5, <1>6
  <2> QED
    BY <1>2, <2>1
<1>9. RbDrop(q, Pair) \in Rings /\ Len(RbDrop(q, Pair)) \in Pairs /\ Stream(RbDrop(q, Pair), s, d, 0, Pair)
  <2>1. RbDrop(q, Pair) \in Rings /\ Len(RbDrop(q, Pair)) = Len(q) - Least(Pair, Len(q))
    BY <1>1, DropType, RingFacts, GetAndDrop
  <2>2. Least(Pair, Len(q)) = Pair
    BY <1>1, <1>2 DEF Least
  <2>3. Stream(RbDrop(q, Pair), s, d, 0, 0 + Pair)
    BY <1>1, <1>2, BytesComeOut
  <2>4. 0 + Pair = Pair
    BY <1>1
  <2> QED
    BY <1>2, <2>1, <2>2, <2>3, <2>4
<1> QED
  BY <1>2, <1>3, <1>4, <1>5, <1>6, <1>7, <1>8, <1>9

\* The message in a receiver's hands is the caller's.
LEMMA WordIsOut ==
  ASSUME NEW q \in Rings, NEW s \in Seq(Messages), NEW d \in Seq(Seq(CellSet)),
         Len(d) < Len(s), s[Len(d) + 1].size = HdrSize, Stream(q, s, d, 0, Pair)
  PROVE  Stream(q, s, Append(d, Payload(s[Len(d) + 1])), 0, 0)
<1>1. Pair = HdrSize + s[Len(d) + 1].size
  BY PairOfWords
<1> QED
  BY <1>1, MessageIsOut

--------------------------------------------------------------------------------
(* What a step leaves alone *)

\* The files of c and k and what is in hands are as they were, or t put a message in.
LEMMA TakesStay ==
  ASSUME NEW c \in Chans, NEW k \in BOOLEAN, HistoryOK, NEW took, Takes(c, k, took),
         \A u \in Threads : th'[u] = th[u] \/ (~Reading(u, c, k) /\ ~Reading(u, c, k)'),
         rcvd'[c][k] = rcvd[c][k],
         sent'[c][k] = sent[c][k] \/ \E m \in Messages : sent'[c][k] = Append(sent[c][k], m)
  PROVE  Takes(c, k, took)'
<1> DEFINE s == sent[c][k]
           r == Len(rcvd[c][k])
<1>0. s \in Seq(Messages) /\ r \in Nat
  BY LenProperties DEF HistoryOK
<1>1. /\ Len(sent'[c][k]) \in Nat /\ Len(sent'[c][k]) >= Len(s)
      /\ \A i \in 1..Len(s) : sent'[c][k][i] = s[i]
  <2>1. CASE \E m \in Messages : sent'[c][k] = Append(s, m)
    <3>1. PICK m \in Messages : sent'[c][k] = Append(s, m)
      BY <2>1
    <3> HIDE DEF s
    <3> QED
      BY <1>0, <3>1, AppendProperties
  <2> QED
    BY <1>0, <2>1
<1>2. ASSUME NEW u \in Threads, Reading(u, c, k)' PROVE Holds(u, c, k, took)'
  <2>1. th'[u] = th[u] /\ Reading(u, c, k)
    BY <1>2 DEF Reading
  <2>2. Holds(u, c, k, took)
    BY <2>1 DEF Takes
  <2>3. r + 1 \in 1..Len(s) /\ r < Len(sent'[c][k])
    <3>1. r < Len(s)
      BY <2>2 DEF Holds
    <3> HIDE DEF r, s
    <3> QED
      BY <1>0, <1>1, <3>1, LenProperties
  <2>4. sent'[c][k][r + 1] = s[r + 1]
    BY <1>1, <2>3
  <2> HIDE DEF s
  <2> QED
    BY <2>1, <2>2, <2>3, <2>4 DEF Holds, s
<1>3. (\A u \in Threads : ~Reading(u, c, k)') => took = 0
  <2> SUFFICES ASSUME \A u \in Threads : ~Reading(u, c, k)' PROVE \A u \in Threads : ~Reading(u, c, k)
    BY DEF Takes
  <2> QED
    BY DEF Reading
<1> QED
  BY <1>2, <1>3 DEF Takes

LEMMA FileStays ==
  ASSUME TypeOK, NEW c \in Chans, NEW k \in BOOLEAN, WholeFile(c, k), SameFile(c, k),
         \A u \in Threads : th'[u] = th[u] \/ (~Reading(u, c, k) /\ ~Reading(u, c, k)')
  PROVE  WholeFile(c, k)'
<1>1. PICK took : Stream(files[c][k], sent[c][k], rcvd[c][k], 0, took) /\ Takes(c, k, took)
  BY DEF WholeFile
<1>2. Takes(c, k, took)'
  BY <1>1, TakesStay DEF TypeOK, SameFile
<1> QED
  BY <1>1, <1>2 DEF WholeFile, SameFile

\* The other threads of a step that is not the start of a process keep their frames.
Untouched(t) == \A u \in Threads \ {t} : th'[u] = th[u]

\* t works on one file, or none.
LEMMA OneFileStep ==
  ASSUME TypeOK, WholeFiles, NEW t \in Threads, NEW c \in Chans, NEW k \in BOOLEAN, Untouched(t),
         \A d \in Chans, l \in BOOLEAN : d # c \/ l # k =>
           SameFile(d, l) /\ ~Reading(t, d, l) /\ ~Reading(t, d, l)',
         WholeFile(c, k)'
  PROVE  WholeFiles'
<1>1. ASSUME NEW d \in Chans, NEW l \in BOOLEAN, d # c \/ l # k PROVE WholeFile(d, l)'
  BY <1>1, FileStays DEF WholeFiles, Untouched
<1> QED
  BY <1>1 DEF WholeFiles

LEMMA NoFileStep ==
  ASSUME TypeOK, WholeFiles, UNCHANGED <<files, sent, rcvd>>,
         \A u \in Threads : th'[u] = th[u] \/ (th[u].pc \notin ReadPcs /\ th'[u].pc \notin ReadPcs)
  PROVE  WholeFiles'
<1> SUFFICES ASSUME NEW c \in Chans, NEW k \in BOOLEAN PROVE WholeFile(c, k)'
  BY DEF WholeFiles
<1> QED
  BY FileStays DEF WholeFiles, SameFile, Reading

--------------------------------------------------------------------------------
(* Sends and receives *)

LEMMA WholeFacts ==
  ASSUME OneWord, WordBase, WholeFiles, NEW c \in Chans, NEW k \in BOOLEAN
  PROVE  /\ HdrSize \in Nat \ {0} /\ ThreadsOK /\ HistoryOK /\ FilesOK /\ PairsFit
         /\ files[c][k] \in Rings /\ sent[c][k] \in Seq(Messages) /\ rcvd[c][k] \in Seq(Seq(CellSet))
         /\ WholeFile(c, k) /\ ~Closed(c)
BY ChannelAssumption DEF WordBase, TypeOK, FilesOK, HistoryOK, WholeFiles, Places, AllOpen, OneWord

\* Only a thread in a blocking receive or drop has a message in its hands.
LEMMA WhoReads ==
  ASSUME InProgram, NEW u \in Threads, NEW c \in Chans, NEW k \in BOOLEAN, Reading(u, c, k)
  PROVE  MayCall(u, c, TakeOps)
<1>1. th[u].pc \in ReadPcs /\ th[u].call.c = c /\ th[u].pc # "idle"
  BY DEF Reading, ReadPcs
<1>2. th[u].call \in OwnCalls(u) /\ th[u].pc \in PcsOf(th[u].call.op)
  BY <1>1 DEF InProgram
<1>3. th[u].call.op \in TakeOps
  BY <1>1, <1>2 DEF PcsOf, SendPcs, ReadPcs, TakeOps
<1> QED
  BY <1>1, <1>2, <1>3 DEF MayCall

\* So there is none while a thread takes from the channel.
LEMMA NobodyReads ==
  ASSUME OneWord, InProgram, NEW t \in Threads, NEW call \in OwnCalls(t), call.op \in ReceiveOps,
         NEW u \in Threads, u # t, NEW k \in BOOLEAN
  PROVE  ~Reading(u, call.c, k)
<1>1. call.c \in Chans /\ MayCall(t, call.c, ReceiveOps)
  BY DEF OwnCalls, Calls, MayCall
<1> QED
  BY <1>1, WhoReads DEF OneWord, OneTaker

\* The message and its header go into the file in one step.
Inserts(t, c, k, m) ==
  LET headed == RbAdd(files[c][k], Header(m))
  IN  /\ RbFree(files[c][k]) # 0
      /\ files' = [files EXCEPT ![c][k] = RbAdd(headed, Rest(m, 0))]
      /\ sent' = Noted(sent, c, k, m) /\ rcvd' = rcvd

LEMMA InsertStep ==
  ASSUME OneWord, WordBase, WholeFiles, NEW t \in Threads, NEW c \in Chans, NEW k \in BOOLEAN,
         NEW m \in Messages, m.size = HdrSize, Inserts(t, c, k, m), Untouched(t),
         th[t].pc \notin ReadPcs, th'[t].pc \notin ReadPcs
  PROVE  WholeFiles'
<1> DEFINE q == files[c][k]
           s == sent[c][k]
           d == rcvd[c][k]
           full == RbAdd(RbAdd(q, Header(m)), Rest(m, 0))
<1>0. /\ PairsFit /\ TypeOK /\ HistoryOK /\ FilesOK
      /\ q \in Rings /\ s \in Seq(Messages) /\ d \in Seq(Seq(CellSet))
      /\ Len(q) \in Pairs /\ \A i \in 1..Len(s) : s[i].size = HdrSize
  BY WholeFacts DEF WholeFile, WordBase
<1>1. PICK took : Stream(q, s, d, 0, took) /\ Takes(c, k, took)
  BY WholeFacts DEF WholeFile
<1>2. Len(full) \in Pairs /\ Stream(full, Append(s, m), d, 0, took)
  BY <1>0, <1>1, WordGoesIn DEF Inserts
<1>3. /\ files'[c][k] = full /\ sent'[c][k] = Append(s, m) /\ rcvd' = rcvd
      /\ \A e \in Chans, l \in BOOLEAN : e # c \/ l # k => SameFile(e, l)
  BY <1>0 DEF Inserts, Noted, FilesOK, HistoryOK, SameFile
<1>4. \A i \in 1..Len(Append(s, m)) : Append(s, m)[i].size = HdrSize
  <2>1. Len(Append(s, m)) = Len(s) + 1 /\ Append(s, m)[Len(s) + 1] = m
        /\ \A i \in 1..Len(s) : Append(s, m)[i] = s[i]
    BY <1>0, AppendProperties
  <2> HIDE DEF s
  <2> QED
    BY <1>0, <2>1, LenProperties
<1>5. \A u \in Threads, e \in Chans, l \in BOOLEAN :
        th'[u] = th[u] \/ (~Reading(u, e, l) /\ ~Reading(u, e, l)')
  BY DEF Untouched, Reading
<1>6. Takes(c, k, took)'
  BY <1>0, <1>1, <1>3, <1>5, TakesStay
<1>7. WholeFile(c, k)'
  BY <1>2, <1>3, <1>4, <1>6 DEF WholeFile
<1>8. \A e \in Chans, l \in BOOLEAN : ~Reading(t, e, l) /\ ~Reading(t, e, l)'
  BY DEF Reading
<1> QED
  BY <1>0, <1>3, <1>7, <1>8, OneFileStep

\* Threads that only go on to the next place of a call.
Keeps(t) ==
  /\ UNCHANGED <<files, sent, rcvd>> /\ Untouched(t)
  /\ th[t].pc \notin ReadPcs /\ th'[t].pc \notin ReadPcs

LEMMA KeepsStep ==
  ASSUME WordBase, WholeFiles, NEW t \in Threads, Keeps(t)
  PROVE  WholeFiles'
BY NoFileStep DEF Keeps, WordBase, Untouched

LEMMA ChangesTouch ==
  ASSUME ThreadsOK, NEW t \in Threads
  PROVE  /\ \A f : Goto(t, f) => Untouched(t) /\ th'[t] = f
         /\ \A call, n, heard : ReturnHeard(t, call, n, heard) => Untouched(t) /\ th'[t] = Idle
         /\ \A call, n : Return(t, call, n) => Untouched(t) /\ th'[t] = Idle
BY GotoChanges DEF Changes, Untouched, ThreadsOK

\* channel_send: the message goes in whole, or its sender waits for room with nothing
\* of it in the ring.
LEMMA SendWord ==
  ASSUME OneWord, WordBase, WholeFiles, NEW t \in Threads, NEW call \in Calls, call.n = HdrSize,
         NEW k \in BOOLEAN, th[t].pc \notin ReadPcs, SendHeader(t, call, k), rcvd' = rcvd
  PROVE  /\ WholeFiles'
         /\ \/ th'[t] = SendFrame("send_sent", call, k, HdrSize)
            \/ th'[t] = Frame("send_hdr", call, k)
<1> DEFINE c == call.c
           q == files[c][k]
           m == Message(t, call)
           headed == RbAdd(q, Header(m))
           sentf == SendFrame("send_sent", call, k, HdrSize)
           hdrf == Frame("send_hdr", call, k)
<1>0. /\ c \in Chans /\ HdrSize \in Nat \ {0} /\ PairsFit /\ ThreadsOK /\ FilesOK /\ q \in Rings
      /\ Len(q) \in Pairs /\ ~Closed(c) /\ m \in Messages /\ m.size = HdrSize
  <2>1. c \in Chans
    BY DEF Calls
  <2> QED
    BY <2>1, WholeFacts, MessageType DEF WholeFile
<1>1. sentf.pc = "send_sent" /\ hdrf.pc = "send_hdr"
  BY FrameParts
<1>2. CASE RbFree(q) >= HdrSize /\ sent' = Noted(sent, c, k, m) /\ SendLoop(t, call, k, headed, 0)
  <2>0. RbFree(q) # 0
    BY <1>0, <1>2
  <2>1. PICK took : Stream(q, sent[c][k], rcvd[c][k], 0, took)
    BY <1>0, WholeFacts DEF WholeFile
  <2>2. /\ headed \in Rings /\ RbFree(headed) \in Nat /\ RbFree(headed) >= HdrSize
        /\ Len(Rest(m, 0)) = HdrSize
    BY <1>0, <2>0, <2>1, WholeFacts, WordGoesIn
  <2>3. /\ RbAvail(headed) # 0 /\ Least(RbFree(headed), Len(Rest(m, 0))) = HdrSize
    <3> HIDE DEF headed, m
    <3>1. RbAvail(headed) = RbFree(headed)
      BY <1>0 DEF RbAvail, PairsFit
    <3>2. RbAvail(headed) # 0
      BY <1>0, <2>2, <3>1
    <3>3. Least(RbFree(headed), HdrSize) = HdrSize
      BY <1>0, <2>2 DEF Least
    <3> QED
      BY <2>2, <3>2, <3>3
  <2>4. /\ Put(c, k, RbAdd(headed, Rest(m, 0)))
        /\ Goto(t, SendFrame("send_sent", call, k, 0 + HdrSize))
    <3> HIDE DEF headed
    <3> QED
      BY <1>0, <1>2, <2>3 DEF SendLoop, SendStops
  <2>5. 0 + HdrSize = HdrSize
    BY <1>0
  <2>6. Untouched(t) /\ th'[t] = sentf
    BY <1>0, <2>4, <2>5, ChangesTouch
  <2>7. Inserts(t, c, k, m)
    BY <1>2, <2>0, <2>4 DEF Inserts, Put
  <2>8. th'[t].pc \notin ReadPcs
    BY <1>1, <2>6 DEF ReadPcs
  <2> QED
    BY <1>0, <2>6, <2>7, <2>8, InsertStep
<1>3. CASE RbFree(q) < HdrSize /\ sent' = sent /\ Put(c, k, RbDrop(headed, RbFree(q))) /\ Goto(t, hdrf)
  <2>1. RbFree(q) = 0
    <3>1. RbFree(q) >= Pair \/ RbFree(q) = 0
      BY <1>0, PairsOfRoom
    <3>2. RbFree(q) \in Nat
      BY <1>0, PairsOfRoom, PairFacts
    <3>3. Pair >= HdrSize /\ Pair \in Nat
      BY <1>0, PairOfWords
    <3> QED
      BY <1>0, <1>3, <3>1, <3>2, <3>3
  <2>2. Put(c, k, q)
    BY <1>0, <1>3, <2>1, NothingMoves, HeaderCells
  <2>3. files' = files
    BY <1>0, <2>2, PutsBack
  <2>4. Untouched(t) /\ th'[t] = hdrf
    BY <1>0, <1>3, ChangesTouch
  <2>5. th'[t].pc \notin ReadPcs
    BY <1>1, <2>4 DEF ReadPcs
  <2> QED
    BY <1>3, <2>3, <2>4, <2>5, KeepsStep DEF Keeps
<1> QED
  BY <1>0, <1>2, <1>3 DEF SendHeader

\* A receiver and a drop take the whole message, or wait with nothing of it.
LEMMA TakeWord ==
  ASSUME OneWord, WordBase, WholeFiles, NEW t \in Threads,
         NEW call \in OwnCalls(t), call.op \in TakeOps, NEW k \in BOOLEAN,
         th[t].pc \notin ReadPcs, UNCHANGED <<sent, rcvd>>,
         RecvHeader(t, call, k) \/ DropHeader(t, call, k)
  PROVE  /\ WholeFiles'
         /\ \/ th'[t].pc \in {"recv_hdr", "drop_hdr"}
            \/ th'[t].pc \in {"recv_got", "drop_dropped"} /\ Complete(th'[t])
<1> DEFINE c == call.c
           q == files[c][k]
           s == sent[c][k]
           d == rcvd[c][k]
           m == s[Len(d) + 1]
           rest == RbDrop(q, HdrSize)
           chunk == RbGet(rest, HdrSize)
           left == RbDrop(rest, HdrSize)
<1>0. /\ call \in Calls /\ c \in Chans /\ InProgram /\ call.op \in ReceiveOps
  BY DEF OwnCalls, Calls, WordBase, TakeOps, ReceiveOps
<1>1. /\ HdrSize \in Nat \ {0} /\ TypeOK /\ ThreadsOK /\ FilesOK /\ HistoryOK /\ ~Closed(c)
      /\ q \in Rings /\ s \in Seq(Messages) /\ d \in Seq(Seq(CellSet))
      /\ Len(q) \in Pairs /\ \A i \in 1..Len(s) : s[i].size = HdrSize
      /\ \E took : Stream(q, s, d, 0, took) /\ Takes(c, k, took)
  BY <1>0, WholeFacts DEF WholeFile, WordBase
<1>2. CASE /\ UNCHANGED files
           /\ Goto(t, Frame("recv_hdr", call, k)) \/ Goto(t, Frame("drop_hdr", call, k))
  <2>1. Untouched(t) /\ th'[t].pc \in {"recv_hdr", "drop_hdr"}
    BY <1>1, <1>2, ChangesTouch, FrameParts
  <2> QED
    BY <1>2, <2>1, KeepsStep DEF Keeps, ReadPcs
<1>3. ASSUME Len(q) >= HdrSize, NEW size \in SizesIn(q),
             RecvLoop(t, call, k, size, rest, <<>>) \/ DropLoop(t, call, k, size, rest, <<>>)
      PROVE  /\ WholeFiles'
             /\ th'[t].pc \in {"recv_got", "drop_dropped"} /\ Complete(th'[t])
  <2>1. \A u \in Threads : ~Reading(u, c, k)
    BY <1>0, NobodyReads DEF Reading
  <2>2. Stream(q, s, d, 0, 0)
    BY <1>1, <2>1 DEF Takes
  <2>3. /\ Len(d) < Len(s) /\ m \in Messages /\ m.size = HdrSize /\ size = HdrSize
        /\ chunk \in Seq(CellSet) /\ Len(chunk) = HdrSize /\ chunk = Payload(m)
        /\ Len(left) \in Pairs /\ Stream(left, s, d, 0, Pair)
    <3>1. Len(q) # 0
      BY <1>1, <1>3
    <3> HIDE DEF q, s, d
    <3> QED
      BY <1>1, <1>3, <2>2, <3>1, WordComesOut
  <2>4. HdrSize - Len(<<>>) = HdrSize /\ <<>> \o chunk = chunk /\ chunk # <<>>
    <3> HIDE DEF chunk
    <3>1. chunk \in Seq(CellSet) /\ Len(chunk) = HdrSize /\ HdrSize \in Nat \ {0}
      BY <1>1, <2>3
    <3>2. \A h \in Nat : h - 0 = h
      OBVIOUS
    <3> QED
      BY <3>1, <3>2
  <2>5. /\ Put(c, k, RbDrop(rest, Len(chunk)))
        /\ \/ Goto(t, RecvFrame("recv_got", call, k, size, chunk))
           \/ Goto(t, RecvFrame("drop_dropped", call, k, size, chunk))
    <3>1. Len(<<>> \o chunk) # 0
      BY <1>1, <2>3, <2>4
    <3>2. RbGet(rest, size - Len(<<>>)) = chunk
      BY <2>3, <2>4
    <3>3. ~GivesUp(t, c, k, rest, size)
      BY <1>1 DEF GivesUp
    <3> HIDE DEF chunk, rest
    <3> QED
      BY <1>3, <2>4, <3>1, <3>2, <3>3 DEF RecvLoop, DropLoop
  <2>6. files'[c][k] = left /\ (\A e \in Chans, l \in BOOLEAN : e # c \/ l # k => SameFile(e, l))
    <3>1. Put(c, k, left)
      BY <2>3, <2>5
    <3> HIDE DEF left
    <3> QED
      BY <1>0, <1>1, <3>1, PutsOne DEF SameFile
  <2>7. /\ Untouched(t) /\ th'[t].pc \in {"recv_got", "drop_dropped"}
        /\ th'[t].call = call /\ th'[t].rb = k /\ th'[t].size = HdrSize /\ th'[t].out = chunk
    <3> HIDE DEF chunk
    <3>1. PICK pc \in {"recv_got", "drop_dropped"} : Goto(t, RecvFrame(pc, call, k, size, chunk))
      BY <2>5
    <3>2. Untouched(t) /\ th'[t] = RecvFrame(pc, call, k, size, chunk)
      BY <1>1, <3>1, ChangesTouch
    <3>3. size = HdrSize
      BY <2>3
    <3>4. /\ th'[t].pc = pc /\ th'[t].call = call /\ th'[t].rb = k
          /\ th'[t].size = size /\ th'[t].out = chunk
      BY <3>2, FrameParts
    <3> QED
      BY <3>2, <3>3, <3>4
  <2>8. Takes(c, k, Pair)'
    <3>1. Pair = HdrSize + Len(chunk) /\ chunk = Cells(m, HdrSize, Len(chunk))
      BY <2>3, PairOfWords DEF Payload
    <3>2. Holds(t, c, k, Pair)'
      BY <2>3, <2>7, <3>1 DEF Holds
    <3>3. \A u \in Threads : Reading(u, c, k)' => u = t
      BY <2>1, <2>7 DEF Untouched, Reading
    <3>4. Reading(t, c, k)'
      BY <2>7 DEF Reading, ReadPcs
    <3> QED
      BY <3>2, <3>3, <3>4 DEF Takes
  <2>9. WholeFile(c, k)'
    BY <1>1, <2>3, <2>6, <2>8 DEF WholeFile
  <2>10. \A e \in Chans, l \in BOOLEAN : e # c \/ l # k =>
           SameFile(e, l) /\ ~Reading(t, e, l) /\ ~Reading(t, e, l)'
    BY <2>6, <2>7 DEF Reading
  <2>11. WholeFiles'
    <3>1. PICK e \in Chans, l \in BOOLEAN : e = c /\ l = k
      BY <1>0
    <3> QED
      BY <1>1, <2>7, <2>9, <2>10, <3>1, OneFileStep
  <2> QED
    BY <2>3, <2>7, <2>11 DEF Complete
<1> QED
  BY <1>2, <1>3 DEF RecvHeader, DropHeader

\* The end of a receive.
LEMMA TakenWord ==
  ASSUME OneWord, WordBase, WholeFiles, NEW t \in Threads, th[t].pc \in ReadPcs,
         Taken(t, th[t]), sent' = sent
  PROVE  WholeFiles' /\ th'[t] = Idle
<1> DEFINE f == th[t]
<1>0. TypeOK /\ ThreadsOK /\ InProgram /\ Placed(t) /\ f.pc # "idle"
  BY DEF WordBase, TypeOK, Places, ReadPcs
<1>1. PICK call \in OwnCalls(t), k \in BOOLEAN, out \in Seq(CellSet) :
        call = f.call /\ k = f.rb /\ out = f.out
  BY <1>0, FrameFacts DEF InProgram
<1> DEFINE c == call.c
           q == files[c][k]
           s == sent[c][k]
           d == rcvd[c][k]
           m == s[Len(d) + 1]
<1>2. call \in Calls /\ c \in Chans /\ Reading(t, c, k)
  BY <1>1 DEF OwnCalls, Calls, Reading
<1>3. /\ HistoryOK /\ FilesOK /\ q \in Rings /\ s \in Seq(Messages) /\ d \in Seq(Seq(CellSet))
      /\ Len(q) \in Pairs /\ \A i \in 1..Len(s) : s[i].size = HdrSize
      /\ \E took : Stream(q, s, d, 0, took) /\ Takes(c, k, took)
  BY <1>2, WholeFacts DEF WholeFile
<1>4. PICK took : Stream(q, s, d, 0, took) /\ Takes(c, k, took)
  BY <1>3
<1>5. Holds(t, c, k, took)
  BY <1>2, <1>4 DEF Takes
<1>6. Len(out) = f.size
  BY <1>0, <1>1 DEF Placed, Complete
<1>7. /\ Len(d) < Len(s) /\ f.size = m.size /\ out = Cells(m, HdrSize, Len(out))
      /\ took = HdrSize + Len(out)
  BY <1>1, <1>5 DEF Holds
<1>8. m.size = HdrSize
  <2>1. Len(d) + 1 \in 1..Len(s)
    <3>1. Len(d) < Len(s) /\ Len(d) \in Nat /\ Len(s) \in Nat
      BY <1>3, <1>7, LenProperties
    <3> HIDE DEF s, d
    <3> QED
      BY <3>1
  <2> QED
    BY <1>3, <2>1
<1>9. took = Pair /\ out = Payload(m)
  BY <1>6, <1>7, <1>8, PairOfWords DEF Payload
<1>10. Stream(q, s, Append(d, out), 0, 0)
  <2>1. Stream(q, s, Append(d, Payload(m)), 0, 0)
    BY <1>3, <1>4, <1>7, <1>8, <1>9, WordIsOut
  <2> QED
    BY <1>9, <2>1
<1>11. /\ rcvd'[c][k] = Append(d, out) /\ files' = files
       /\ \A e \in Chans, l \in BOOLEAN : e # c \/ l # k => SameFile(e, l)
  BY <1>1, <1>2, <1>3 DEF Taken, Noted, HistoryOK, SameFile
<1>12. Untouched(t) /\ th'[t] = Idle
  BY <1>0, ChangesTouch DEF Taken
<1>13. \A u \in Threads : ~Reading(u, c, k)'
  <2>1. call.op \in ReceiveOps
    <3>1. call.op \in TakeOps
      BY <1>0, <1>1 DEF InProgram, PcsOf, SendPcs, ReadPcs, TakeOps
    <3> QED
      BY <3>1 DEF TakeOps, ReceiveOps
  <2>2. \A u \in Threads : u # t => ~Reading(u, c, k)
    BY <1>0, <2>1, NobodyReads
  <2> QED
    BY <1>12, <2>2, FrameParts DEF Untouched, Reading, ReadPcs
<1>14. WholeFile(c, k)'
  <2>1. Takes(c, k, 0)'
    BY <1>13 DEF Takes
  <2> QED
    BY <1>3, <1>10, <1>11, <2>1 DEF WholeFile
<1>15. \A e \in Chans, l \in BOOLEAN : e # c \/ l # k => ~Reading(t, e, l) /\ ~Reading(t, e, l)'
  BY <1>1, <1>12, FrameParts DEF Reading, ReadPcs
<1>16. WholeFiles'
  BY <1>0, <1>2, <1>11, <1>12, <1>14, <1>15, OneFileStep
<1> QED
  BY <1>12, <1>16

--------------------------------------------------------------------------------
(* The try operations *)

\* channel_try_send puts in a whole message and says so, or nothing.
LEMMA TrySendWord ==
  ASSUME OneWord, WordBase, WholeFiles, NEW t \in Threads, TrySend(t)
  PROVE  /\ WholeFiles' /\ th'[t] = Idle
         /\ \/ UNCHANGED <<files, sent, rcvd>>
            \/ ret'[t] = Returned(ret[t], th[t].call, HdrSize, 0)
<1>0. TypeOK /\ ThreadsOK /\ Placed(t) /\ th[t].pc = "try_send"
  BY DEF WordBase, TypeOK, Places, TrySend, At
<1>1. PICK call \in Calls, k \in BOOLEAN : call = th[t].call /\ k = OutFile(t, call.c)
  BY <1>0, FrameFacts DEF OutFile
<1> DEFINE c == call.c
           q == files[c][k]
           m == Message(t, call)
           headed == RbAdd(q, Header(m))
           full == RbAdd(headed, Payload(m))
<1>2. call.n = HdrSize
  BY <1>0, <1>1 DEF Placed
<1>3. /\ c \in Chans /\ HdrSize \in Nat \ {0} /\ PairsFit /\ FilesOK /\ q \in Rings
      /\ Len(q) \in Pairs /\ m \in Messages /\ m.size = HdrSize
  <2>1. c \in Chans
    BY DEF Calls
  <2> QED
    BY <1>0, <1>2, <2>1, WholeFacts, MessageType DEF WholeFile
<1>4. RbFree(q) >= Pair \/ RbFree(q) = 0
  BY <1>3, PairsOfRoom
<1>5. TryRoom(q, call.n) <=> RbFree(q) >= HdrSize
  <2> HIDE DEF q
  <2> QED
    BY <1>2, <1>3 DEF TryRoom, RbAvail, PairsFit
<1>6. /\ rcvd' = rcvd
      /\ \/ UNCHANGED <<files, sent>> /\ Return(t, call, 0)
         \/ /\ RbFree(q) >= HdrSize /\ Put(c, k, full) /\ sent' = Noted(sent, c, k, m)
            /\ Return(t, call, Len(full) - Len(headed))
  <2>1. RbFree(q) \in Nat
    BY <1>3, PairsOfRoom, PairFacts
  <2> HIDE DEF full, headed, m, q
  <2> QED
    BY <1>1, <1>3, <1>5, <2>1 DEF TrySend, full, headed, m, q
<1>7. Untouched(t) /\ th'[t] = Idle /\ th[t].pc \notin ReadPcs /\ th'[t].pc \notin ReadPcs
  <2>1. Untouched(t) /\ th'[t] = Idle
    BY <1>0, <1>6, ChangesTouch
  <2> QED
    BY <1>0, <2>1, FrameParts DEF ReadPcs
<1>8. CASE UNCHANGED <<files, sent>>
  BY <1>6, <1>7, <1>8, KeepsStep DEF Keeps
<1>9. CASE /\ RbFree(q) >= HdrSize /\ Put(c, k, full) /\ sent' = Noted(sent, c, k, m)
           /\ Return(t, call, Len(full) - Len(headed))
  <2>1. RbFree(q) # 0
    BY <1>3, <1>9
  <2>2. PICK took : Stream(q, sent[c][k], rcvd[c][k], 0, took)
    BY <1>3, WholeFacts DEF WholeFile
  <2>3. /\ Rest(m, 0) = Payload(m) /\ headed \in Rings
        /\ Len(RbAdd(headed, Rest(m, 0))) = Len(headed) + HdrSize
    BY <1>3, <2>1, <2>2, WholeFacts, WordGoesIn
  <2>4. Inserts(t, c, k, m)
    BY <1>6, <1>9, <2>1, <2>3 DEF Inserts, Put
  <2>5. WholeFiles'
    BY <1>3, <1>7, <2>4, InsertStep
  <2>6. Len(full) - Len(headed) = HdrSize
    <3>1. Len(headed) \in Nat /\ Len(full) = Len(headed) + HdrSize
      BY <2>3, RingFacts
    <3> HIDE DEF headed, full
    <3> QED
      BY <1>3, <3>1
  <2>7. ret'[t] = Returned(ret[t], call, HdrSize, 0)
    <3>1. Return(t, call, HdrSize)
      BY <1>9, <2>6
    <3> QED
      BY <1>0, <3>1 DEF Return, ReturnHeard, ThreadsOK
  <2> QED
    BY <1>1, <1>7, <2>5, <2>7
<1> QED
  BY <1>6, <1>8, <1>9

\* channel_try_recv takes a whole message and says so, or finds nothing.
LEMMA TryRecvWord ==
  ASSUME OneWord, WordBase, WholeFiles, NEW t \in Threads, TryRecv(t)
  PROVE  /\ WholeFiles' /\ th'[t] = Idle
         /\ \/ UNCHANGED <<files, sent, rcvd>>
            \/ \E heard : ret'[t] = Returned(ret[t], th[t].call, HdrSize, heard)
<1>0. /\ TypeOK /\ ThreadsOK /\ InProgram /\ Placed(t) /\ th[t].pc = "try_recv"
  BY DEF WordBase, TypeOK, Places, TryRecv, At
<1>1. PICK call \in OwnCalls(t), k \in BOOLEAN : call = th[t].call /\ k = th[t].rb
  BY <1>0, FrameFacts DEF InProgram
<1> DEFINE c == call.c
           q == files[c][k]
           s == sent[c][k]
           d == rcvd[c][k]
           m == s[Len(d) + 1]
           hdr == RbGet(q, HdrSize)
           data == RbGet(RbDrop(q, HdrSize), Len(hdr))
           left == RbDrop(q, Len(hdr \o data))
<1>2. call \in Calls /\ c \in Chans /\ call.op \in ReceiveOps
  BY <1>0, <1>1 DEF Placed, TryPcs, OwnCalls, Calls, ReceiveOps
<1>3. /\ HdrSize \in Nat \ {0} /\ FilesOK /\ HistoryOK /\ q \in Rings
      /\ s \in Seq(Messages) /\ d \in Seq(Seq(CellSet))
      /\ Len(q) \in Pairs /\ \A i \in 1..Len(s) : s[i].size = HdrSize
      /\ \E took : Stream(q, s, d, 0, took) /\ Takes(c, k, took)
  BY <1>2, WholeFacts DEF WholeFile
<1>4. /\ Put(c, k, left) /\ ReturnHeard(t, call, Len(data), Heard(data)) /\ sent' = sent
      /\ rcvd' = IF data = <<>> THEN rcvd ELSE Noted(rcvd, c, k, data)
  BY <1>1 DEF TryRecv
<1>5. Untouched(t) /\ th'[t] = Idle /\ th[t].pc \notin ReadPcs /\ th'[t].pc \notin ReadPcs
  <2>1. Untouched(t) /\ th'[t] = Idle
    BY <1>0, <1>4, ChangesTouch
  <2> QED
    BY <1>0, <2>1, FrameParts DEF ReadPcs
<1>6. CASE Len(q) = 0
  <2>1. q = <<>>
    BY <1>3, <1>6, RingFacts, EmptySeq
  <2>2. hdr = <<>> /\ data = <<>> /\ left = <<>>
    <3>1. /\ \A n \in Nat : RbGet(<<>>, n) = <<>> /\ RbDrop(<<>>, n) = <<>>
          /\ <<>> \o <<>> = <<>> /\ Len(<<>>) = 0
      <4>1. <<>> \in Seq(CellSet) /\ Len(<<>>) = 0
        BY EmptySeq
      <4>2. ASSUME NEW n \in Nat PROVE RbGet(<<>>, n) = <<>> /\ RbDrop(<<>>, n) = <<>>
        <5>1. Least(n, 0) = 0
          BY DEF Least
        <5>2. Len(RbGet(<<>>, n)) = 0 /\ Len(RbDrop(<<>>, n)) = 0 - 0
          BY <4>1, <5>1, GetAndDrop
        <5>3. RbGet(<<>>, n) \in Seq(CellSet) /\ RbDrop(<<>>, n) \in Seq(CellSet)
          BY <4>1, GetAndDrop
        <5> QED
          BY <5>2, <5>3, EmptySeq
      <4> QED
        BY <4>1, <4>2
    <3>2. hdr = <<>> /\ RbDrop(q, HdrSize) = <<>>
      BY <1>3, <2>1, <3>1
    <3>3. data = <<>>
      BY <3>1, <3>2
    <3> QED
      BY <2>1, <3>1, <3>2, <3>3
  <2>3. files' = files /\ rcvd' = rcvd
    <3>1. Put(c, k, files[c][k])
      BY <1>4, <2>1, <2>2
    <3> QED
      BY <1>2, <1>3, <1>4, <2>2, <3>1, PutsBack
  <2> QED
    BY <1>4, <1>5, <2>3, KeepsStep DEF Keeps
<1>7. CASE Len(q) # 0
  <2>1. \A u \in Threads : ~Reading(u, c, k)
    BY <1>0, <1>2, NobodyReads DEF Reading, ReadPcs
  <2>2. Stream(q, s, d, 0, 0)
    BY <1>3, <2>1 DEF Takes
  <2> DEFINE chunk == RbGet(RbDrop(q, HdrSize), HdrSize)
  <2>3. /\ Len(q) >= Pair
        /\ Len(d) < Len(s) /\ m \in Messages /\ m.size = HdrSize
        /\ chunk \in Seq(CellSet) /\ Len(chunk) = HdrSize /\ chunk = Payload(m)
        /\ Len(RbDrop(q, Pair)) \in Pairs /\ Stream(RbDrop(q, Pair), s, d, 0, Pair)
        /\ RbDrop(q, Pair) \in Rings
    <3> HIDE DEF q, s, d
    <3> QED
      BY <1>3, <1>7, <2>2, WordComesOut
  <2>4. hdr \in Seq(CellSet) /\ Len(hdr) = HdrSize
    <3>1. hdr \in Seq(CellSet) /\ Len(hdr) = Least(HdrSize, Len(q))
      BY <1>3, RingFacts, GetAndDrop
    <3>2. Len(q) >= HdrSize /\ Len(q) \in Nat
      <4>1. Len(q) \in Nat
        BY <1>3, RingFacts
      <4> HIDE DEF q
      <4> QED
        <5>1. Len(q) >= Pair /\ HdrSize \in Nat
          BY <1>3, <2>3
        <5> QED
          BY <4>1, <5>1 DEF Pair
    <3> HIDE DEF q, hdr
    <3> QED
      BY <1>3, <3>1, <3>2 DEF Least
  <2>5. data = chunk
    BY <2>4
  <2>6. Len(hdr \o data) = Pair
    <3>1. data \in Seq(CellSet) /\ Len(data) = HdrSize
      BY <2>3, <2>5
    <3> HIDE DEF hdr, data
    <3>2. Len(hdr \o data) = Len(hdr) + Len(data)
      BY <2>4, <3>1
    <3> QED
      BY <2>4, <3>1, <3>2, PairOfWords
  <2>7. left = RbDrop(q, Pair)
    BY <2>6
  <2>8. data # <<>> /\ Len(data) = HdrSize
    <3> HIDE DEF data, chunk
    <3> QED
      BY <1>3, <2>3, <2>5
  <2>9. /\ files'[c][k] = left /\ rcvd'[c][k] = Append(d, data)
        /\ \A e \in Chans, l \in BOOLEAN : e # c \/ l # k => SameFile(e, l)
    <3> HIDE DEF left, data
    <3>1. rcvd' = Noted(rcvd, c, k, data)
      BY <1>4, <2>8
    <3>2. /\ rcvd'[c][k] = Append(d, data)
          /\ \A e \in Chans, l \in BOOLEAN : e # c \/ l # k => rcvd'[e][l] = rcvd[e][l]
      BY <1>2, <1>3, <3>1 DEF Noted, HistoryOK
    <3> QED
      BY <1>2, <1>3, <1>4, <3>2, PutsOne DEF SameFile
  <2>10. Stream(left, s, Append(d, data), 0, 0) /\ Len(left) \in Pairs
    <3>1. data = Payload(m)
      BY <2>3, <2>5
    <3> HIDE DEF left, data, chunk
    <3>2. Stream(RbDrop(q, Pair), s, Append(d, Payload(m)), 0, 0)
      BY <1>3, <2>3, WordIsOut
    <3> QED
      BY <2>3, <2>7, <3>1, <3>2
  <2>11. Takes(c, k, 0)'
    BY <1>5, <2>1 DEF Takes, Untouched, Reading
  <2>12. WholeFile(c, k)'
    <3> HIDE DEF left, data
    <3> QED
      BY <1>3, <1>4, <2>9, <2>10, <2>11 DEF WholeFile
  <2>13. WholeFiles'
    <3>1. \A e \in Chans, l \in BOOLEAN : e # c \/ l # k =>
            SameFile(e, l) /\ ~Reading(t, e, l) /\ ~Reading(t, e, l)'
      BY <1>5, <2>9 DEF Reading
    <3>2. PICK e \in Chans, l \in BOOLEAN : e = c /\ l = k
      BY <1>2
    <3> QED
      BY <1>0, <1>5, <2>12, <3>1, <3>2, OneFileStep
  <2>14. ret'[t] = Returned(ret[t], call, HdrSize, Heard(data))
    BY <1>0, <1>4, <2>8 DEF ReturnHeard, ThreadsOK
  <2> QED
    BY <1>1, <1>5, <2>13, <2>14
<1> QED
  BY <1>6, <1>7

--------------------------------------------------------------------------------
(* Every step *)

LEMMA PlacedNext ==
  ASSUME NEW t \in Threads
  PROVE  /\ th'[t] = Idle => Placed(t)'
         /\ th'[t].pc \notin {"send_loop", "send_sent", "send_hdr", "flags"} \cup ReadPcs \cup TryPcs =>
              Placed(t)'
         /\ \A call \in Calls : \A k : call.n = HdrSize =>
              /\ th'[t] = SendFrame("send_sent", call, k, HdrSize) => Placed(t)'
              /\ th'[t] = Frame("send_hdr", call, k) => Placed(t)'
         /\ th'[t].pc \in {"recv_got", "drop_dropped"} /\ Complete(th'[t]) => Placed(t)'
<1>1. ASSUME NEW call \in Calls, NEW k, call.n = HdrSize
      PROVE  /\ th'[t] = SendFrame("send_sent", call, k, HdrSize) => Placed(t)'
             /\ th'[t] = Frame("send_hdr", call, k) => Placed(t)'
  <2>1. CASE th'[t] = SendFrame("send_sent", call, k, HdrSize)
    <3>1. th'[t].pc = "send_sent" /\ th'[t].call = call /\ th'[t].bytes = HdrSize
      BY <2>1, FrameParts
    <3> QED
      BY <1>1, <3>1 DEF Placed, ReadPcs, TryPcs
  <2>2. CASE th'[t] = Frame("send_hdr", call, k)
    <3>1. th'[t].pc = "send_hdr" /\ th'[t].call = call
      BY <2>2, FrameParts
    <3> QED
      BY <1>1, <3>1 DEF Placed, ReadPcs, TryPcs
  <2> QED
    BY <2>1, <2>2
<1>2. th'[t].pc \notin {"send_loop", "send_sent", "send_hdr", "flags"} \cup ReadPcs \cup TryPcs => Placed(t)'
  BY DEF Placed, ReadPcs, TryPcs
<1>3. th'[t] = Idle => Placed(t)'
  BY <1>2, FrameParts DEF ReadPcs, TryPcs
<1>4. th'[t].pc \in {"recv_got", "drop_dropped"} /\ Complete(th'[t]) => Placed(t)'
  BY DEF Placed, TryPcs, Complete
<1> QED
  BY <1>1, <1>2, <1>3, <1>4

LEMMA SendsWord ==
  ASSUME OneWord, WordBase, WholeFiles, NEW t \in Threads, Sends(t)
  PROVE  WholeFiles' /\ Placed(t)'
<1> DEFINE f == th[t]
<1>0. /\ TypeOK /\ ThreadsOK /\ InProgram /\ Placed(t)
      /\ f.pc # "idle" =>
           /\ f.call \in Calls /\ f.call.c \in Chans /\ f.rb \in BOOLEAN
           /\ f.call \in OwnCalls(t) /\ f.pc \in PcsOf(f.call.op)
      /\ \A call \in NextCalls(t) : call \in OwnCalls(t) /\ call \in Calls
  BY FrameFacts, NextIsOwn, NextCallsType DEF WordBase, TypeOK, InProgram, Places
<1>1. f.pc \in SendPcs => f.pc # "idle" /\ f.call.op \in SendOps
  BY <1>0 DEF PcsOf, SendPcs, RecvPcs, DropPcs, SendOps
<1>2. ASSUME NEW call \in Calls, call.n = HdrSize, NEW k \in BOOLEAN, f.pc \notin ReadPcs,
             SendHeader(t, call, k), rcvd' = rcvd
      PROVE  WholeFiles' /\ Placed(t)'
  BY <1>2, SendWord, PlacedNext
<1>3. ASSUME UNCHANGED <<files, sent, rcvd>>, f.pc \notin ReadPcs, NEW call, NEW n,
             Return(t, call, n) \/ Goto(t, Frame("send_body", call, FALSE))
      PROVE  WholeFiles' /\ Placed(t)'
  <2>1. Untouched(t) /\ (th'[t] = Idle \/ th'[t] = Frame("send_body", call, FALSE))
    BY <1>0, <1>3, ChangesTouch
  <2>2. th'[t].pc \in {"idle", "send_body"}
    <3>1. CASE th'[t] = Idle
      BY <3>1, FrameParts
    <3>2. CASE th'[t] = Frame("send_body", call, FALSE)
      BY <3>2 DEF Frame
    <3> QED
      BY <2>1, <3>1, <3>2
  <2>3. Placed(t)' /\ th'[t].pc \notin ReadPcs
    BY <2>2, PlacedNext DEF ReadPcs, TryPcs
  <2> QED
    BY <1>3, <2>1, <2>3, KeepsStep DEF Keeps
<1>4. ASSUME f.pc \in {"send", "send_body"}, SendBody(t, f.call), rcvd' = rcvd
      PROVE  WholeFiles' /\ Placed(t)'
  <2>0. f.pc \in SendPcs /\ f.pc \notin ReadPcs
    BY <1>4 DEF SendPcs, ReadPcs
  <2>1. CASE Return(t, f.call, 0) /\ UNCHANGED <<files, sent>>
    BY <1>3, <1>4, <2>0, <2>1
  <2>2. CASE f.call.n # 0 /\ SendHeader(t, f.call, OutFile(t, f.call.c))
    <3>1. f.call \in Calls /\ f.call.n = HdrSize
      BY <1>0, <1>1, <2>0, <2>2 DEF OneWord, WordCalls
    <3>2. PICK k \in BOOLEAN : k = OutFile(t, f.call.c)
      BY DEF OutFile
    <3> QED
      BY <1>2, <1>4, <2>0, <2>2, <3>1, <3>2
  <2> QED
    BY <1>4, <2>1, <2>2 DEF SendBody
<1>5. CASE SendSync(t) \/ SendSynced(t)
  <2>1. f.pc \in {"send", "send_body"} /\ f.pc \notin ReadPcs
    BY <1>5 DEF SendSync, SendSynced, At, ReadPcs
  <2>2. CASE Synchronize(t, f.call, TRUE, "send_body")
    BY <1>3, <2>1, <2>2 DEF Synchronize
  <2>3. CASE SendBody(t, f.call) /\ rcvd' = rcvd
    BY <1>4, <2>1, <2>3
  <2> QED
    BY <1>5, <2>2, <2>3 DEF SendSync, SendSynced
<1>6. CASE SendMsgCall(t)
  <2>1. PICK call \in NextCalls(t) : /\ f.pc = "idle" /\ call.op = "send_msg" /\ rcvd' = rcvd
                                    /\ SendHeader(t, call, OutFile(t, call.c))
    BY <1>6 DEF SendMsgCall, Invokes
  <2>2. PICK k \in BOOLEAN : k = OutFile(t, call.c)
    BY DEF OutFile
  <2>3. call \in Calls /\ call.n = HdrSize
    BY <1>0, <2>1 DEF OneWord, WordCalls, SendOps
  <2> QED
    BY <1>2, <2>1, <2>2, <2>3 DEF ReadPcs
<1>7. CASE SendHeaderAgain(t)
  <2>1. f.pc = "send_hdr" /\ SendHeader(t, f.call, f.rb) /\ rcvd' = rcvd
    BY <1>7 DEF SendHeaderAgain, At
  <2>2. f.call \in Calls /\ f.rb \in BOOLEAN /\ f.call.n = HdrSize /\ f.pc \notin ReadPcs
    BY <1>0, <2>1 DEF Placed, ReadPcs
  <2> QED
    BY <1>2, <2>1, <2>2
<1>8. ~SendResume(t)
  BY <1>0 DEF SendResume, At, Placed
<1>9. CASE SendSent(t)
  <2>1. f.pc = "send_sent" /\ f.bytes = f.call.n
    BY <1>0, <1>9 DEF SendSent, At, Placed
  <2>2. Return(t, f.call, f.bytes) /\ UNCHANGED <<files, sent, rcvd>>
    BY <1>9, <2>1 DEF SendSent
  <2> QED
    BY <1>3, <2>1, <2>2 DEF ReadPcs
<1> QED
  BY <1>5, <1>6, <1>7, <1>8, <1>9 DEF Sends

LEMMA TakesWord ==
  ASSUME OneWord, WordBase, WholeFiles, NEW t \in Threads, Recvs(t) \/ Drops(t)
  PROVE  WholeFiles' /\ Placed(t)'
<1> DEFINE f == th[t]
<1>0. /\ TypeOK /\ ThreadsOK /\ InProgram /\ Placed(t)
      /\ f.pc # "idle" =>
           /\ f.call \in Calls /\ f.call.c \in Chans /\ f.rb \in BOOLEAN
           /\ f.call \in OwnCalls(t) /\ f.pc \in PcsOf(f.call.op)
      /\ \A call \in NextCalls(t) : call \in OwnCalls(t) /\ call \in Calls
  BY FrameFacts, NextIsOwn, NextCallsType DEF WordBase, TypeOK, InProgram, Places
<1>1. f.pc \in RecvPcs \cup DropPcs => f.pc # "idle" /\ f.call.op \in TakeOps
  BY <1>0 DEF PcsOf, SendPcs, RecvPcs, DropPcs, TakeOps
<1>2. ASSUME NEW call \in OwnCalls(t), call.op \in TakeOps, NEW k \in BOOLEAN, f.pc \notin ReadPcs,
             RecvHeader(t, call, k) \/ DropHeader(t, call, k), UNCHANGED <<sent, rcvd>>
      PROVE  WholeFiles' /\ Placed(t)'
  <2>1. /\ WholeFiles'
        /\ \/ th'[t].pc \in {"recv_hdr", "drop_hdr"}
           \/ th'[t].pc \in {"recv_got", "drop_dropped"} /\ Complete(th'[t])
    BY <1>2, TakeWord
  <2>2. th'[t].pc \in {"recv_hdr", "drop_hdr"} =>
          th'[t].pc \notin {"send_loop", "send_sent", "send_hdr", "flags"} \cup ReadPcs \cup TryPcs
    BY DEF ReadPcs, TryPcs
  <2> QED
    BY <2>1, <2>2, PlacedNext
<1>3. ASSUME UNCHANGED <<files, sent, rcvd>>, f.pc \notin ReadPcs, NEW call,
             \/ Return(t, call, 0)
             \/ Goto(t, Frame("recv_body", call, FALSE)) \/ Goto(t, Frame("drop_body", call, FALSE))
      PROVE  WholeFiles' /\ Placed(t)'
  <2>1. /\ Untouched(t)
        /\ \/ th'[t] = Idle
           \/ th'[t] = Frame("recv_body", call, FALSE) \/ th'[t] = Frame("drop_body", call, FALSE)
    BY <1>0, <1>3, ChangesTouch
  <2>2. th'[t].pc \in {"idle", "recv_body", "drop_body"}
    <3>1. CASE th'[t] = Idle
      BY <3>1, FrameParts
    <3>2. ASSUME NEW pc \in {"recv_body", "drop_body"}, th'[t] = Frame(pc, call, FALSE)
          PROVE  th'[t].pc = pc
      BY <3>2 DEF Frame
    <3> QED
      BY <2>1, <3>1, <3>2
  <2>3. Placed(t)' /\ th'[t].pc \notin ReadPcs
    BY <2>2, PlacedNext DEF ReadPcs, TryPcs
  <2> QED
    BY <1>3, <2>1, <2>3, KeepsStep DEF Keeps
<1>4. CASE RecvSync(t) \/ RecvSynced(t) \/ DropSync(t) \/ DropSynced(t)
  <2>1. /\ f.pc \in {"recv", "recv_body", "drop", "drop_body"}
        /\ f.pc \in RecvPcs \cup DropPcs /\ f.pc \notin ReadPcs
    BY <1>4 DEF RecvSync, RecvSynced, DropSync, DropSynced, At, RecvPcs, DropPcs, ReadPcs
  <2>2. PICK k \in BOOLEAN : k = InFile(t, f.call.c)
    BY DEF InFile
  <2>3. \/ /\ UNCHANGED <<files, sent, rcvd>>
           /\ \/ Return(t, f.call, 0)
              \/ Goto(t, Frame("recv_body", f.call, FALSE)) \/ Goto(t, Frame("drop_body", f.call, FALSE))
        \/ (RecvHeader(t, f.call, k) \/ DropHeader(t, f.call, k)) /\ UNCHANGED <<sent, rcvd>>
    <3>1. CASE RecvSync(t) \/ RecvSynced(t)
      BY <2>2, <3>1 DEF RecvSync, RecvSynced, RecvBody, Synchronize
    <3>2. CASE DropSync(t) \/ DropSynced(t)
      BY <2>2, <3>2 DEF DropSync, DropSynced, Synchronize
    <3> QED
      BY <1>4, <3>1, <3>2
  <2>4. f.call \in OwnCalls(t) /\ f.call.op \in TakeOps
    BY <1>0, <1>1, <2>1
  <2> QED
    BY <1>2, <1>3, <2>1, <2>3, <2>4
<1>5. CASE RecvMsgCall(t)
  <2>1. PICK call \in NextCalls(t) : /\ f.pc = "idle" /\ call.op = "recv_msg"
                                    /\ RecvHeader(t, call, InFile(t, call.c))
                                    /\ UNCHANGED <<sent, rcvd>>
    BY <1>5 DEF RecvMsgCall, Invokes
  <2>2. PICK k \in BOOLEAN : k = InFile(t, call.c)
    BY DEF InFile
  <2>3. call \in OwnCalls(t) /\ call.op \in TakeOps /\ f.pc \notin ReadPcs
    BY <1>0, <2>1 DEF TakeOps, ReadPcs
  <2> QED
    BY <1>2, <2>1, <2>2, <2>3
<1>6. CASE RecvHeaderAgain(t) \/ DropHeaderAgain(t)
  <2>1. /\ f.pc \in {"recv_hdr", "drop_hdr"} /\ UNCHANGED <<sent, rcvd>>
        /\ RecvHeader(t, f.call, f.rb) \/ DropHeader(t, f.call, f.rb)
    BY <1>6 DEF RecvHeaderAgain, DropHeaderAgain, At
  <2>2. f.pc \in RecvPcs \cup DropPcs /\ f.pc \notin ReadPcs
    BY <2>1 DEF RecvPcs, DropPcs, ReadPcs
  <2> QED
    BY <1>0, <1>1, <1>2, <2>1, <2>2
<1>7. ~RecvResume(t) /\ ~DropResume(t)
  BY <1>0 DEF RecvResume, DropResume, At, Placed
<1>8. CASE RecvGot(t) \/ DropDropped(t)
  <2>1. f.pc \in ReadPcs
    BY <1>8 DEF RecvGot, DropDropped, At, ReadPcs
  <2>2. Complete(f)
    BY <1>0, <2>1 DEF Placed
  <2>3. Taken(t, f) /\ sent' = sent
    BY <1>8, <2>2 DEF RecvGot, DropDropped
  <2> QED
    BY <2>1, <2>3, TakenWord, PlacedNext
<1> QED
  BY <1>4, <1>5, <1>6, <1>7, <1>8 DEF Recvs, Drops

\* A step of any other kind moves no message.
LEMMA OthersWord ==
  ASSUME OneWord, WordBase, WholeFiles, NEW t \in Threads,
         Enter(t) \/ FlagsLoad(t) \/ FlagsStore(t) \/ SetOwner(t)
           \/ Go(t) \/ Sleep(t) \/ Timer(t) \/ Spin(t) \/ Exit(t)
  PROVE  WholeFiles' /\ Placed(t)'
<1>0. /\ TypeOK /\ ThreadsOK /\ InProgram /\ Placed(t) /\ GoneIdle /\ AllOpen
      /\ DOMAIN th = Threads
      /\ \A call \in NextCalls(t) : call \in OwnCalls(t) /\ call \in Calls
  BY NextIsOwn, NextCallsType DEF WordBase, TypeOK, Places, ThreadsOK
<1>1. UNCHANGED <<files, sent, rcvd>>
  BY DEF Enter, FlagsLoad, FlagsStore, SetOwner, Go, Sleep, Timer, Spin, Exit
<1>2. ASSUME Untouched(t), th[t].pc \notin ReadPcs, Placed(t)', th'[t].pc \notin ReadPcs
      PROVE  WholeFiles' /\ Placed(t)'
  BY <1>0, <1>1, <1>2, NoFileStep DEF Untouched
<1>3. ASSUME th[t].pc \in {"idle", "flags", "asleep"}, NEW call, NEW n, Return(t, call, n)
      PROVE  WholeFiles' /\ Placed(t)'
  <2>1. Untouched(t) /\ th'[t] = Idle
    BY <1>0, <1>3, ChangesTouch
  <2> QED
    BY <1>2, <1>3, <2>1, PlacedNext, FrameParts DEF ReadPcs
<1>4. CASE Enter(t)
  <2>1. PICK call \in NextCalls(t) :
          /\ th[t].pc = "idle" /\ call.op \in {"send", "try_send", "recv", "try_recv", "drop"}
          /\ \/ Return(t, call, 0)
             \/ /\ call.op = "try_send" => call.n # 0
                /\ Goto(t, Frame(call.op, call, InFile(t, call.c)))
    BY <1>4 DEF Enter, Invokes, SendRefused
  <2>2. CASE Return(t, call, 0)
    BY <1>3, <2>1, <2>2
  <2>3. CASE ~Return(t, call, 0)
    <3>1. Untouched(t) /\ th'[t] = Frame(call.op, call, InFile(t, call.c))
      BY <1>0, <2>1, <2>3, ChangesTouch
    <3>2. th'[t].pc = call.op /\ th'[t].call = call
      BY <3>1, FrameParts
    <3>3. call.op = "try_send" => call.n = HdrSize
      BY <1>0, <2>1, <2>3 DEF OneWord, WordCalls
    <3>4. Placed(t)' /\ th'[t].pc \notin ReadPcs
      BY <2>1, <3>2, <3>3 DEF Placed, ReadPcs, TryPcs
    <3> QED
      BY <1>2, <2>1, <3>1, <3>4 DEF ReadPcs
  <2> QED
    BY <2>2, <2>3
<1>5. CASE FlagsLoad(t)
  <2>1. PICK call \in NextCalls(t) :
          /\ th[t].pc = "idle"
          /\ Goto(t, [Frame("flags", call, FALSE) EXCEPT !.flags = chan[call.c].flags])
    BY <1>5 DEF FlagsLoad, Invokes
  <2>2. Untouched(t) /\ th'[t] = [Frame("flags", call, FALSE) EXCEPT !.flags = chan[call.c].flags]
    BY <1>0, <2>1, ChangesTouch
  <2>3. th'[t].pc = "flags" /\ th'[t].flags = chan[call.c].flags
    BY <2>2 DEF Frame
  <2>4. "closed" \notin th'[t].flags
    BY <1>0, <2>3 DEF AllOpen, Closed, Calls
  <2>5. Placed(t)' /\ th'[t].pc \notin ReadPcs
    BY <2>3, <2>4 DEF Placed, ReadPcs, TryPcs
  <2> QED
    BY <1>2, <2>1, <2>2, <2>5 DEF ReadPcs
<1>6. CASE FlagsStore(t)
  BY <1>3, <1>6 DEF FlagsStore, At
<1>7. CASE SetOwner(t)
  BY <1>3, <1>7 DEF SetOwner, Invokes
<1>8. CASE Timer(t)
  BY <1>3, <1>8 DEF Timer
<1>9. CASE Sleep(t) \/ Spin(t)
  <2>1. PICK call \in NextCalls(t) :
          /\ th[t].pc = "idle"
          /\ Goto(t, Frame("asleep", call, FALSE)) \/ Goto(t, Frame("spin", call, FALSE))
    BY <1>9 DEF Sleep, Spin, Invokes
  <2>2. Untouched(t) /\ th'[t].pc \in {"asleep", "spin"}
    <3>1. PICK pc \in {"asleep", "spin"} : Goto(t, Frame(pc, call, FALSE))
      BY <2>1
    <3>2. Untouched(t) /\ th'[t] = Frame(pc, call, FALSE)
      BY <1>0, <3>1, ChangesTouch
    <3> QED
      BY <3>2 DEF Frame
  <2>3. Placed(t)' /\ th'[t].pc \notin ReadPcs
    BY <2>2, PlacedNext DEF ReadPcs, TryPcs
  <2> QED
    BY <1>2, <2>1, <2>2, <2>3 DEF ReadPcs
<1>10. CASE Go(t)
  <2>1. PICK call \in NextCalls(t) :
          th[t].pc = "idle" /\ Gone(call.to) /\ th' = [th EXCEPT ![call.to] = Idle]
    BY <1>10 DEF Go, Invokes
  <2>2. call.to \in Threads /\ th[call.to].pc = "idle"
    BY <1>0, <2>1 DEF GoneIdle, Calls
  <2>3. th'[t] = th[t] \/ th'[t] = Idle
    BY <1>0, <2>1
  <2>4. Placed(t)'
    BY <1>0, <2>3, PlacedNext DEF Placed
  <2>5. \A u \in Threads : th'[u] = th[u] \/ (th[u].pc \notin ReadPcs /\ th'[u].pc \notin ReadPcs)
    BY <1>0, <2>1, <2>2, FrameParts DEF ReadPcs
  <2> QED
    BY <1>0, <1>1, <2>4, <2>5, NoFileStep
<1>11. CASE Exit(t)
  <2>1. th' = th
    BY <1>11 DEF Exit
  <2>2. Placed(t)'
    BY <1>0, <2>1 DEF Placed
  <2>3. \A u \in Threads : th'[u] = th[u]
    BY <2>1
  <2> QED
    BY <1>0, <1>1, <2>2, <2>3, NoFileStep
<1> QED
  BY <1>4, <1>5, <1>6, <1>7, <1>8, <1>9, <1>10, <1>11

LEMMA WordSteps ==
  ASSUME OneWord, WordBase, WholeFiles, NEW t \in Threads, Step(t)
  PROVE  WholeFiles' /\ Places'
<1>0. TypeOK /\ InProgram /\ Places /\ ~Make(t) /\ ~Kill(t)
  BY NextIsOwn DEF WordBase, TypeOK, Make, Kill, Invokes, OneWord, WordCalls
<1>1. WholeFiles' /\ Placed(t)'
  <2>1. CASE Tries(t)
    BY <2>1, TrySendWord, TryRecvWord, PlacedNext DEF Tries
  <2> QED
    BY <1>0, <2>1, SendsWord, TakesWord, OthersWord DEF Step, Manages, Lives
<1>2. \A u \in Threads : Placed(u)'
  <2> TAKE u \in Threads
  <2>1. CASE u # t /\ th'[u] = th[u]
    BY <1>0, <2>1 DEF Places, Placed
  <2> QED
    BY <1>0, <1>1, <2>1, OthersStay, PlacedNext
<1>3. GoneIdle'
  <2> SUFFICES ASSUME NEW u \in Threads, Gone(u)' PROVE th'[u].pc = "idle"
    BY DEF GoneIdle
  <2>1. CASE u # t
    BY <1>0, <2>1, OthersStay, FrameParts DEF Places, GoneIdle
  <2> QED
    BY <1>0, <2>1, EndsIdle
<1>4. AllOpen'
  <2>0. AllOpen /\ ChanOK
    BY <1>0 DEF Places, TypeOK
  <2>1. CASE chan' = chan
    BY <2>0, <2>1 DEF AllOpen, Closed
  <2>2. CASE FlagsStore(t)
    <3>1. th[t].pc = "flags" /\ th[t].call.op # "close" /\ "closed" \notin th[t].flags
      BY <1>0, <2>2 DEF FlagsStore, At, InProgram, OneWord, WordCalls, Places, Placed
    <3>2. \E bit \in SUBSET {"buffered"} :
            chan' = [chan EXCEPT ![th[t].call.c].flags = th[t].flags \cup bit]
      BY <2>2, <3>1 DEF FlagsStore, MadeFlags
    <3> QED
      BY <2>0, <3>1, <3>2 DEF ChanOK, AllOpen, Closed
  <2>3. CASE SetOwner(t)
    <3>1. \E d, owner : chan' = [chan EXCEPT ![d].creator = owner]
      BY <2>3 DEF SetOwner
    <3>2. \A c \in Chans : chan'[c].flags = chan[c].flags
      BY <2>0, <3>1 DEF ChanOK
    <3> QED
      BY <2>0, <3>2 DEF AllOpen, Closed
  <2> QED
    BY <1>0, <2>1, <2>2, <2>3, ChanStays
<1> QED
  BY <1>1, <1>2, <1>3, <1>4 DEF Places

--------------------------------------------------------------------------------
(* The theorems *)

LEMMA WordInit ==
  ASSUME Init PROVE Places /\ WholeFiles
<1>1. ASSUME NEW t \in Threads PROVE th[t] = Idle
  BY DEF Init
<1>2. Places
  <2>1. ASSUME NEW c \in Chans PROVE ~Closed(c)
    <3>1. PICK buffered :
            chan = [d \in Chans |-> [creator |-> Creator[d], flags |-> MadeFlags(buffered[d])]]
      BY DEF Init
    <3> QED
      BY <3>1 DEF Closed, MadeFlags
  <2>2. ASSUME NEW t \in Threads PROVE th[t].pc = "idle"
    BY <1>1, FrameParts
  <2>3. GoneIdle /\ AllOpen
    BY <2>1, <2>2 DEF GoneIdle, AllOpen
  <2>4. ASSUME NEW t \in Threads PROVE Placed(t)
    BY <2>2 DEF Placed, ReadPcs, TryPcs
  <2> QED
    BY <2>3, <2>4 DEF Places
<1>3. ASSUME NEW c \in Chans, NEW k \in BOOLEAN PROVE WholeFile(c, k)
  <2>1. files[c][k] = <<>> /\ sent[c][k] = <<>> /\ rcvd[c][k] = <<>>
    BY DEF Init, NewFiles
  <2>2. \A t \in Threads : ~Reading(t, c, k)
    BY <1>1, FrameParts DEF Reading, ReadPcs
  <2>3. Takes(c, k, 0)
    BY <2>2 DEF Takes
  <2>4. Len(<<>>) \in Pairs /\ 1..Len(<<>>) = {}
    BY PairOfWords
  <2> QED
    BY <2>1, <2>3, <2>4, EmptyStream DEF WholeFile
<1> QED
  BY <1>2, <1>3 DEF WholeFiles

\* The inductive invariant.
LEMMA WordsInvariant ==
  ASSUME OneWord PROVE Spec => [](WordBase /\ WholeFiles)
<1>1. NoKills
  BY DEF NoKills, OneWord, WordCalls
<1>2. Init => Places /\ WholeFiles
  BY WordInit
<1>3. TypeOK /\ WaiterAsleep /\ InProgram /\ Places /\ WholeFiles /\ [Next]_vars => (Places /\ WholeFiles)'
  <2> SUFFICES ASSUME WordBase, WholeFiles, [Next]_vars PROVE (Places /\ WholeFiles)'
    BY DEF WordBase
  <2>1. CASE \E t \in Threads : Step(t)
    BY <2>1, WordSteps
  <2>2. CASE UNCHANGED vars
    <3>1. Places'
      BY <2>2 DEF vars, WordBase, Places, GoneIdle, AllOpen, Placed, Gone, Closed
    <3>2. WholeFiles'
      BY <2>2, NoFileStep DEF vars, WordBase
    <3> QED
      BY <3>1, <3>2
  <2> QED
    BY <2>1, <2>2 DEF Next, Ended
<1>4. Spec => [](TypeOK /\ WaiterAsleep /\ InProgram)
  BY <1>1, SlotsInvariant
<1> QED
  BY <1>2, <1>3, <1>4, PTL DEF Spec, WordBase

\* Integrity, where threads only send single words: any number of them send, try and
\* select on a channel, in both directions, and owners change, and still what is taken
\* out of a ring buffer are the messages that went in, each whole, in their order.
THEOREM WordsStayWhole ==
  ASSUME OneWord
  PROVE  Spec => []Integrity
<1>1. WholeFiles => Integrity
  BY DEF WholeFiles, WholeFile, Stream, Integrity
<1> QED
  BY <1>1, WordsInvariant, PTL

\* What a try operation returned tells whether it did something.
LEMMA ReturnsDiffer ==
  ASSUME TypeOK, NEW t \in Threads, NEW call \in Calls, NEW heard
  PROVE  Returned(ret[t], call, HdrSize, heard) # Returned(ret[t], call, 0, 0)
<1> DEFINE h == ret[t]
<1>0. h \in Seq(Results) /\ HdrSize \in Nat \ {0} /\ call.again \in Nat
  BY ChannelAssumption DEF TypeOK, ThreadsOK, Calls
<1> DEFINE big == [call |-> call, n |-> HdrSize, heard |-> heard]
           none == [call |-> call, n |-> 0, heard |-> 0]
<1>1. Returned(h, call, HdrSize, heard) = Append(h, big)
  BY <1>0 DEF Returned
<1>2. Append(h, big)[Len(h) + 1].n = HdrSize /\ Len(Append(h, big)) = Len(h) + 1
  BY <1>0
<1>3. CASE call.again = 0
  <2>1. Returned(h, call, 0, 0) = Append(h, none)
    BY <1>0, <1>3 DEF Returned
  <2>2. Append(h, none)[Len(h) + 1].n = 0
    BY <1>0
  <2> QED
    BY <1>0, <1>1, <1>2, <2>1, <2>2
<1>4. CASE call.again > 0
  <2>1. Returned(h, call, 0, 0) = SubSeq(h, 1, Len(h) + 1 - call.again)
    BY <1>4 DEF Returned
  <2>2. Len(SubSeq(h, 1, Len(h) + 1 - call.again)) <= Len(h)
    BY <1>0, <1>4
  <2> QED
    BY <1>0, <1>1, <1>2, <2>1, <2>2
<1> QED
  BY <1>0, <1>3, <1>4

\* A thread in a try operation is left alone until it takes that step.
LEMMA TryNext ==
  ASSUME TypeOK, InProgram, GoneIdle, NEW t \in Threads, Step(t), ~Make(t), ~Kill(t),
         NEW u \in Threads, th[u].pc \in TryPcs
  PROVE  (t # u /\ th'[u] = th[u]) \/ Tries(u)
<1>0. ThreadsOK /\ DOMAIN th = Threads /\ th[u].pc # "idle"
  BY DEF TypeOK, ThreadsOK, TryPcs
<1>1. CASE t # u
  <2>1. CASE ~Lives(t)
    <3>1. PICK call \in OwnCalls(t) : Orderly(t, call, PcsOf(call.op))
      BY <2>1, StepOrderly
    <3> QED
      BY <1>0, <1>1, <3>1 DEF Orderly, Changes
  <2>2. CASE Go(t)
    <3>1. PICK call \in NextCalls(t) : Gone(call.to) /\ th' = [th EXCEPT ![call.to] = Idle]
      BY <2>2 DEF Go
    <3>2. call.to # u
      BY <1>0, <3>1 DEF GoneIdle
    <3> QED
      BY <1>0, <1>1, <3>1, <3>2
  <2>3. CASE Sleep(t) \/ Timer(t) \/ Spin(t) \/ Exit(t)
    BY <1>0, <1>1, <2>3 DEF Sleep, Timer, Spin, Exit, Goto, Return, ReturnHeard
  <2> QED
    BY <1>1, <2>1, <2>2, <2>3 DEF Lives
<1>2. CASE t = u
  <2>1. ~Enter(u) /\ ~Manages(u) /\ ~Lives(u)
    BY DEF Enter, Manages, FlagsLoad, FlagsStore, SetOwner, Make, Lives, Go, Kill, Sleep, Timer, Spin,
           Exit, Invokes, At, TryPcs
  <2>2. ~Sends(u)
    BY DEF Sends, SendSync, SendSynced, SendMsgCall, SendHeaderAgain, SendResume, SendSent,
           Invokes, At, TryPcs
  <2>3. ~Recvs(u)
    BY DEF Recvs, RecvSync, RecvSynced, RecvMsgCall, RecvHeaderAgain, RecvResume, RecvGot,
           Invokes, At, TryPcs
  <2>4. ~Drops(u)
    BY DEF Drops, DropSync, DropSynced, DropHeaderAgain, DropResume, DropDropped, At, TryPcs
  <2> QED
    BY <1>2, <2>1, <2>2, <2>3, <2>4 DEF Step
<1> QED
  BY <1>1, <1>2

\* A try operation that returns 0 has done nothing, in the same programs: the other
\* theorem rests on it, for a message torn by one of them would tear all that follow.
THEOREM TriesTakeAllOrNothing ==
  ASSUME OneWord
  PROVE  Spec => TryIsAllOrNothing
<1> DEFINE Empty(t) ==
      th[t].pc \in {"try_send", "try_recv"} /\ th'[t] = Idle
        /\ ret'[t] = Returned(ret[t], th[t].call, 0, 0) => UNCHANGED <<files, sent, rcvd>>
<1>1. WordBase /\ WholeFiles /\ [Next]_vars => [\A t \in Threads : Empty(t)]_vars
  <2> SUFFICES ASSUME WordBase, WholeFiles, Next,
                      NEW u \in Threads, th[u].pc \in {"try_send", "try_recv"}, th'[u] = Idle,
                      ret'[u] = Returned(ret[u], th[u].call, 0, 0)
               PROVE  UNCHANGED <<files, sent, rcvd>>
    BY DEF Empty
  <2>0. TypeOK /\ InProgram /\ GoneIdle /\ th[u].pc \in TryPcs /\ th[u].pc # "idle"
    BY DEF WordBase, Places, TryPcs
  <2>1. th[u].call \in Calls
    BY <2>0, FrameFacts DEF TypeOK
  <2>2. CASE Ended
    BY <2>2 DEF Ended, vars
  <2>3. ASSUME NEW t \in Threads, Step(t) PROVE UNCHANGED <<files, sent, rcvd>>
    <3>1. ~Make(t) /\ ~Kill(t)
      BY <2>0, NextIsOwn DEF TypeOK, Make, Kill, Invokes, OneWord, WordCalls
    <3>2. Tries(u)
      BY <2>0, <2>3, <3>1, TryNext, FrameParts
    <3> QED
      BY <2>0, <2>1, <3>2, TrySendWord, TryRecvWord, ReturnsDiffer DEF Tries
  <2> QED
    BY <2>2, <2>3 DEF Next
<1> QED
  BY <1>1, WordsInvariant, PTL DEF Spec, TryIsAllOrNothing, Empty

================================================================================
