------------------------------- MODULE PairProofs -------------------------------
(******************************************************************************)
(* NoHang and NothingLeft, for every two threads whose calls match one by one *)
(* on buffered channels: whatever one sends in its i-th call the other        *)
(* receives in its i-th, on any channels, in both directions, in messages of  *)
(* any size.  The invariant counts the calls.                                 *)
(******************************************************************************)
EXTENDS FifoProofs, FiniteSetTheorems

--------------------------------------------------------------------------------
(* The programs *)

\* turns[i] is the channel and the file the i-th call of either thread is about.
Turns == Seq(Chans \X BOOLEAN)
Told(turns, i, c, k) == {x \in 1..i : turns[x] = <<c, k>>}

\* Nothing but messages with data, received into buffers.
TalkOps == {"send", "send_msg", "recv", "recv_msg"}
Talks ==
  \A t \in Threads : \A call \in OwnCalls(t) :
    /\ call.op \in TalkOps /\ call.n # 0
    /\ call.op \in SendOps => call.n \in Words

\* After i calls a thread has one to make as long as there is a turn, and makes it on
\* the file of that turn, which it writes or reads.
InTurn(turns) ==
  \A t \in Threads, h \in Seq(Results) :
    /\ Len(h) < Len(turns) => \E call \in Calls : call \in Code(t, h)
    /\ \A call \in Calls : call \in Code(t, h) =>
         /\ Len(h) < Len(turns)
         /\ turns[Len(h) + 1] = <<call.c, (Creator[call.c] = t) = (call.op \in SendOps)>>

\* No call waits in channel_synchronize.
Unsynchronized ==
  \/ Modes = {TRUE}
  \/ \A t \in Threads : \A call \in OwnCalls(t) : call.op \in {"send_msg", "recv_msg"}

\* The ring buffer holds a header and something more.
RoomForData == BufSize \in Words /\ BufSize # HdrSize /\ ~Tsrb

Conversation(turns) ==
  /\ turns \in Turns
  /\ \E a, b : a # b /\ Threads = {a, b}
  /\ Boot \subseteq {Threads}
  /\ Talks /\ InTurn(turns) /\ Unsynchronized /\ RoomForData

--------------------------------------------------------------------------------
(* The invariant *)

\* A thread in a call is in one its program lets it make now, and past
\* channel_synchronize; one that ended has made all its calls.
Engaged ==
  \A t \in Threads :
    /\ th[t].pc # "idle" => th[t].call \in NextCalls(t)
    /\ th[t].pc \in {"send", "recv"} => Buffered(th[t].call.c)
    /\ th[t].pc \notin {"send_body", "recv_body"}
    /\ th[t].pc = "send_loop" => th[t].bytes < th[t].call.n
    /\ Gone(t) => th[t].pc = "idle" /\ NextCalls(t) = {}

\* Who sleeps in a send has the ring buffer full before it, in a receive empty.
Waiting ==
  \A t \in Threads : status[t] = "sleeping" =>
    \/ th[t].pc \in {"send_hdr", "send_loop"} /\ RbFree(files[th[t].call.c][th[t].rb]) = 0
    \/ th[t].pc \in {"recv_hdr", "recv_loop"} /\ Len(files[th[t].call.c][th[t].rb]) = 0

\* A file has as many messages as its turns that its writer has had, and one more
\* while it writes; as many were taken as turns its reader has had.
Counts(turns) ==
  \A t \in Threads, c \in Chans, k \in BOOLEAN :
    LET told == Cardinality(Told(turns, Len(ret[t]), c, k))
    IN  IF k = (Creator[c] = t)
        THEN Len(sent[c][k]) = told + (IF Writing(t, c, k) THEN 1 ELSE 0)
        ELSE Len(rcvd[c][k]) = told

\* Nobody has had more turns than there are.
OnTurn(turns) == \A t \in Threads : Len(ret[t]) <= Len(turns)

Talking(turns) ==
  /\ Modes = {TRUE} => \A c \in Chans : Buffered(c)
  /\ Engaged /\ Waiting /\ Counts(turns) /\ OnTurn(turns)
TalkInv(turns) == Talking(turns) /\ NoLostWaiter

--------------------------------------------------------------------------------
(* What a conversation is *)

LEMMA TwoThreads ==
  ASSUME NEW turns, Conversation(turns), NEW c \in Chans, NEW t \in Threads, NEW u \in Threads, t # u
  PROVE  /\ (Creator[c] = t) <=> ~(Creator[c] = u)
         /\ Threads = {t, u}
<1>1. Creator[c] \in Threads
  BY ChannelAssumption
<1>2. Threads = {t, u}
  BY DEF Conversation
<1> QED
  BY <1>1, <1>2

LEMMA ConversationPlain ==
  ASSUME NEW turns, Conversation(turns)
  PROVE  Disciplined /\ NoMakes /\ NoCloses /\ HasData /\ NoKills
<1>1. \A t \in Threads : \A call \in OwnCalls(t) :
        /\ call.op \in TalkOps /\ call.n # 0 /\ call.n \in Nat
        /\ call.op \in SendOps => call.n \in Words
  BY DEF Conversation, Talks, OwnCalls, Calls
<1>2. OneWriter /\ OneReader
  BY TwoThreads DEF OneWriter, OneReader, MayWrite, MayRead
<1>3. DropsAlone
  BY <1>1 DEF DropsAlone, MayCall, TalkOps
<1>4. WholeWords
  BY <1>1 DEF WholeWords, Conversation, RoomForData
<1>5. PlainCalls /\ NoMakes /\ NoCloses /\ NoKills
  BY <1>1 DEF PlainCalls, NoMakes, NoCloses, NoKills, TalkOps
<1>6. HasData
  BY <1>1 DEF HasData
<1> QED
  BY <1>2, <1>3, <1>4, <1>5, <1>6 DEF Disciplined

\* One turn more is one message more, in the file of that turn.
LEMMA OneTurn ==
  ASSUME NEW turns \in Turns, NEW i \in Nat, NEW c, NEW k
  PROVE  /\ IsFiniteSet(Told(turns, i, c, k)) /\ Cardinality(Told(turns, i, c, k)) \in Nat
         /\ Cardinality(Told(turns, i + 1, c, k)) =
              Cardinality(Told(turns, i, c, k)) + (IF turns[i + 1] = <<c, k>> THEN 1 ELSE 0)
<1> DEFINE T(n) == Told(turns, n, c, k)
<1>1. IsFiniteSet(T(i)) /\ Cardinality(T(i)) \in Nat
  <2>1. IsFiniteSet(1..i)
    BY FS_Interval
  <2>2. T(i) \subseteq 1..i
    BY DEF Told
  <2>3. IsFiniteSet(T(i))
    BY <2>1, <2>2, FS_Subset
  <2> QED
    BY <2>3, FS_CardinalityType
<1>2. 1..i + 1 = (1..i) \cup {i + 1} /\ i + 1 \notin 1..i
  OBVIOUS
<1>3. CASE turns[i + 1] = <<c, k>>
  <2>1. T(i + 1) = T(i) \cup {i + 1} /\ i + 1 \notin T(i)
    BY <1>2, <1>3 DEF Told
  <2>2. Cardinality(T(i + 1)) = Cardinality(T(i)) + 1
    BY <1>1, <2>1, FS_AddElement
  <2> QED
    BY <1>1, <1>3, <2>2
<1>4. CASE turns[i + 1] # <<c, k>>
  <2>1. T(i + 1) = T(i)
    BY <1>2, <1>4 DEF Told
  <2> QED
    BY <1>1, <1>4, <2>1
<1> QED
  BY <1>1, <1>3, <1>4

\* Who had more turns had at least as many messages, and one more if it had this turn.
LEMMA MoreTurns ==
  ASSUME NEW turns \in Turns, NEW i \in Nat, NEW j \in Nat, i <= j, NEW c, NEW k
  PROVE  /\ Cardinality(Told(turns, i, c, k)) <= Cardinality(Told(turns, j, c, k))
         /\ i < j /\ turns[i + 1] = <<c, k>> =>
              Cardinality(Told(turns, i, c, k)) + 1 <= Cardinality(Told(turns, j, c, k))
<1> DEFINE T(n) == Told(turns, n, c, k)
<1>1. ASSUME NEW a \in Nat, a <= j PROVE Cardinality(T(a)) <= Cardinality(T(j))
  <2>1. T(a) \subseteq T(j)
    BY <1>1 DEF Told
  <2>2. IsFiniteSet(T(j))
    BY OneTurn
  <2> QED
    BY <2>1, <2>2, FS_Subset
<1>2. i < j => Cardinality(T(i + 1)) <= Cardinality(T(j))
  BY <1>1
<1>3. /\ Cardinality(T(i)) \in Nat
      /\ Cardinality(T(i + 1)) = Cardinality(T(i)) + (IF turns[i + 1] = <<c, k>> THEN 1 ELSE 0)
  BY OneTurn
<1> QED
  BY <1>1, <1>2, <1>3

--------------------------------------------------------------------------------
(* Full and empty files *)

LEMMA AllTaken ==
  ASSUME NEW q \in Rings, NEW s \in Seq(Messages), NEW d, NEW owed, NEW took,
         Stream(q, s, d, owed, took), Len(d) = Len(s)
  PROVE  Len(q) = 0
<1>1. Len(q) \in Nat /\ owed \in Nat /\ took \in Nat /\ Len(s) \in Nat
  BY RingFacts, WordFacts, LenProperties DEF Stream
<1>2. PICK pos : pos[Len(s) + 1] = Len(q) + owed /\ pos[Len(d) + 1] = 0 - took
  BY DEF Stream
<1>3. Len(q) + owed = 0 - took
  BY <1>2
<1> QED
  BY <1>1, <1>3

LEMMA SomeLeft ==
  ASSUME NEW q \in Rings, NEW s \in Seq(Messages), NEW d \in Seq(Seq(CellSet)), NEW took,
         Stream(q, s, d, 0, took), Len(d) < Len(s), took < HdrSize + s[Len(d) + 1].size
  PROVE  Len(q) > 0
<1> DEFINE n == Len(d) + 1
<1>1. /\ Len(q) \in Nat /\ took \in Nat /\ Len(s) \in Nat /\ Len(d) \in Nat
      /\ n \in 1..Len(s) /\ HdrSize \in Nat
  <2>1. took \in Words
    BY DEF Stream
  <2>2. took \in Nat
    BY <2>1, WordFacts
  <2>3. Len(s) \in Nat /\ Len(d) \in Nat /\ Len(q) \in Nat
    BY RingFacts, LenProperties
  <2> QED
    BY <2>2, <2>3, ChannelAssumption
<1>2. s[n].size \in Nat
  <2>1. s[n] \in Messages
    BY <1>1, ElementOfSeq
  <2> QED
    BY <2>1 DEF Messages
<1>3. PICK pos : Laid(pos, q, s) /\ pos[Len(s) + 1] = Len(q) + 0 /\ pos[n] = 0 - took
  BY DEF Stream
<1>4. pos[n + 1] = pos[n] + HdrSize + s[n].size
  BY <1>1, <1>3 DEF Laid
<1>5. n + 1 \in 1..Len(s) + 1 /\ Len(s) + 1 \in 1..Len(s) + 1 /\ n + 1 <= Len(s) + 1
  BY <1>1
<1>6. pos[n + 1] <= pos[Len(s) + 1]
  BY <1>3, <1>5 DEF Laid
<1> HIDE DEF n
<1>7. 0 - took + HdrSize + s[n].size <= Len(q)
  BY <1>1, <1>3, <1>4, <1>6
<1>8. took < HdrSize + s[n].size
  BY DEF n
<1> QED
  BY <1>1, <1>2, <1>7, <1>8

--------------------------------------------------------------------------------
(* Nobody is stuck *)

Known == Base /\ NeverClosed /\ Streams /\ DataInHand /\ DataInMessages

\* A thread inside a send or a receive is at the file of its turn.
LEMMA AtItsTurn ==
  ASSUME NEW turns, Conversation(turns), Base, Engaged, NEW t \in Threads,
         th[t].pc \in OutPcs \cup InPcs
  PROVE  /\ Len(ret[t]) \in Nat /\ Len(ret[t]) < Len(turns)
         /\ turns[Len(ret[t]) + 1] = <<th[t].call.c, th[t].rb>>
         /\ th[t].call \in Calls /\ th[t].call.c \in Chans /\ th[t].rb \in BOOLEAN
         /\ th[t].pc \in OutPcs => th[t].call.op \in SendOps /\ th[t].rb = (Creator[th[t].call.c] = t)
         /\ th[t].pc \in InPcs =>
              th[t].call.op \in {"recv", "recv_msg"} /\ th[t].rb = (Creator[th[t].call.c] # t)
<1> DEFINE call == th[t].call
<1>1. /\ th[t].pc # "idle" /\ call \in Code(t, ret[t]) /\ call \in Calls /\ call \in OwnCalls(t)
      /\ th[t].pc \in PcsOf(call.op) /\ RightFile(t) /\ ret[t] \in Seq(Results) /\ ThreadsOK
  BY DEF Engaged, NextCalls, Base, InProgram, Settled, TypeOK, ThreadsOK, OutPcs, InPcs, WritePcs,
         ReadPcs
<1>2. Len(ret[t]) \in Nat /\ call.c \in Chans /\ th[t].rb \in BOOLEAN
  BY <1>1, LenProperties, FrameFacts DEF Calls
<1>3. /\ Len(ret[t]) < Len(turns)
      /\ turns[Len(ret[t]) + 1] = <<call.c, (Creator[call.c] = t) = (call.op \in SendOps)>>
  <2>1. \A h \in Seq(Results) : call \in Code(t, h) =>
          /\ Len(h) < Len(turns)
          /\ turns[Len(h) + 1] = <<call.c, (Creator[call.c] = t) = (call.op \in SendOps)>>
    BY <1>1 DEF Conversation, InTurn
  <2> QED
    BY <1>1, <2>1
<1>4. call.op \in TalkOps
  BY <1>1 DEF Conversation, Talks
<1>5. ASSUME th[t].pc \in OutPcs
      PROVE  call.op \in SendOps /\ th[t].rb = (Creator[call.c] = t)
  BY <1>1, <1>4, <1>5
     DEF OutPcs, WritePcs, PcsOf, RecvPcs, TalkOps, SendOps, RightFile
<1>6. ASSUME th[t].pc \in InPcs
      PROVE  call.op \in {"recv", "recv_msg"} /\ th[t].rb = (Creator[call.c] # t)
  BY <1>1, <1>4, <1>6
     DEF InPcs, ReadPcs, PcsOf, SendPcs, TalkOps, RightFile
<1>7. th[t].rb = ((Creator[call.c] = t) = (call.op \in SendOps))
  <2>1. CASE th[t].pc \in OutPcs
    BY <1>5, <2>1
  <2>2. CASE th[t].pc \in InPcs
    BY <1>6, <2>2 DEF SendOps
  <2> QED
    BY <2>1, <2>2
<1> QED
  BY <1>1, <1>2, <1>3, <1>5, <1>6, <1>7

LEMMA AllHad ==
  ASSUME NEW turns, Conversation(turns), TypeOK, NEW t \in Threads, NextCalls(t) = {}
  PROVE  Len(ret[t]) >= Len(turns) /\ Len(ret[t]) \in Nat /\ Len(turns) \in Nat
<1>1. ret[t] \in Seq(Results) /\ turns \in Turns
  BY DEF TypeOK, ThreadsOK, Conversation
<1>2. ~(Len(ret[t]) < Len(turns))
  BY <1>1 DEF Conversation, InTurn, NextCalls
<1> QED
  BY <1>1, <1>2, LenProperties DEF Turns

\* Of two threads that both wait or have ended, let the first have had no more turns.
\* What it waits for has come: its partner has had the turn it is in, or is in it too.
LEMMA NotAhead ==
  ASSUME NEW turns, Conversation(turns), Known, Talking(turns),
         NEW t \in Threads, NEW u \in Threads, t # u, Len(ret[t]) <= Len(ret[u]),
         status[t] = "sleeping", status[u] = "sleeping" \/ Gone(u)
  PROVE  FALSE
<1> DEFINE c == th[t].call.c
           k == th[t].rb
           i == Len(ret[t])
           j == Len(ret[u])
           q == files[c][k]
           s == sent[c][k]
           d == rcvd[c][k]
           told(n) == Cardinality(Told(turns, n, c, k))
<1>0. /\ TypeOK /\ Base /\ Engaged /\ Waiting /\ Counts(turns) /\ turns \in Turns
      /\ ~Tsrb /\ BufSize \in Nat \ {0} /\ HdrSize \in Nat \ {0}
  BY RiotAssumption, ChannelAssumption
     DEF Known, Base, Talking, Conversation, RoomForData
<1>1. \/ th[t].pc \in {"send_hdr", "send_loop"} /\ RbFree(q) = 0
      \/ th[t].pc \in {"recv_hdr", "recv_loop"} /\ Len(q) = 0
  BY <1>0 DEF Waiting
<1>2. th[t].pc \in OutPcs \cup InPcs
  BY <1>1 DEF OutPcs, InPcs, WritePcs, ReadPcs
<1>3. /\ i \in Nat /\ i < Len(turns) /\ turns[i + 1] = <<c, k>>
      /\ c \in Chans /\ k \in BOOLEAN
      /\ th[t].pc \in OutPcs => k = (Creator[c] = t)
      /\ th[t].pc \in InPcs => k = (Creator[c] # t)
  BY <1>0, <1>2, AtItsTurn
<1>4. j \in Nat /\ i <= j
  BY <1>0, LenProperties DEF TypeOK, ThreadsOK
<1>5. q \in Rings /\ s \in Seq(Messages) /\ d \in Seq(Seq(CellSet))
  BY <1>0, <1>3 DEF TypeOK, FilesOK, HistoryOK
<1>6. /\ Len(q) \in Nat /\ Len(s) \in Nat /\ Len(d) \in Nat /\ Len(d) <= Len(s)
      /\ RbFree(q) = 0 => Len(q) > 0
  <2>1. Len(q) \in Nat /\ Len(s) \in Nat /\ Len(d) \in Nat
    BY <1>5, RingFacts, LenProperties
  <2>2. Len(d) <= Len(s)
    BY <1>3 DEF Known, Streams, FileOK, Stream
  <2> QED
    BY <1>0, <2>1, <2>2 DEF RbFree
<1>7. (Creator[c] = t) <=> ~(Creator[c] = u)
  BY <1>3, TwoThreads
<1>8. PICK owed, took : Stream(q, s, d, owed, took) /\ Owes(c, k, owed) /\ Takes(c, k, took)
  BY <1>3 DEF Known, Streams, FileOK
<1>9. told(i) \in Nat /\ told(j) \in Nat /\ told(i) <= told(j) /\ (i < j => told(i) + 1 <= told(j))
  BY <1>0, <1>3, <1>4, OneTurn, MoreTurns
<1>10. CASE i = j
  <2>1. ~Gone(u)
    <3>1. j < Len(turns) /\ Len(turns) \in Nat
      BY <1>0, <1>3, <1>10, LenProperties DEF Turns
    <3>2. ASSUME Gone(u) PROVE FALSE
      <4>1. NextCalls(u) = {}
        BY <1>0, <3>2 DEF Engaged
      <4>2. j >= Len(turns)
        BY <1>0, <4>1, AllHad
      <4> QED
        BY <1>4, <3>1, <4>2
    <3> QED
      BY <3>2
  <2>2. \/ th[u].pc \in {"send_hdr", "send_loop"} /\ RbFree(files[th[u].call.c][th[u].rb]) = 0
        \/ th[u].pc \in {"recv_hdr", "recv_loop"} /\ Len(files[th[u].call.c][th[u].rb]) = 0
    BY <1>0, <2>1 DEF Waiting
  <2>3. th[u].pc \in OutPcs \cup InPcs
    BY <2>2 DEF OutPcs, InPcs, WritePcs, ReadPcs
  <2>4. /\ turns[j + 1] = <<th[u].call.c, th[u].rb>>
        /\ th[u].pc \in OutPcs => th[u].rb = (Creator[th[u].call.c] = u)
        /\ th[u].pc \in InPcs => th[u].rb = (Creator[th[u].call.c] # u)
    BY <1>0, <2>3, AtItsTurn
  <2>5. th[u].call.c = c /\ th[u].rb = k
    BY <1>3, <1>10, <2>4
  <2>6. CASE th[t].pc \in {"send_hdr", "send_loop"}
    <3>1. th[t].pc \in OutPcs
      BY <2>6 DEF OutPcs, WritePcs
    <3>2. th[u].pc \notin OutPcs
      BY <1>3, <1>7, <2>4, <2>5, <3>1
    <3>3. Len(q) = 0
      BY <2>2, <2>5, <3>2 DEF OutPcs, WritePcs
    <3> QED
      BY <1>1, <1>6, <2>6, <3>3
  <2>7. CASE th[t].pc \in {"recv_hdr", "recv_loop"}
    <3>1. th[t].pc \in InPcs
      BY <2>7 DEF InPcs, ReadPcs
    <3>2. th[u].pc \notin InPcs
      BY <1>3, <1>7, <2>4, <2>5, <3>1
    <3>3. RbFree(q) = 0
      BY <2>2, <2>5, <3>2 DEF InPcs, ReadPcs
    <3> QED
      BY <1>1, <1>6, <2>7, <3>3
  <2> QED
    BY <1>1, <2>6, <2>7
<1>11. CASE i < j /\ th[t].pc \in {"send_hdr", "send_loop"}
  <2>1. k = (Creator[c] = t)
    BY <1>3, <1>11 DEF OutPcs, WritePcs
  <2>2. Len(s) = told(i) + (IF Writing(t, c, k) THEN 1 ELSE 0)
    BY <1>0, <1>3, <2>1 DEF Counts
  <2>3. Len(d) = told(j)
    BY <1>0, <1>3, <1>7, <2>1 DEF Counts
  <2>4. Len(d) = Len(s)
    BY <1>6, <1>9, <1>11, <2>2, <2>3
  <2>5. Len(q) = 0
    BY <1>5, <1>8, <2>4, AllTaken
  <2> QED
    BY <1>1, <1>6, <1>11, <2>5
<1>12. CASE i < j /\ th[t].pc \in {"recv_hdr", "recv_loop"}
  <2>1. k = (Creator[c] # t)
    BY <1>3, <1>12 DEF InPcs, ReadPcs
  <2>2. Len(d) = told(i)
    BY <1>0, <1>3, <2>1 DEF Counts
  <2>3. Len(s) = told(j) + (IF Writing(u, c, k) THEN 1 ELSE 0)
    BY <1>0, <1>3, <1>7, <2>1 DEF Counts
  <2>4. Len(d) < Len(s)
    BY <1>6, <1>9, <1>12, <2>2, <2>3
  <2>5. ~Writing(u, c, k)
    <3> SUFFICES ASSUME Writing(u, c, k) PROVE FALSE
      OBVIOUS
    <3>1. status[u] = "sleeping"
      BY <1>0 DEF Engaged, Writing, WritePcs
    <3>2. RbFree(q) = 0
      BY <1>0, <3>1 DEF Waiting, Writing, WritePcs
    <3> QED
      BY <1>1, <1>6, <1>12, <3>2
  <2>6. \A v \in Threads : v = t \/ v = u
    BY <1>3, TwoThreads
  <2>7. \A v \in Threads : ~Writing(v, c, k)
    BY <1>12, <2>5, <2>6 DEF Writing, WritePcs
  <2>8. owed = 0
    BY <1>3, <1>8, <2>7 DEF Owes, Known, NeverClosed
  <2>9. ~Reading(u, c, k)
    <3>1. ASSUME Reading(u, c, k) PROVE k = (Creator[c] # u)
      BY <1>0, <1>3, <3>1, WhoMay DEF Base, MayRead
    <3> QED
      BY <1>7, <2>1, <3>1
  <2>10. Len(d) + 1 \in 1..Len(s) /\ s[Len(d) + 1].size \in Nat /\ s[Len(d) + 1].size > 0
    <3>0. \A m, n \in Nat : m < n => m + 1 \in 1..n
      OBVIOUS
    <3>1. Len(d) + 1 \in 1..Len(s)
      BY <1>6, <2>4, <3>0
    <3>2. s[Len(d) + 1] \in Messages
      BY <1>5, <3>1, ElementOfSeq
    <3> QED
      BY <1>3, <3>1, <3>2 DEF Messages, Known, DataInMessages
  <2>11. took < HdrSize + s[Len(d) + 1].size
    <3>0. PICK size \in Nat : size = s[Len(d) + 1].size /\ size > 0
      BY <2>10
    <3>3. /\ \A a, b \in Nat : a < b => HdrSize + a < HdrSize + b
          /\ \A b \in Nat : 0 < HdrSize + b
      BY ChannelAssumption
    <3>1. CASE Reading(t, c, k)
      <4>1. Holds(t, c, k, took) /\ th[t].pc = "recv_loop"
        BY <1>8, <1>12, <3>1 DEF Takes, Reading, ReadPcs
      <4>2. PICK n \in Nat : n = Len(th[t].out)
        BY <1>0, LenProperties DEF TypeOK, ThreadsOK, Frames
      <4>3. took = HdrSize + n /\ (size = 0 \/ n < size)
        BY <3>0, <4>1, <4>2 DEF Holds
      <4>4. n < size
        <5>1. \A a \in Nat : a > 0 => a # 0
          OBVIOUS
        <5> QED
          BY <3>0, <4>3, <5>1
      <4>5. HdrSize + n < HdrSize + size
        BY <3>0, <3>3, <4>2, <4>4
      <4>6. took < HdrSize + size
        BY <4>3, <4>5
      <4> QED
        BY <3>0, <4>6
    <3>2. CASE ~Reading(t, c, k)
      <4>1. took = 0
        BY <1>8, <2>6, <2>9, <3>2 DEF Takes
      <4>2. took < HdrSize + size
        BY <3>0, <3>3, <4>1
      <4> QED
        BY <3>0, <4>2
    <3> QED
      BY <3>1, <3>2
  <2>12. Len(q) > 0
    BY <1>5, <1>8, <2>4, <2>8, <2>11, SomeLeft
  <2> QED
    BY <1>1, <1>12, <2>12
<1> QED
  BY <1>1, <1>3, <1>4, <1>10, <1>11, <1>12

\* Never do both threads wait, nor one that the other has left behind.
NobodyStuck ==
  \A t, u \in Threads : t # u /\ status[t] = "sleeping" => status[u] = "ready"

LEMMA SomebodyRuns ==
  ASSUME NEW turns, Conversation(turns), Known, Talking(turns)
  PROVE  NobodyStuck
<1> SUFFICES ASSUME NEW t \in Threads, NEW u \in Threads, t # u, status[t] = "sleeping",
                    status[u] # "ready"
             PROVE  FALSE
  BY DEF NobodyStuck
<1>0. TypeOK /\ Engaged
  BY DEF Known, Base, Talking
<1>1. status[u] = "sleeping" \/ Gone(u)
  BY <1>0 DEF TypeOK, SchedOK, Statuses, Gone
<1>2. Len(ret[t]) \in Nat /\ Len(ret[u]) \in Nat
  BY <1>0, LenProperties DEF TypeOK, ThreadsOK
<1>3. CASE status[u] = "sleeping"
  BY <1>2, <1>3, NotAhead
<1>4. CASE Gone(u)
  <2>1. Len(ret[u]) >= Len(turns) /\ Len(turns) \in Nat
    BY <1>0, <1>4, AllHad DEF Engaged
  <2>2. ~(Len(ret[t]) <= Len(ret[u]))
    BY <1>1, NotAhead
  <2>3. th[t].pc \in OutPcs \cup InPcs
    BY DEF Talking, Waiting, OutPcs, InPcs, WritePcs, ReadPcs
  <2>4. Len(ret[t]) < Len(turns)
    BY <2>3, AtItsTurn DEF Known, Talking
  <2> QED
    BY <1>2, <2>1, <2>2, <2>4
<1> QED
  BY <1>1, <1>3, <1>4

--------------------------------------------------------------------------------
(* The steps of a conversation *)

\* A receiver inside a message wants more of it whenever it waits.
Wanting ==
  \A t \in Threads : th[t].pc \in ReadPcs =>
    th[t].size > 0 /\ (th[t].pc = "recv_loop" => Len(th[t].out) < th[t].size)

LEMMA Wants == Known => Wanting
<1> SUFFICES ASSUME Known, NEW t \in Threads, th[t].pc \in ReadPcs
             PROVE  th[t].size > 0 /\ (th[t].pc = "recv_loop" => Len(th[t].out) < th[t].size)
  BY DEF Wanting
<1> DEFINE c == th[t].call.c
           k == th[t].rb
<1>1. /\ TypeOK /\ HistoryOK /\ c \in Chans /\ k \in BOOLEAN /\ Reading(t, c, k)
      /\ th[t].size \in Nat
  <2>1. TypeOK /\ HistoryOK /\ th[t].pc # "idle"
    BY DEF Known, Base, TypeOK, ReadPcs
  <2>2. c \in Chans /\ k \in BOOLEAN /\ th[t].size \in Nat
    BY <2>1, FrameFacts DEF TypeOK
  <2> QED
    BY <2>1, <2>2 DEF Reading
<1>2. PICK took : Holds(t, c, k, took)
  BY <1>1 DEF Known, Streams, FileOK, Takes
<1>3. sent[c][k] \in Seq(Messages) /\ rcvd[c][k] \in Seq(Seq(CellSet))
  BY <1>1 DEF HistoryOK
<1>4. Len(rcvd[c][k]) + 1 \in 1..Len(sent[c][k])
  <2>1. \A m, n \in Nat : m < n => m + 1 \in 1..n
    OBVIOUS
  <2> QED
    BY <1>2, <1>3, <2>1, LenProperties DEF Holds
<1>5. th[t].size > 0
  BY <1>1, <1>2, <1>4 DEF Holds, Known, DataInMessages
<1>6. \A n \in Nat : n > 0 => n # 0
  OBVIOUS
<1> QED
  BY <1>1, <1>2, <1>5, <1>6 DEF Holds

MyCall(t, call) == call \in NextCalls(t) /\ (th[t].pc = "idle" \/ th[t].call = call)
Alone(t) == \A u \in Threads \ {t} : Same(u)
OtherFiles(c, k) == \A d \in Chans, l \in BOOLEAN : d # c \/ l # k => SameFile(d, l)
One(b) == IF b THEN 1 ELSE 0

\* t has found its channel open.
Starts(t) ==
  \E call \in NextCalls(t) :
    /\ th[t].pc = "idle"
    /\ call.op \in {"send", "recv"} /\ th'[t].pc = call.op /\ th'[t].call = call
    /\ Alone(t) /\ UNCHANGED <<status, blocked, chan, files, sent, rcvd, ret>>

\* t puts something in and wakes the reader, or finds the file full and sleeps.
Puts(t, call, k) ==
  LET c == call.c
  IN  /\ MyCall(t, call) /\ call.op \in SendOps /\ k = (Creator[c] = t)
      /\ Alone(t) /\ OtherFiles(c, k) /\ UNCHANGED <<chan, rcvd, ret>>
      /\ th'[t].pc \in OutPcs /\ th'[t].call = call /\ th'[t].rb = k
      /\ Len(sent'[c][k]) + One(Writing(t, c, k)) = Len(sent[c][k]) + One(Writing(t, c, k)')
      /\ \/ th'[t].pc = "send_sent" /\ Wake(c, "write")
         \/ /\ th'[t].pc \in {"send_hdr", "send_loop"} /\ Block(t, c, "read")
            /\ RbFree(files'[c][k]) = 0 /\ Len(files[c][k]) > 0
            /\ th'[t].pc = "send_loop" => th'[t].bytes < call.n

\* t takes something out and wakes the writer, or finds the file empty and sleeps.
Gets(t, call, k) ==
  LET c == call.c
  IN  /\ MyCall(t, call) /\ call.op \notin SendOps /\ k = (Creator[c] # t)
      /\ Alone(t) /\ OtherFiles(c, k) /\ UNCHANGED <<chan, sent, rcvd, ret>>
      /\ th'[t].pc \in InPcs /\ th'[t].call = call /\ th'[t].rb = k
      /\ \/ th'[t].pc = "recv_got" /\ Wake(c, "read")
         \/ /\ th'[t].pc \in {"recv_hdr", "recv_loop"} /\ Block(t, c, "write")
            /\ Len(files'[c][k]) = 0 /\ RbFree(files[c][k]) > 0

\* t's turn is over.
Ends(t) ==
  /\ th'[t] = Idle /\ \E r : ret'[t] = Append(ret[t], r)
  /\ Alone(t) /\ UNCHANGED <<status, blocked, chan, files, sent>>
  /\ \/ th[t].pc = "send_sent" /\ UNCHANGED rcvd
     \/ /\ th[t].pc = "recv_got"
        /\ \E out \in Seq(CellSet) : rcvd' = Noted(rcvd, th[t].call.c, th[t].rb, out)

Kind(t) ==
  \/ Starts(t) \/ Ends(t) \/ Exit(t)
  \/ \E call \in Calls, k \in BOOLEAN : Puts(t, call, k) \/ Gets(t, call, k)

LEMMA SendLoopPuts ==
  ASSUME NEW turns, Conversation(turns), Known, NEW t \in Threads,
         NEW call \in Calls, NEW k \in BOOLEAN, MyCall(t, call), call.op \in SendOps,
         k = (Creator[call.c] = t), UNCHANGED <<chan, rcvd>>,
         NEW q \in Rings, NEW bytes \in 0..call.n, bytes < call.n,
         SendLoop(t, call, k, q, bytes),
         \A d \in Chans, l \in BOOLEAN : d # call.c \/ l # k => sent'[d][l] = sent[d][l],
         Len(sent'[call.c][k]) + One(Writing(t, call.c, k)) = Len(sent[call.c][k]) + 1,
         RbFree(q) = 0 => Len(files[call.c][k]) > 0
  PROVE  Puts(t, call, k)
<1> DEFINE c == call.c
           m == Message(t, call)
           rest == Rest(m, bytes)
           chunk == Least(RbFree(q), Len(rest))
<1>0. /\ ThreadsOK /\ FilesOK /\ c \in Chans /\ ~Closed(c) /\ ~Tsrb
      /\ HdrSize \in Nat /\ call.n \in Nat /\ bytes \in Nat
  BY ChannelAssumption DEF Known, Base, TypeOK, Calls, NeverClosed, Conversation, RoomForData
<1>1. \E r : Put(c, k, r)
  BY DEF SendLoop
<1>2. OtherFiles(c, k)
  <2>1. \A d \in Chans, l \in BOOLEAN : d # c \/ l # k => files'[d][l] = files[d][l]
    BY <1>0, <1>1, PutsOne
  <2> QED
    BY <2>1 DEF OtherFiles, SameFile
<1>3. Alone(t)
  BY <1>0, OthersSame DEF SendLoop, Alone
<1>4. CASE Wake(c, "write") /\ Goto(t, SendFrame("send_sent", call, k, bytes + chunk))
  <2>1. /\ th'[t].pc = "send_sent" /\ th'[t].call = call /\ th'[t].rb = k /\ ret' = ret
    <3>1. PICK total : total = bytes + chunk
      OBVIOUS
    <3>2. th'[t] = SendFrame("send_sent", call, k, total) /\ ret' = ret
      BY <1>0, <1>4, <3>1, GotoChanges DEF Goto
    <3> QED
      BY <3>2, FrameParts
  <2>2. Writing(t, c, k)'
    BY <2>1 DEF Writing, WritePcs
  <2>3. th'[t].pc \in OutPcs
    BY <2>1 DEF OutPcs, WritePcs
  <2> QED
    BY <1>2, <1>3, <1>4, <2>1, <2>2, <2>3 DEF Puts, One
<1>5. CASE /\ RbAvail(q) = 0 \/ chunk = 0
           /\ Put(c, k, q) /\ Block(t, c, "read") /\ Goto(t, SendFrame("send_loop", call, k, bytes))
  <2>1. /\ th'[t].pc = "send_loop" /\ th'[t].call = call /\ th'[t].rb = k
        /\ th'[t].bytes = bytes /\ ret' = ret
    <3>1. th'[t] = SendFrame("send_loop", call, k, bytes) /\ ret' = ret
      BY <1>0, <1>5, GotoChanges DEF Goto
    <3> QED
      BY <3>1, FrameParts
  <2>2. RbFree(q) = 0
    <3>1. m \in Messages /\ m.size = call.n
      BY <1>0, MessageType
    <3>2. HdrSize + bytes \in Nat /\ call.n - bytes \in Nat /\ call.n - bytes > 0
      BY <1>0
    <3>3. Len(rest) = call.n - bytes
      BY <3>1, <3>2, CellsType DEF Rest
    <3> HIDE DEF rest
    <3>4. chunk = 0 => RbFree(q) = 0
      BY <3>2, <3>3 DEF Least
    <3> QED
      BY <1>0, <1>5, <3>4 DEF RbAvail
  <2>3. files'[c][k] = q
    BY <1>0, <1>5, PutsOne
  <2>4. Writing(t, c, k)'
    BY <2>1 DEF Writing, WritePcs
  <2>5. th'[t].pc \in OutPcs
    BY <2>1 DEF OutPcs, WritePcs
  <2> QED
    BY <1>2, <1>3, <1>5, <2>1, <2>2, <2>3, <2>4, <2>5 DEF Puts, One
<1> QED
  BY <1>0, <1>4, <1>5 DEF SendLoop, SendStops

LEMMA SendHeaderPuts ==
  ASSUME NEW turns, Conversation(turns), Known, NEW t \in Threads,
         NEW call \in Calls, NEW k \in BOOLEAN, MyCall(t, call), call.op \in SendOps,
         k = (Creator[call.c] = t), UNCHANGED <<chan, rcvd>>, call.n > 0,
         th[t].pc \notin WritePcs, SendHeader(t, call, k)
  PROVE  Puts(t, call, k)
<1> DEFINE c == call.c
           q == files[c][k]
           m == Message(t, call)
           torn == RbAdd(q, Header(m))
<1>0. /\ ThreadsOK /\ FilesOK /\ HistoryOK /\ c \in Chans /\ ~Closed(c) /\ ~Writing(t, c, k)
      /\ HdrSize \in Nat \ {0} /\ BufSize \in Nat \ {0} /\ call.n \in Nat
      /\ q \in Rings /\ sent[c][k] \in Seq(Messages) /\ BufSize # HdrSize
  <2>1. ThreadsOK /\ FilesOK /\ HistoryOK /\ c \in Chans /\ call.n \in Nat
    BY DEF Known, Base, TypeOK, Calls
  <2>2. ~Closed(c) /\ ~Writing(t, c, k)
    BY <2>1 DEF Known, NeverClosed, Writing
  <2>3. \A d \in Chans, l \in BOOLEAN : files[d][l] \in Rings /\ sent[d][l] \in Seq(Messages)
    BY <2>1 DEF FilesOK, HistoryOK
  <2> QED
    BY <2>1, <2>2, <2>3, ChannelAssumption, RiotAssumption DEF Conversation, RoomForData
<1>1. q \in Seq(CellSet) /\ Len(q) \in Nat /\ Len(q) <= BufSize
  BY <1>0, RingFacts
<1>2. m \in Messages /\ Header(m) \in Seq(CellSet) /\ Len(Header(m)) = HdrSize
  BY <1>0, MessageType, HeaderCells
<1>3. CASE RbFree(q) >= HdrSize /\ sent' = Noted(sent, c, k, m) /\ SendLoop(t, call, k, torn, 0)
  <2>1. torn \in Rings /\ Len(torn) = Len(q) + HdrSize
    <3>1. /\ torn \in Seq(CellSet) /\ Len(torn) <= BufSize
          /\ Len(torn) = Len(q) + Least(HdrSize, RbFree(q))
      BY <1>1, <1>2, AddFits
    <3> QED
      BY <1>3, <3>1 DEF Rings, Least
  <2>2. RbFree(torn) = 0 => Len(q) > 0
    BY <1>0, <1>1, <2>1 DEF RbFree
  <2>3. /\ sent'[c][k] = Append(sent[c][k], m)
        /\ \A d \in Chans, l \in BOOLEAN : d # c \/ l # k => sent'[d][l] = sent[d][l]
    BY <1>0, <1>3 DEF Noted, HistoryOK
  <2>4. Len(sent'[c][k]) + One(Writing(t, c, k)) = Len(sent[c][k]) + 1
    <3>1. Len(sent'[c][k]) = Len(sent[c][k]) + 1 /\ Len(sent[c][k]) \in Nat
      BY <1>0, <1>2, <2>3, AppendProperties, LenProperties
    <3>2. One(Writing(t, c, k)) = 0
      BY <1>0 DEF One
    <3> QED
      BY <3>1, <3>2
  <2>5. PICK r \in Rings : r = torn
    BY <2>1
  <2>6. 0 \in 0..call.n /\ 0 < call.n
    BY <1>0
  <2> QED
    BY <1>3, <2>2, <2>3, <2>4, <2>5, <2>6, SendLoopPuts
<1>4. CASE /\ RbFree(q) < HdrSize /\ UNCHANGED sent
           /\ Put(c, k, RbDrop(torn, RbFree(q))) /\ Block(t, c, "read")
           /\ Goto(t, Frame("send_hdr", call, k))
  <2>1. RbFree(q) = 0
    <3>1. BufSize \in Words /\ Len(q) \in Words
      BY <1>0 DEF Conversation, RoomForData, Known, Streams, FileOK, Stream
    <3>2. RbFree(q) \in Words
      BY <1>1, <3>1, WordFacts DEF RbFree
    <3> QED
      BY <1>4, <3>2, WordFacts
  <2>2. files' = files
    <3>1. torn = q /\ RbDrop(q, 0) = q
      BY <1>0, <1>2, <2>1, NothingMoves
    <3>2. RbDrop(torn, RbFree(q)) = q
      BY <2>1, <3>1
    <3>3. Put(c, k, q)
      BY <1>4, <3>2
    <3> QED
      BY <1>0, <3>3, PutsBack
  <2>3. th'[t].pc = "send_hdr" /\ th'[t].call = call /\ th'[t].rb = k /\ ret' = ret
    <3>1. th'[t] = Frame("send_hdr", call, k) /\ ret' = ret
      BY <1>0, <1>4, GotoChanges DEF Goto
    <3> QED
      BY <3>1, FrameParts
  <2>4. Alone(t)
    BY <1>0, <1>4, OthersSame DEF Alone
  <2>5. OtherFiles(c, k)
    BY <1>4, <2>2 DEF OtherFiles, SameFile
  <2>6. ~Writing(t, c, k)' /\ th'[t].pc \in OutPcs
    BY <2>3 DEF Writing, WritePcs, OutPcs
  <2>7. Len(q) > 0
    BY <1>0, <1>1, <2>1 DEF RbFree
  <2>8. Len(sent'[c][k]) + One(Writing(t, c, k)) = Len(sent[c][k]) + One(Writing(t, c, k)')
    BY <1>0, <1>4, <2>6 DEF One
  <2>9. RbFree(files'[c][k]) = 0 /\ Len(files[c][k]) > 0
    BY <2>1, <2>2, <2>7
  <2> QED
    BY <1>4, <2>3, <2>4, <2>5, <2>6, <2>8, <2>9 DEF Puts
<1> QED
  BY <1>0, <1>3, <1>4 DEF SendHeader

LEMMA RecvLoopGets ==
  ASSUME NEW turns, Conversation(turns), Known, Wanting', NEW t \in Threads,
         NEW call \in Calls, NEW k \in BOOLEAN, MyCall(t, call), call.op \notin SendOps,
         k = (Creator[call.c] # t), UNCHANGED <<chan, sent, rcvd>>,
         NEW q \in Rings, NEW size \in Nat, NEW out \in Seq(CellSet), Len(out) <= size,
         RecvLoop(t, call, k, size, q, out),
         Len(q) = 0 => RbFree(files[call.c][k]) > 0
  PROVE  Gets(t, call, k)
<1> DEFINE c == call.c
           chunk == RbGet(q, size - Len(out))
<1>0. ThreadsOK /\ FilesOK /\ c \in Chans /\ ~Closed(c)
  BY DEF Known, Base, TypeOK, Calls, NeverClosed
<1>1. OtherFiles(c, k)
  <2>1. \E r : Put(c, k, r)
    BY DEF RecvLoop
  <2>2. \A d \in Chans, l \in BOOLEAN : d # c \/ l # k => files'[d][l] = files[d][l]
    BY <1>0, <2>1, PutsOne
  <2> QED
    BY <2>2 DEF OtherFiles, SameFile
<1>2. Alone(t)
  BY <1>0, OthersSame DEF RecvLoop, Alone
<1>3. CASE Wake(c, "read") /\ Goto(t, RecvFrame("recv_got", call, k, size, out \o chunk))
  <2>1. /\ th'[t].pc = "recv_got" /\ th'[t].call = call /\ th'[t].rb = k /\ ret' = ret
    <3>1. PICK more : more = out \o chunk
      OBVIOUS
    <3>2. th'[t] = RecvFrame("recv_got", call, k, size, more) /\ ret' = ret
      BY <1>0, <1>3, <3>1, GotoChanges DEF Goto
    <3> QED
      BY <3>2, FrameParts
  <2>2. th'[t].pc \in InPcs
    BY <2>1 DEF InPcs, ReadPcs
  <2> QED
    BY <1>1, <1>2, <1>3, <2>1, <2>2 DEF Gets
<1>4. CASE /\ chunk = <<>> /\ Put(c, k, q) /\ Block(t, c, "write")
           /\ Goto(t, RecvFrame("recv_loop", call, k, size, out))
  <2>1. /\ th'[t].pc = "recv_loop" /\ th'[t].call = call /\ th'[t].rb = k
        /\ th'[t].size = size /\ th'[t].out = out /\ ret' = ret
    <3>1. th'[t] = RecvFrame("recv_loop", call, k, size, out) /\ ret' = ret
      BY <1>0, <1>4, GotoChanges DEF Goto
    <3> QED
      BY <3>1, FrameParts
  <2>2. Len(q) = 0
    <3>1. Len(out) < size
      BY <2>1 DEF Wanting, ReadPcs
    <3>2. PICK n \in Nat : n = size - Len(out) /\ n > 0
      BY <3>1, LenProperties, SMTT(20)
    <3>3. Len(RbGet(q, n)) = Least(n, Len(q)) /\ Len(q) \in Nat
      BY RingFacts, GetAndDrop
    <3>4. Len(RbGet(q, n)) = 0
      BY <1>4, <3>2
    <3> QED
      BY <3>2, <3>3, <3>4 DEF Least
  <2>3. files'[c][k] = q
    BY <1>0, <1>4, PutsOne
  <2>4. th'[t].pc \in InPcs
    BY <2>1 DEF InPcs, ReadPcs
  <2>5. Len(files'[c][k]) = 0 /\ RbFree(files[c][k]) > 0
    BY <2>2, <2>3
  <2> QED
    BY <1>1, <1>2, <1>4, <2>1, <2>4, <2>5 DEF Gets
<1> QED
  BY <1>0, <1>3, <1>4 DEF RecvLoop, GivesUp

LEMMA RecvHeaderGets ==
  ASSUME NEW turns, Conversation(turns), Known, Wanting', NEW t \in Threads,
         NEW call \in Calls, NEW k \in BOOLEAN, MyCall(t, call), call.op \notin SendOps,
         k = (Creator[call.c] # t), UNCHANGED <<chan, sent, rcvd>>, RecvHeader(t, call, k)
  PROVE  Gets(t, call, k)
<1> DEFINE c == call.c
           q == files[c][k]
           rest == RbDrop(q, HdrSize)
<1>0. /\ ThreadsOK /\ FilesOK /\ c \in Chans /\ q \in Rings
      /\ BufSize \in Nat \ {0} /\ HdrSize \in Nat \ {0} /\ BufSize # HdrSize
  <2>1. ThreadsOK /\ FilesOK /\ c \in Chans
    BY DEF Known, Base, TypeOK, Calls
  <2>2. \A d \in Chans, l \in BOOLEAN : files[d][l] \in Rings
    BY <2>1 DEF FilesOK
  <2> QED
    BY <2>1, <2>2, ChannelAssumption, RiotAssumption DEF Conversation, RoomForData
<1>1. q \in Seq(CellSet) /\ Len(q) \in Nat /\ Len(q) <= BufSize
  BY <1>0, RingFacts
<1>2. CASE /\ Len(q) < HdrSize /\ Block(t, c, "write") /\ Goto(t, Frame("recv_hdr", call, k))
           /\ UNCHANGED files
  <2>1. Len(q) = 0
    <3>1. Len(q) \in Words
      BY <1>0 DEF Known, Streams, FileOK, Stream
    <3> QED
      BY <1>2, <3>1, WordFacts
  <2>2. th'[t].pc = "recv_hdr" /\ th'[t].call = call /\ th'[t].rb = k /\ ret' = ret
    <3>1. th'[t] = Frame("recv_hdr", call, k) /\ ret' = ret
      BY <1>0, <1>2, GotoChanges DEF Goto
    <3> QED
      BY <3>1, FrameParts
  <2>3. Alone(t)
    BY <1>0, <1>2, OthersSame DEF Alone
  <2>4. OtherFiles(c, k)
    BY <1>2 DEF OtherFiles, SameFile
  <2>5. th'[t].pc \in InPcs
    BY <2>2 DEF InPcs
  <2>6. Len(files'[c][k]) = 0 /\ RbFree(files[c][k]) > 0
    BY <1>0, <1>2, <2>1 DEF RbFree
  <2> QED
    BY <1>2, <2>2, <2>3, <2>4, <2>5, <2>6 DEF Gets
<1>3. CASE Len(q) >= HdrSize /\ \E size \in SizesIn(q) : RecvLoop(t, call, k, size, rest, <<>>)
  <2>1. PICK size \in SizesIn(q) : RecvLoop(t, call, k, size, rest, <<>>)
    BY <1>3
  <2>2. size \in Nat
    BY <1>1, <1>3, SizesType
  <2>3. rest \in Rings /\ Len(rest) = Len(q) - HdrSize
    <3>1. rest \in Rings
      BY <1>0, DropType
    <3>2. Len(rest) = Len(q) - Least(HdrSize, Len(q))
      BY <1>0, <1>1, GetAndDrop
    <3> QED
      BY <1>0, <1>1, <1>3, <3>1, <3>2 DEF Least
  <2>4. Len(rest) = 0 => RbFree(q) > 0
    BY <1>0, <1>1, <2>3 DEF RbFree
  <2>5. <<>> \in Seq(CellSet) /\ Len(<<>>) <= size
    BY <2>2, EmptySeq
  <2> QED
    BY <2>1, <2>2, <2>3, <2>4, <2>5, RecvLoopGets
<1> QED
  BY <1>2, <1>3 DEF RecvHeader

\* What a step of a thread is in a conversation.
LEMMA Kinds ==
  ASSUME NEW turns, Conversation(turns), Known, Wanting, Wanting', Talking(turns),
         NEW t \in Threads, Step(t)
  PROVE  Kind(t)
<1> DEFINE f == th[t]
           Goal == \E call \in Calls, k \in BOOLEAN : Puts(t, call, k) \/ Gets(t, call, k)
<1> SUFFICES Starts(t) \/ Ends(t) \/ Exit(t) \/ Goal
  BY DEF Kind
<1>0. /\ TypeOK /\ ThreadsOK /\ FilesOK /\ CreatorsStay /\ Disciplined
      /\ ~Make(t) /\ ~SetOwner(t) /\ ~Kill(t) /\ ~Tries(t)
      /\ \A call \in NextCalls(t) : call \in Calls /\ call.op \in TalkOps /\ call.n > 0
      /\ \A c \in Chans : ~Closed(c)
  <2>1. TypeOK /\ ThreadsOK /\ FilesOK /\ CreatorsStay /\ Disciplined
    BY ConversationPlain DEF Known, Base, TypeOK, Settled
  <2>2. \A call \in NextCalls(t) : call \in Calls /\ call.op \in TalkOps /\ call.n > 0
    BY <2>1, NextIsOwn DEF Conversation, Talks, OwnCalls, Calls
  <2> QED
    BY <2>1, <2>2, PlainSteps, NothingMade, ConversationPlain DEF Known, NeverClosed
<1>1. f.pc # "idle" =>
        /\ f.call \in Calls /\ f.call.op \in TalkOps /\ f.call.n > 0 /\ MyCall(t, f.call)
        /\ f.pc \in PcsOf(f.call.op) /\ f.rb \in BOOLEAN /\ f.bytes \in 0..f.call.n
        /\ f.size \in Nat /\ f.out \in Seq(CellSet) /\ Len(f.out) <= f.size
        /\ f.pc \in OutPcs => f.rb = (Creator[f.call.c] = t)
        /\ f.pc \in InPcs => f.rb = (Creator[f.call.c] # t)
        /\ f.pc \notin {"send_body", "recv_body", "flags", "asleep"}
  <2> SUFFICES ASSUME f.pc # "idle"
               PROVE  /\ f.call \in Calls /\ f.call.op \in TalkOps /\ f.call.n > 0 /\ MyCall(t, f.call)
                      /\ f.pc \in PcsOf(f.call.op) /\ f.rb \in BOOLEAN /\ f.bytes \in 0..f.call.n
                      /\ f.size \in Nat /\ f.out \in Seq(CellSet) /\ Len(f.out) <= f.size
                      /\ f.pc \in OutPcs => f.rb = (Creator[f.call.c] = t)
                      /\ f.pc \in InPcs => f.rb = (Creator[f.call.c] # t)
                      /\ f.pc \notin {"send_body", "recv_body", "flags", "asleep"}
    OBVIOUS
  <2>1. f.call \in NextCalls(t) /\ f.pc \notin {"send_body", "recv_body"}
    BY DEF Talking, Engaged
  <2>2. f.pc \in PcsOf(f.call.op) /\ RightFile(t)
    BY DEF Known, Base, InProgram, Settled
  <2>3. f.pc \notin {"flags", "asleep"}
    BY <1>0, <2>1, <2>2 DEF PcsOf, TalkOps, SendPcs, RecvPcs
  <2> QED
    BY <1>0, <2>1, <2>2, <2>3, FrameFacts DEF MyCall, RightFile
<1>2. ASSUME NEW call \in Calls, MyCall(t, call) PROVE OutFile(t, call.c) = (Creator[call.c] = t)
      /\ InFile(t, call.c) = (Creator[call.c] # t) /\ OutFile(t, call.c) \in BOOLEAN
      /\ InFile(t, call.c) \in BOOLEAN
  BY <1>0, FilesOf
<1>3. ASSUME NEW call \in Calls, MyCall(t, call), call.op \in SendOps, call.n > 0,
             UNCHANGED <<chan, rcvd>>, f.pc \notin WritePcs,
             SendHeader(t, call, OutFile(t, call.c))
      PROVE  Goal
  <2>1. Puts(t, call, OutFile(t, call.c))
    BY <1>2, <1>3, SendHeaderPuts
  <2> QED
    BY <1>2, <1>3, <2>1
<1>4. ASSUME NEW call \in Calls, MyCall(t, call), call.op \notin SendOps,
             UNCHANGED <<chan, sent, rcvd>>, RecvHeader(t, call, InFile(t, call.c))
      PROVE  Goal
  <2>1. Gets(t, call, InFile(t, call.c))
    BY <1>2, <1>4, RecvHeaderGets
  <2> QED
    BY <1>2, <1>4, <2>1
<1>5. CASE Enter(t)
  <2>1. PICK call \in NextCalls(t) :
          /\ Invokes(t, call, {"send", "try_send", "recv", "try_recv", "drop"})
          /\ IF \/ call.op \in {"send", "try_send"} /\ SendRefused(call)
                \/ call.op \in {"recv", "try_recv", "drop"} /\ RecvRefused(t, call)
             THEN Return(t, call, 0)
             ELSE Goto(t, Frame(call.op, call, InFile(t, call.c)))
          /\ Undisturbed
          /\ UNCHANGED <<chan, files, sent, rcvd>>
    BY <1>5 DEF Enter
  <2>2. call \in Calls /\ call.op \in {"send", "recv"} /\ ~Closed(call.c) /\ f.pc = "idle"
    BY <1>0, <2>1 DEF TalkOps, Invokes, Calls
  <2>3. Goto(t, Frame(call.op, call, InFile(t, call.c)))
    BY <2>1, <2>2 DEF SendRefused, RecvRefused
  <2>4. th'[t].pc = call.op /\ th'[t].call = call /\ ret' = ret
    <3>1. th'[t] = Frame(call.op, call, InFile(t, call.c)) /\ ret' = ret
      BY <1>0, <2>3, GotoChanges DEF Goto
    <3> QED
      BY <3>1 DEF Frame
  <2>5. Alone(t)
    BY <1>0, <2>3, OthersSame DEF Alone
  <2> QED
    BY <2>1, <2>2, <2>4, <2>5 DEF Starts, Undisturbed
<1>6. CASE SendSync(t) \/ SendSynced(t)
  <2>1. f.pc = "send" /\ ~SendSynced(t)
    BY <1>1, <1>6 DEF SendSync, SendSynced, At
  <2>2. Buffered(f.call.c) /\ f.call.op \in SendOps
    BY <1>1, <2>1 DEF Talking, Engaged, PcsOf, RecvPcs, TalkOps, SendOps
  <2>3. SendBody(t, f.call) /\ UNCHANGED <<chan, rcvd>>
    BY <1>6, <2>1, <2>2 DEF SendSync, Synchronize
  <2> QED
    BY <1>1, <1>3, <2>1, <2>2, <2>3 DEF SendBody, WritePcs
<1>7. CASE SendMsgCall(t)
  <2>1. PICK call \in NextCalls(t) :
          /\ call.op = "send_msg" /\ f.pc = "idle"
          /\ SendHeader(t, call, OutFile(t, call.c)) /\ UNCHANGED <<chan, rcvd>>
    BY <1>7 DEF SendMsgCall, Invokes
  <2>2. MyCall(t, call) /\ call.op \in SendOps /\ f.pc \notin WritePcs
    BY <2>1 DEF MyCall, SendOps, WritePcs
  <2> QED
    BY <1>0, <1>3, <2>1, <2>2
<1>8. CASE SendHeaderAgain(t)
  <2>1. f.pc = "send_hdr" /\ SendHeader(t, f.call, f.rb) /\ UNCHANGED <<chan, rcvd>>
    BY <1>8 DEF SendHeaderAgain, At
  <2>2. f.call.op \in SendOps /\ f.rb = OutFile(t, f.call.c) /\ f.pc \notin WritePcs
    BY <1>1, <1>2, <2>1 DEF PcsOf, RecvPcs, TalkOps, SendOps, OutPcs, WritePcs
  <2> QED
    BY <1>1, <1>3, <2>1, <2>2
<1>9. ASSUME f.pc \in WritePcs, f.bytes < f.call.n, UNCHANGED <<chan, sent, rcvd>>,
             SendLoop(t, f.call, f.rb, files[f.call.c][f.rb], f.bytes)
      PROVE  Goal
  <2> DEFINE c == f.call.c
             q == files[c][f.rb]
  <2>1. /\ f.pc # "idle" /\ f.call.op \in SendOps /\ f.pc \in OutPcs /\ c \in Chans
        /\ f.rb = (Creator[c] = t)
    BY <1>1, <1>9 DEF PcsOf, RecvPcs, TalkOps, SendOps, OutPcs, WritePcs, Calls
  <2>2. q \in Rings /\ Writing(t, c, f.rb)
    BY <1>0, <1>1, <1>9, <2>1 DEF FilesOK, Writing
  <2>3. RbFree(q) = 0 => Len(q) > 0
    BY <2>2, RingFacts, RiotAssumption DEF RbFree
  <2>4. Len(sent'[c][f.rb]) + One(Writing(t, c, f.rb)) = Len(sent[c][f.rb]) + 1
    BY <1>9, <2>2 DEF One
  <2>5. Puts(t, f.call, f.rb)
    BY <1>1, <1>9, <2>1, <2>2, <2>3, <2>4, SendLoopPuts
  <2> QED
    BY <1>1, <2>1, <2>5
<1>10. CASE SendResume(t)
  <2>1. f.pc = "send_loop" /\ f.bytes < f.call.n
    BY <1>10 DEF SendResume, At, Talking, Engaged
  <2> QED
    BY <1>9, <1>10, <2>1 DEF SendResume, WritePcs
<1>11. CASE SendSent(t)
  <2>1. f.pc = "send_sent" /\ f.bytes \in 0..f.call.n /\ f.call.n \in Nat
    BY <1>1, <1>11 DEF SendSent, At, Calls
  <2>2. CASE f.bytes = f.call.n
    <3>1. Return(t, f.call, f.call.n) /\ UNCHANGED <<status, blocked, files, chan, sent, rcvd>>
      BY <1>11, <2>2 DEF SendSent, Undisturbed
    <3>2. th'[t] = Idle /\ Alone(t)
      BY <1>0, <3>1, GotoChanges, OthersSame DEF Alone
    <3>3. \E r : ret'[t] = Append(ret[t], r)
      <4>1. f.call.n # 0 /\ DOMAIN ret = Threads
        BY <1>0, <1>1, <2>1 DEF ThreadsOK
      <4>2. ret' = [ret EXCEPT ![t] = Returned(@, f.call, f.call.n, 0)]
        BY <3>1 DEF Return, ReturnHeard
      <4>3. ret'[t] = Append(ret[t], [call |-> f.call, n |-> f.call.n, heard |-> 0])
        BY <4>1, <4>2 DEF Returned
      <4> QED
        BY <4>3
    <3> QED
      BY <2>1, <3>1, <3>2, <3>3 DEF Ends
  <2>3. CASE f.bytes # f.call.n
    BY <1>9, <1>11, <2>1, <2>3 DEF SendSent, WritePcs
  <2> QED
    BY <2>2, <2>3
<1>12. CASE Sends(t)
  BY <1>6, <1>7, <1>8, <1>10, <1>11, <1>12 DEF Sends
<1>13. CASE RecvSync(t) \/ RecvSynced(t)
  <2>1. f.pc = "recv" /\ ~RecvSynced(t)
    BY <1>1, <1>13 DEF RecvSync, RecvSynced, At
  <2>2. Buffered(f.call.c) /\ f.call.op \notin SendOps
    BY <1>1, <2>1 DEF Talking, Engaged, PcsOf, SendPcs, TalkOps, SendOps
  <2>3. RecvBody(t, f.call) /\ UNCHANGED <<chan, sent, rcvd>>
    BY <1>13, <2>1, <2>2 DEF RecvSync, Synchronize
  <2> QED
    BY <1>1, <1>4, <2>1, <2>2, <2>3 DEF RecvBody
<1>14. CASE RecvMsgCall(t)
  <2>1. PICK call \in NextCalls(t) :
          /\ call.op = "recv_msg" /\ f.pc = "idle"
          /\ RecvHeader(t, call, InFile(t, call.c)) /\ UNCHANGED <<chan, sent, rcvd>>
    BY <1>14 DEF RecvMsgCall, Invokes
  <2>2. MyCall(t, call) /\ call.op \notin SendOps
    BY <2>1 DEF MyCall, SendOps
  <2> QED
    BY <1>0, <1>4, <2>1, <2>2
<1>15. CASE RecvHeaderAgain(t)
  <2>1. f.pc = "recv_hdr" /\ RecvHeader(t, f.call, f.rb) /\ UNCHANGED <<chan, sent, rcvd>>
    BY <1>15 DEF RecvHeaderAgain, At
  <2>2. f.call.op \notin SendOps /\ f.rb = InFile(t, f.call.c)
    BY <1>1, <1>2, <2>1 DEF PcsOf, SendPcs, TalkOps, SendOps, InPcs
  <2> QED
    BY <1>1, <1>4, <2>1, <2>2
<1>16. ASSUME f.pc \in {"recv_loop", "recv_got"}, UNCHANGED <<chan, sent, rcvd>>,
              RecvLoop(t, f.call, f.rb, f.size, files[f.call.c][f.rb], f.out)
       PROVE  Goal
  <2> DEFINE c == f.call.c
             q == files[c][f.rb]
  <2>1. /\ f.pc # "idle" /\ f.call.op \notin SendOps /\ f.pc \in InPcs /\ c \in Chans
        /\ f.rb = (Creator[c] # t)
    BY <1>1, <1>16 DEF PcsOf, SendPcs, TalkOps, SendOps, InPcs, ReadPcs, Calls
  <2>2. q \in Rings
    BY <1>0, <1>1, <2>1 DEF FilesOK
  <2>3. Len(q) = 0 => RbFree(q) > 0
    BY <2>2, RingFacts, RiotAssumption DEF RbFree
  <2>4. Gets(t, f.call, f.rb)
    BY <1>1, <1>16, <2>1, <2>2, <2>3, RecvLoopGets
  <2> QED
    BY <1>1, <2>1, <2>4
<1>17. CASE RecvResume(t)
  BY <1>16, <1>17 DEF RecvResume, At
<1>18. CASE RecvGot(t)
  <2>1. f.pc = "recv_got"
    BY <1>18 DEF RecvGot, At
  <2>2. CASE Complete(f)
    <3>1. Taken(t, f) /\ UNCHANGED <<chan, sent>>
      BY <1>18, <2>2 DEF RecvGot
    <3>2. /\ ReturnHeard(t, f.call, Len(f.out), Heard(f.out))
          /\ rcvd' = Noted(rcvd, f.call.c, f.rb, f.out)
          /\ UNCHANGED <<status, blocked, chan, files, sent>>
      BY <3>1 DEF Taken, Undisturbed
    <3>3. th'[t] = Idle /\ Alone(t)
      BY <1>0, <3>2, GotoChanges, OthersSame DEF Alone
    <3>4. Len(f.out) # 0
      BY <1>1, <2>1, <2>2 DEF Complete, Wanting, ReadPcs
    <3>5. \E r : ret'[t] = Append(ret[t], r)
      BY <1>0, <3>2, <3>4 DEF ReturnHeard, Returned, ThreadsOK
    <3> QED
      BY <1>1, <2>1, <3>2, <3>3, <3>5 DEF Ends
  <2>3. CASE ~Complete(f)
    BY <1>16, <1>18, <2>1, <2>3 DEF RecvGot
  <2> QED
    BY <2>2, <2>3
<1>19. CASE Recvs(t)
  BY <1>13, <1>14, <1>15, <1>17, <1>18, <1>19 DEF Recvs
<1>20. ~Drops(t)
  <2>1. f.pc \notin DropPcs
    BY <1>1 DEF PcsOf, SendPcs, RecvPcs, DropPcs, TalkOps
  <2> QED
    BY <2>1 DEF Drops, DropSync, DropSynced, DropHeaderAgain, DropResume, DropDropped, At, DropPcs
<1>21. CASE Manages(t) \/ Lives(t)
  <2>1. \A call \in NextCalls(t) : call.op \notin {"close", "set_buffered", "go", "sleep", "spin"}
    BY <1>0 DEF TalkOps
  <2>2. f.pc \notin {"flags", "asleep"}
    BY <1>1
  <2> QED
    BY <1>0, <1>21, <2>1, <2>2
       DEF Manages, Lives, FlagsLoad, FlagsStore, Go, Sleep, Spin, Timer, Invokes, At
<1> QED
  BY <1>0, <1>5, <1>12, <1>19, <1>20, <1>21 DEF Step

--------------------------------------------------------------------------------
(* Every step keeps the invariant *)

LEMMA WakesOne ==
  ASSUME TypeOK, NEW c \in Chans, NEW slot \in Slots, Wake(c, slot)
  PROVE  LET other == blocked[c][slot]
         IN  /\ \A v \in Threads : /\ v # other => status'[v] = status[v]
                                   /\ status'[v] = status[v] \/ status'[v] = "ready"
             /\ other \in Threads /\ ~Gone(other) => status'[other] = "ready"
             /\ \A d \in Chans, s \in Slots : d # c \/ s # slot => blocked'[d][s] = blocked[d][s]
             /\ other \notin Threads \/ Gone(other) => blocked' = blocked
<1> DEFINE other == blocked[c][slot]
<1>0. /\ status \in [Threads -> Statuses] /\ NoThread \notin Threads
      /\ blocked \in [Chans -> [Slots -> Threads \cup {NoThread}]]
      /\ other \in Threads \cup {NoThread}
  BY RiotAssumption DEF TypeOK, SchedOK
<1>1. CASE other # NoThread /\ ~Gone(other)
  <2>1. /\ blocked' = [blocked EXCEPT ![c][slot] = NoThread]
        /\ status' = [status EXCEPT ![other] = "ready"]
    BY <1>1 DEF Wake
  <2> HIDE DEF other
  <2>2. other \in Threads
    BY <1>0, <1>1
  <2>3. \A v \in Threads : status'[v] = IF v = other THEN "ready" ELSE status[v]
    BY <1>0, <2>1
  <2>4. \A d \in Chans, s \in Slots : d # c \/ s # slot => blocked'[d][s] = blocked[d][s]
    BY <1>0, <2>1
  <2> QED
    BY <1>1, <2>2, <2>3, <2>4 DEF other
<1>2. CASE ~(other # NoThread /\ ~Gone(other))
  <2>1. UNCHANGED <<status, blocked>>
    BY <1>2 DEF Wake, Undisturbed
  <2> QED
    BY <1>0, <1>2, <2>1
<1> QED
  BY <1>1, <1>2

LEMMA OtherThread ==
  ASSUME TypeOK, NEW t \in Threads, status[t] = "ready", Kind(t)
  PROVE  /\ Alone(t)
         /\ \A v \in Threads \ {t} : /\ status'[v] = "sleeping" => status[v] = "sleeping"
                                     /\ Gone(v)' => Gone(v)
         /\ Gone(t)' => Exit(t)
<1>0. /\ status \in [Threads -> Statuses] /\ NoThread \notin Threads
      /\ blocked \in [Chans -> [Slots -> Threads \cup {NoThread}]]
  BY RiotAssumption DEF TypeOK, SchedOK
<1>1. Alone(t)
  BY DEF Kind, Starts, Ends, Exit, Puts, Gets, Alone, Same
<1>2. CASE Starts(t) \/ Ends(t)
  BY <1>1, <1>2 DEF Starts, Ends, Gone
<1>3. CASE Exit(t)
  BY <1>0, <1>1, <1>3 DEF Exit, Gone
<1>4. ASSUME NEW c \in Chans, NEW slot \in Slots, Wake(c, slot)
      PROVE  /\ \A v \in Threads : status'[v] = status[v] \/ status'[v] = "ready"
             /\ status'[t] = "ready"
  BY <1>4, WakesOne
<1>5. ASSUME NEW c \in Chans, NEW slot \in Slots, Block(t, c, slot)
      PROVE  status'[t] = "sleeping" /\ \A v \in Threads \ {t} : status'[v] = status[v]
  BY <1>0, <1>5 DEF Block
<1>6. ASSUME NEW call \in Calls, NEW k \in BOOLEAN, Puts(t, call, k) \/ Gets(t, call, k)
      PROVE  \E c \in Chans, slot \in Slots : Wake(c, slot) \/ Block(t, c, slot)
  <2>1. call.c \in Chans /\ "read" \in Slots /\ "write" \in Slots
    BY DEF Calls, Slots
  <2> QED
    BY <1>6, <2>1 DEF Puts, Gets
<1> QED
  BY <1>1, <1>2, <1>3, <1>4, <1>5, <1>6 DEF Kind, Gone

\* Nobody else is at the file that t writes or reads on the side that t is on.
LEMMA OwnFile ==
  ASSUME NEW turns, Conversation(turns), Base, Engaged, NEW t \in Threads, NEW v \in Threads, t # v,
         NEW c \in Chans, NEW k \in BOOLEAN, th[v].call.c = c, th[v].rb = k
  PROVE  /\ k = (Creator[c] = t) => th[v].pc \notin OutPcs
         /\ k = (Creator[c] # t) => th[v].pc \notin InPcs
<1>1. (Creator[c] = t) <=> ~(Creator[c] = v)
  BY TwoThreads
<1>2. /\ th[v].pc \in OutPcs => k = (Creator[c] = v)
      /\ th[v].pc \in InPcs => k = (Creator[c] # v)
  BY AtItsTurn
<1> QED
  BY <1>1, <1>2

LEMMA EngagedKept ==
  ASSUME NEW turns, Conversation(turns), TypeOK, TypeOK', Talking(turns),
         NEW t \in Threads, status[t] = "ready", Kind(t)
  PROVE  Engaged' /\ (Modes = {TRUE} => \A c \in Chans : Buffered(c)')
<1>0. /\ Engaged /\ Alone(t)
      /\ \A v \in Threads \ {t} : Gone(v)' => Gone(v)
      /\ Gone(t)' => Exit(t)
  BY OtherThread DEF Talking
<1>1. chan' = chan
  BY DEF Kind, Starts, Ends, Exit, Puts, Gets
<1>2. \A c \in Chans : Buffered(c)' <=> Buffered(c)
  BY <1>1 DEF Buffered
<1>3. ASSUME NEW v \in Threads, ret'[v] = ret[v] PROVE NextCalls(v)' = NextCalls(v)
  BY <1>3 DEF NextCalls
<1> DEFINE EngagedIn(v) ==
      /\ th[v].pc # "idle" => th[v].call \in NextCalls(v)
      /\ th[v].pc \in {"send", "recv"} => Buffered(th[v].call.c)
      /\ th[v].pc \notin {"send_body", "recv_body"}
      /\ th[v].pc = "send_loop" => th[v].bytes < th[v].call.n
      /\ Gone(v) => th[v].pc = "idle" /\ NextCalls(v) = {}
<1>4. ASSUME NEW v \in Threads, v # t PROVE EngagedIn(v)'
  <2>1. th'[v] = th[v] /\ ret'[v] = ret[v] /\ (Gone(v)' => Gone(v)) /\ EngagedIn(v)
    BY <1>0, <1>4 DEF Alone, Same, Engaged
  <2>2. th[v].pc # "idle" => th[v].call.c \in Chans
    <3>1. th[v].pc # "idle" => th[v].call \in Calls
      BY <2>1 DEF NextCalls
    <3> QED
      BY <3>1 DEF Calls
  <2> QED
    BY <1>2, <1>3, <2>1, <2>2
<1>5. EngagedIn(t)'
  <2>1. CASE Starts(t)
    <3>1. PICK call \in NextCalls(t) :
            /\ call.op \in {"send", "recv"} /\ th'[t].pc = call.op /\ th'[t].call = call
            /\ UNCHANGED <<status, chan, ret>>
      BY <2>1 DEF Starts
    <3>2. call \in OwnCalls(t) /\ call \in Calls /\ call.c \in Chans
      <4>1. call \in OwnCalls(t) /\ call \in Calls
        BY <1>0, NextIsOwn DEF TypeOK, NextCalls
      <4> QED
        BY <4>1 DEF Calls
    <3>3. Buffered(call.c)
      <4>1. Modes = {TRUE}
        BY <3>1, <3>2 DEF Conversation, Unsynchronized
      <4> QED
        BY <3>2, <4>1 DEF Talking
    <3>4. ~Gone(t)'
      BY <3>1 DEF Gone
    <3> QED
      BY <1>2, <1>3, <3>1, <3>2, <3>3, <3>4
  <2>2. CASE Ends(t)
    BY <1>0, <2>2, FrameParts DEF Ends, Exit, Gone
  <2>3. ASSUME NEW call \in Calls, NEW k \in BOOLEAN, Puts(t, call, k) \/ Gets(t, call, k)
        PROVE  EngagedIn(t)'
    <3>1. /\ call \in NextCalls(t) /\ ret' = ret /\ th'[t].call = call
          /\ th'[t].pc \in OutPcs \cup InPcs
          /\ th'[t].pc = "send_loop" => th'[t].bytes < call.n
      BY <2>3 DEF Puts, Gets, MyCall, InPcs, ReadPcs
    <3>2. ~Exit(t)
      BY <3>1 DEF Exit
    <3>3. th'[t].pc \notin {"idle", "send", "recv", "send_body", "recv_body"}
      BY <3>1 DEF OutPcs, InPcs, WritePcs, ReadPcs
    <3> QED
      BY <1>0, <1>3, <3>1, <3>2, <3>3
  <2>4. CASE Exit(t)
    BY <1>3, <2>4 DEF Exit
  <2> QED
    BY <2>1, <2>2, <2>3, <2>4 DEF Kind
<1> HIDE DEF EngagedIn
<1>6. \A v \in Threads : EngagedIn(v)'
  BY <1>4, <1>5
<1> QED
  BY <1>2, <1>6 DEF EngagedIn, Engaged, Talking

\* A thread asleep at a file is registered on the side where it waits.
LEMMA Sleeper ==
  ASSUME Base, NoLostWaiter, Engaged, Waiting, NEW v \in Threads, status[v] = "sleeping"
  PROVE  blocked[th[v].call.c][IF th[v].pc \in {"send_hdr", "send_loop"} THEN "read" ELSE "write"] = v
<1>1. /\ th[v].pc \in {"send_hdr", "send_loop", "recv_hdr", "recv_loop"}
      /\ v # NoThread
  BY RiotAssumption DEF Waiting
<1>2. PICK c \in Chans, slot \in Slots : blocked[c][slot] = v
  BY <1>1 DEF NoLostWaiter
<1>3. th[v].pc \in WaitsAt(slot) /\ th[v].call.c = c
  BY <1>1, <1>2 DEF Base, WaiterAsleep
<1>4. slot = "read" \/ slot = "write"
  BY DEF Slots
<1> QED
  BY <1>1, <1>2, <1>3, <1>4 DEF WaitsAt

LEMMA WaitingKept ==
  ASSUME NEW turns, Conversation(turns), Base, TalkInv(turns),
         NEW t \in Threads, status[t] = "ready", Kind(t)
  PROVE  Waiting'
<1>0. /\ TypeOK /\ Engaged /\ Waiting /\ NoLostWaiter /\ Alone(t)
      /\ status \in [Threads -> Statuses] /\ NoThread \notin Threads
      /\ blocked \in [Chans -> [Slots -> Threads \cup {NoThread}]]
      /\ \A v \in Threads \ {t} : status'[v] = "sleeping" => status[v] = "sleeping"
  BY OtherThread, RiotAssumption DEF TalkInv, Talking, Base, TypeOK, SchedOK
<1> DEFINE Waits2(v) ==
      \/ th[v].pc \in {"send_hdr", "send_loop"} /\ RbFree(files[th[v].call.c][th[v].rb]) = 0
      \/ th[v].pc \in {"recv_hdr", "recv_loop"} /\ Len(files[th[v].call.c][th[v].rb]) = 0
<1>1. ASSUME NEW v \in Threads, v # t, status'[v] = "sleeping"
      PROVE  Waits2(v)'
  <2> DEFINE c == th[v].call.c
             k == th[v].rb
  <2>1. /\ Waits2(v) /\ th'[v] = th[v] /\ status[v] = "sleeping"
        /\ th[v].pc # "idle"
    BY <1>0, <1>1 DEF Waiting, Alone, Same
  <2>2. c \in Chans /\ k \in BOOLEAN
    BY <1>0, <2>1, FrameFacts DEF TypeOK
  <2>3. blocked[c][IF th[v].pc \in {"send_hdr", "send_loop"} THEN "read" ELSE "write"] = v
    BY <1>0, <2>1, Sleeper
  <2>4. CASE files'[c][k] = files[c][k]
    BY <2>1, <2>4 DEF RbFree
  <2>5. ASSUME NEW call \in Calls, NEW l \in BOOLEAN, Puts(t, call, l), files'[c][k] # files[c][k]
        PROVE  FALSE
    <3>1. call.c = c /\ l = k /\ k = (Creator[c] = t)
      BY <2>2, <2>5 DEF Puts, OtherFiles, SameFile
    <3>2. th[v].pc \notin {"send_hdr", "send_loop"}
      <4>1. th[v].pc \notin OutPcs
        BY <1>0, <1>1, <2>2, <3>1, OwnFile, ZenonT(40)
      <4> QED
        BY <4>1 DEF OutPcs, WritePcs
    <3>3. Len(files[c][k]) = 0 /\ blocked[c]["write"] = v
      BY <2>1, <2>3, <3>2
    <3>4. Wake(c, "write")
      <4>1. Wake(call.c, "write") \/ Len(files[call.c][l]) > 0
        BY <2>5 DEF Puts
      <4> QED
        BY <3>1, <3>3, <4>1
    <3>5. status'[v] = "ready"
      BY <1>0, <2>1, <3>3, <3>4 DEF Wake, Gone
    <3> QED
      BY <1>1, <3>5
  <2>6. ASSUME NEW call \in Calls, NEW l \in BOOLEAN, Gets(t, call, l), files'[c][k] # files[c][k]
        PROVE  FALSE
    <3>1. call.c = c /\ l = k /\ k = (Creator[c] # t)
      BY <2>2, <2>6 DEF Gets, OtherFiles, SameFile
    <3>2. th[v].pc \notin {"recv_hdr", "recv_loop"}
      <4>1. th[v].pc \notin InPcs
        BY <1>0, <1>1, <2>2, <3>1, OwnFile, ZenonT(40)
      <4> QED
        BY <4>1 DEF InPcs, ReadPcs
    <3>3. RbFree(files[c][k]) = 0 /\ blocked[c]["read"] = v
      BY <2>1, <2>3, <3>2
    <3>4. Wake(c, "read")
      <4>1. Wake(call.c, "read") \/ RbFree(files[call.c][l]) > 0
        BY <2>6 DEF Gets
      <4> QED
        BY <3>1, <3>3, <4>1
    <3>5. status'[v] = "ready"
      BY <1>0, <2>1, <3>3, <3>4 DEF Wake, Gone
    <3> QED
      BY <1>1, <3>5
  <2>7. Starts(t) \/ Ends(t) \/ Exit(t) => files' = files
    BY DEF Starts, Ends, Exit
  <2> HIDE DEF c, k, Waits2
  <2> QED
    BY <2>4, <2>5, <2>6, <2>7 DEF Kind
<1>2. ASSUME status'[t] = "sleeping" PROVE Waits2(t)'
  <2>1. ~Starts(t) /\ ~Ends(t) /\ ~Exit(t)
    BY <1>0, <1>2 DEF Starts, Ends, Exit
  <2>2. PICK call \in Calls, k \in BOOLEAN : Puts(t, call, k) \/ Gets(t, call, k)
    BY <2>1 DEF Kind
  <2>3. ~Wake(call.c, "read") /\ ~Wake(call.c, "write")
    <3>1. call.c \in Chans /\ "read" \in Slots /\ "write" \in Slots /\ status[t] # "sleeping"
      BY DEF Calls, Slots
    <3> QED
      BY <1>0, <1>2, <3>1, WakesOne
  <2>4. CASE Puts(t, call, k)
    BY <2>3, <2>4 DEF Puts
  <2>5. CASE Gets(t, call, k)
    BY <2>3, <2>5 DEF Gets
  <2> QED
    BY <2>2, <2>4, <2>5
<1> HIDE DEF Waits2
<1>3. \A v \in Threads : status'[v] = "sleeping" => Waits2(v)'
  BY <1>1, <1>2
<1> QED
  BY <1>3 DEF Waits2, Waiting

LEMMA NoLostWaiterKept ==
  ASSUME NEW turns, Conversation(turns), Base, TalkInv(turns), NobodyStuck',
         NEW t \in Threads, status[t] = "ready", Kind(t)
  PROVE  NoLostWaiter'
<1>0. /\ TypeOK /\ NoLostWaiter /\ Alone(t)
      /\ status \in [Threads -> Statuses] /\ NoThread \notin Threads
      /\ blocked \in [Chans -> [Slots -> Threads \cup {NoThread}]]
      /\ \A v \in Threads \ {t} : status'[v] = "sleeping" => status[v] = "sleeping"
  BY OtherThread, RiotAssumption DEF TalkInv, Base, TypeOK, SchedOK
<1> SUFFICES ASSUME NEW v \in Threads, status'[v] = "sleeping", th'[v].pc # "asleep"
             PROVE  \E d \in Chans, s \in Slots : blocked'[d][s] = v
  BY DEF NoLostWaiter
<1>1. ASSUME v # t PROVE \E d \in Chans, s \in Slots : blocked[d][s] = v
  <2>1. status[v] = "sleeping" /\ th[v].pc # "asleep"
    BY <1>0, <1>1 DEF Alone, Same
  <2> QED
    BY <2>1 DEF TalkInv, NoLostWaiter
<1>2. CASE Starts(t) \/ Ends(t) \/ Exit(t)
  <2>1. blocked' = blocked /\ v # t
    BY <1>0, <1>2 DEF Starts, Ends, Exit
  <2> QED
    BY <1>1, <2>1
<1>3. ASSUME NEW c \in Chans, NEW slot \in Slots, Wake(c, slot)
      PROVE  \E d \in Chans, s \in Slots : blocked'[d][s] = v
  <2>1. status'[v] = status[v] /\ v # t
    BY <1>0, <1>3, WakesOne
  <2>2. PICK d \in Chans, s \in Slots : blocked[d][s] = v
    BY <1>1, <2>1
  <2>3. blocked'[d][s] = v
    <3>1. CASE v = blocked[c][slot]
      <4>1. Gone(v)
        BY <1>0, <1>3, <3>1, WakesOne
      <4> QED
        BY <2>1, <4>1 DEF Gone
    <3>2. CASE v # blocked[c][slot]
      BY <1>0, <1>3, <2>2, <3>2, WakesOne
    <3> QED
      BY <3>1, <3>2
  <2> QED
    BY <2>3
<1>4. ASSUME NEW c \in Chans, NEW slot \in Slots, Block(t, c, slot)
      PROVE  \E d \in Chans, s \in Slots : blocked'[d][s] = v
  <2>1. status'[t] = "sleeping" /\ blocked'[c][slot] = t
    BY <1>0, <1>4 DEF Block
  <2>2. v = t
    BY <2>1 DEF NobodyStuck
  <2> QED
    BY <2>1, <2>2
<1>5. ASSUME NEW call \in Calls, NEW k \in BOOLEAN, Puts(t, call, k) \/ Gets(t, call, k)
      PROVE  \E c \in Chans, slot \in Slots : Wake(c, slot) \/ Block(t, c, slot)
  <2>1. call.c \in Chans /\ "read" \in Slots /\ "write" \in Slots
    BY DEF Calls, Slots
  <2> QED
    BY <1>5, <2>1 DEF Puts, Gets
<1> QED
  BY <1>2, <1>3, <1>4, <1>5 DEF Kind

\* The file a thread is at when its call is about to end is the file of its turn.
LEMMA TurnEnds ==
  ASSUME NEW turns, Conversation(turns), Base, Talking(turns), NEW t \in Threads, Ends(t),
         NEW d \in Chans, NEW l \in BOOLEAN
  PROVE  LET told(n) == Cardinality(Told(turns, n, d, l))
             mine == th[t].call.c = d /\ th[t].rb = l
         IN  /\ th[t].call.c \in Chans /\ th[t].rb \in BOOLEAN
             /\ told(Len(ret[t])) \in Nat
             /\ told(Len(ret'[t])) = told(Len(ret[t])) + One(mine)
             /\ th[t].pc = "send_sent" => th[t].rb = (Creator[th[t].call.c] = t)
             /\ th[t].pc = "recv_got" => th[t].rb = (Creator[th[t].call.c] # t)
<1> DEFINE c == th[t].call.c
           k == th[t].rb
           i == Len(ret[t])
<1>1. th[t].pc \in {"send_sent", "recv_got"}
  BY DEF Ends
<1>2. th[t].pc \in OutPcs \cup InPcs
  BY <1>1 DEF OutPcs, InPcs, WritePcs, ReadPcs
<1>3. /\ i \in Nat /\ turns[i + 1] = <<c, k>> /\ c \in Chans /\ k \in BOOLEAN
      /\ th[t].pc \in OutPcs => k = (Creator[c] = t)
      /\ th[t].pc \in InPcs => k = (Creator[c] # t)
  BY <1>2, AtItsTurn DEF Talking
<1>4. Len(ret'[t]) = i + 1
  <2>1. PICK r : ret'[t] = Append(ret[t], r)
    BY DEF Ends
  <2> QED
    BY <2>1 DEF Base, TypeOK, ThreadsOK
<1>5. /\ Cardinality(Told(turns, i, d, l)) \in Nat
      /\ Cardinality(Told(turns, i + 1, d, l)) =
           Cardinality(Told(turns, i, d, l)) + (IF turns[i + 1] = <<d, l>> THEN 1 ELSE 0)
  <2>1. turns \in Turns
    BY DEF Conversation
  <2> QED
    BY <1>3, <2>1, OneTurn, ZenonT(40)
<1>6. (turns[i + 1] = <<d, l>>) <=> (c = d /\ k = l)
  BY <1>3
<1>7. /\ th[t].pc = "send_sent" => th[t].pc \in OutPcs
      /\ th[t].pc = "recv_got" => th[t].pc \in InPcs
  BY DEF OutPcs, InPcs, WritePcs, ReadPcs
<1> QED
  BY <1>3, <1>4, <1>5, <1>6, <1>7 DEF One

LEMMA CountsKept ==
  ASSUME NEW turns, Conversation(turns), Base, TypeOK', Talking(turns),
         NEW t \in Threads, status[t] = "ready", Kind(t)
  PROVE  Counts(turns)'
<1>0. /\ TypeOK /\ HistoryOK /\ Engaged /\ Counts(turns) /\ Alone(t)
      /\ \A d \in Chans, l \in BOOLEAN : Len(sent[d][l]) \in Nat /\ Len(rcvd[d][l]) \in Nat
  <2>1. TypeOK /\ HistoryOK /\ Engaged /\ Counts(turns) /\ Alone(t)
    BY OtherThread DEF Talking, Base, TypeOK
  <2>2. \A d \in Chans, l \in BOOLEAN :
          sent[d][l] \in Seq(Messages) /\ rcvd[d][l] \in Seq(Seq(CellSet))
    BY <2>1 DEF HistoryOK
  <2> QED
    BY <2>1, <2>2, LenProperties
<1> SUFFICES ASSUME NEW v \in Threads, NEW d \in Chans, NEW l \in BOOLEAN
             PROVE  LET told == Cardinality(Told(turns, Len(ret'[v]), d, l))
                    IN  IF l = (Creator[d] = v)
                        THEN Len(sent'[d][l]) = told + One(Writing(v, d, l)')
                        ELSE Len(rcvd'[d][l]) = told
  BY DEF Counts, One
<1> DEFINE told(n) == Cardinality(Told(turns, n, d, l))
<1>1. /\ l = (Creator[d] = v) => Len(sent[d][l]) = told(Len(ret[v])) + One(Writing(v, d, l))
      /\ l # (Creator[d] = v) => Len(rcvd[d][l]) = told(Len(ret[v]))
  BY <1>0 DEF Counts, One
<1>2. /\ Starts(t) \/ Ends(t) \/ Exit(t) => sent' = sent
      /\ Starts(t) \/ Exit(t) => rcvd' = rcvd /\ ret' = ret
      /\ \A call \in Calls, k \in BOOLEAN : Puts(t, call, k) \/ Gets(t, call, k) =>
           /\ rcvd' = rcvd /\ ret' = ret
           /\ sent'[d][l] # sent[d][l] =>
                Puts(t, call, k) /\ call.c = d /\ k = l /\ l = (Creator[d] = t)
  BY DEF Starts, Ends, Exit, Puts, Gets, OtherFiles, SameFile
<1>3. ASSUME Ends(t), th[t].pc = "recv_got"
      PROVE  /\ th[t].rb = (Creator[th[t].call.c] # t)
             /\ \E out \in Seq(CellSet) : rcvd' = Noted(rcvd, th[t].call.c, th[t].rb, out)
             /\ th[t].call.c \in Chans /\ th[t].rb \in BOOLEAN
  BY <1>3, TurnEnds DEF Ends
<1>4. ASSUME Ends(t), rcvd'[d][l] # rcvd[d][l]
      PROVE  th[t].pc = "recv_got" /\ th[t].call.c = d /\ th[t].rb = l /\ l = (Creator[d] # t)
  <2>1. th[t].pc = "recv_got"
    BY <1>4 DEF Ends
  <2>2. PICK out : rcvd' = Noted(rcvd, th[t].call.c, th[t].rb, out)
    BY <1>3, <1>4, <2>1
  <2>3. th[t].call.c = d /\ th[t].rb = l
    BY <1>0, <1>4, <2>2 DEF Noted, HistoryOK
  <2> QED
    BY <1>3, <1>4, <2>1, <2>3
<1>5. CASE v # t
  <2>1. ret'[v] = ret[v] /\ (Writing(v, d, l)' <=> Writing(v, d, l))
    BY <1>0, <1>5 DEF Alone, Same, Writing
  <2>2. (Creator[d] = t) <=> ~(Creator[d] = v)
    BY <1>5, TwoThreads
  <2>3. l = (Creator[d] = v) => sent'[d][l] = sent[d][l]
    BY <1>2, <2>2 DEF Kind
  <2>4. l # (Creator[d] = v) => rcvd'[d][l] = rcvd[d][l]
    BY <1>2, <1>4, <2>2 DEF Kind
  <2> QED
    BY <1>1, <2>1, <2>3, <2>4 DEF One
<1>6. CASE v = t /\ (Starts(t) \/ Exit(t))
  <2>1. ~Writing(t, d, l) /\ ~Writing(t, d, l)'
    BY <1>6 DEF Starts, Exit, Writing, WritePcs
  <2> QED
    BY <1>1, <1>2, <1>6, <2>1 DEF One
<1>7. ASSUME v = t, NEW call \in Calls, NEW k \in BOOLEAN, Puts(t, call, k) \/ Gets(t, call, k)
      PROVE  IF l = (Creator[d] = t)
             THEN Len(sent'[d][l]) = told(Len(ret'[t])) + One(Writing(t, d, l)')
             ELSE Len(rcvd'[d][l]) = told(Len(ret'[t]))
  <2>1. rcvd' = rcvd /\ ret' = ret
    BY <1>2, <1>7
  <2>2. /\ Writing(t, d, l) => /\ th[t].call.op \in SendOps /\ th[t].call = call
                               /\ call.c = d /\ l = (Creator[d] = t)
    <3>1. Writing(t, d, l) => th[t].pc \in OutPcs /\ th[t].pc # "idle"
      BY DEF Writing, WritePcs, OutPcs
    <3>2. Writing(t, d, l) => th[t].call.op \in SendOps /\ th[t].rb = (Creator[th[t].call.c] = t)
      BY <1>0, <3>1, AtItsTurn
    <3>3. MyCall(t, call)
      BY <1>7 DEF Puts, Gets
    <3> QED
      BY <3>1, <3>2, <3>3 DEF MyCall, Writing
  <2>3. CASE Puts(t, call, k) /\ call.c = d /\ k = l
    <3>1. l = (Creator[d] = t)
      BY <2>3 DEF Puts
    <3>2. Len(sent'[d][l]) + One(Writing(t, d, l)) = Len(sent[d][l]) + One(Writing(t, d, l)')
      BY <2>3 DEF Puts
    <3>3. Len(sent[d][l]) = told(Len(ret[t])) + One(Writing(t, d, l))
      BY <1>1, <1>7, <3>1
    <3>4. Len(sent'[d][l]) = told(Len(ret[t])) + One(Writing(t, d, l)')
      <4>1. turns \in Turns /\ Len(ret[t]) \in Nat
        BY <1>0, LenProperties DEF Conversation, TypeOK, ThreadsOK
      <4>2. told(Len(ret[t])) \in Nat
        BY <4>1, OneTurn
      <4>3. Len(sent'[d][l]) \in Nat
        <5>1. HistoryOK'
          BY DEF TypeOK
        <5>2. sent'[d][l] \in Seq(Messages)
          BY <5>1 DEF HistoryOK
        <5> QED
          BY <5>2, LenProperties
      <4> QED
        <5>1. \A a, b, n, w, x \in Nat : a + w = b + x /\ b = n + w => a = n + x
          OBVIOUS
        <5>2. One(Writing(t, d, l)) \in Nat /\ One(Writing(t, d, l)') \in Nat
          BY DEF One
        <5>3. PICK w \in Nat, x \in Nat : w = One(Writing(t, d, l)) /\ x = One(Writing(t, d, l)')
          BY <5>2
        <5>4. PICK a \in Nat, b \in Nat, n \in Nat :
                a = Len(sent'[d][l]) /\ b = Len(sent[d][l]) /\ n = told(Len(ret[t]))
          BY <1>0, <4>2, <4>3
        <5>5. a + w = b + x /\ b = n + w
          BY <3>2, <3>3, <5>3, <5>4
        <5>6. a = n + x
          BY <5>1, <5>5
        <5> QED
          BY <5>3, <5>4, <5>6
    <3> QED
      BY <2>1, <3>1, <3>4
  <2>4. CASE ~(Puts(t, call, k) /\ call.c = d /\ k = l)
    <3>1. sent'[d][l] = sent[d][l]
      BY <1>2, <1>7, <2>4
    <3>2. ~Writing(t, d, l)
      BY <1>7, <2>2, <2>4 DEF Puts, Gets
    <3>3. ~Writing(t, d, l)'
      BY <1>7, <2>4 DEF Puts, Gets, Writing, WritePcs, InPcs, ReadPcs
    <3> QED
      BY <1>1, <1>7, <2>1, <3>1, <3>2, <3>3 DEF One
  <2> QED
    BY <2>3, <2>4
<1>8. CASE v = t /\ Ends(t)
  <2> DEFINE mine == th[t].call.c = d /\ th[t].rb = l
  <2>1. /\ th[t].call.c \in Chans /\ th[t].rb \in BOOLEAN
        /\ told(Len(ret[t])) \in Nat
        /\ told(Len(ret'[t])) = told(Len(ret[t])) + One(mine)
        /\ th[t].pc = "send_sent" => th[t].rb = (Creator[th[t].call.c] = t)
        /\ th[t].pc = "recv_got" => th[t].rb = (Creator[th[t].call.c] # t)
    BY <1>8, TurnEnds
  <2>2. ~Writing(t, d, l)' /\ sent' = sent
    BY <1>8, FrameParts DEF Ends, Writing, WritePcs
  <2>3. CASE th[t].pc = "send_sent" /\ UNCHANGED rcvd
    <3>1. Writing(t, d, l) <=> mine
      BY <2>3 DEF Writing, WritePcs
    <3>2. l # (Creator[d] = t) => ~mine
      BY <2>1, <2>3
    <3> QED
      BY <1>1, <1>8, <2>1, <2>2, <2>3, <3>1, <3>2 DEF One
  <2>4. CASE th[t].pc = "recv_got" /\ mine
    <3>1. PICK out : rcvd' = Noted(rcvd, d, l, out)
      BY <1>3, <1>8, <2>4
    <3>2. rcvd'[d][l] = Append(rcvd[d][l], out)
      BY <1>0, <3>1 DEF Noted, HistoryOK
    <3>3. Len(rcvd'[d][l]) = Len(rcvd[d][l]) + 1
      <4>1. rcvd[d][l] \in Seq(Seq(CellSet))
        BY <1>0 DEF HistoryOK
      <4> QED
        BY <3>2, <4>1
    <3>4. l # (Creator[d] = t)
      BY <2>1, <2>4
    <3> QED
      BY <1>1, <1>8, <2>1, <2>4, <3>3, <3>4 DEF One
  <2>5. CASE th[t].pc = "recv_got" /\ ~mine
    <3>1. rcvd'[d][l] = rcvd[d][l] /\ ~Writing(t, d, l)
      BY <1>4, <1>8, <2>5 DEF Writing, WritePcs
    <3> QED
      BY <1>1, <1>8, <2>1, <2>2, <2>5, <3>1 DEF One
  <2> QED
    BY <1>8, <2>3, <2>4, <2>5 DEF Ends
<1> QED
  BY <1>5, <1>6, <1>7, <1>8 DEF Kind

LEMMA OnTurnKept ==
  ASSUME NEW turns, Conversation(turns), Base, Talking(turns),
         NEW t \in Threads, status[t] = "ready", Kind(t)
  PROVE  OnTurn(turns)'
<1>0. /\ ThreadsOK /\ Engaged /\ Alone(t) /\ turns \in Turns
      /\ \A v \in Threads : Len(ret[v]) <= Len(turns)
  BY OtherThread DEF Talking, OnTurn, Base, TypeOK, Conversation
<1>1. \A v \in Threads \ {t} : ret'[v] = ret[v]
  BY <1>0 DEF Alone, Same
<1>2. CASE ret' = ret
  BY <1>0, <1>2 DEF OnTurn
<1>3. CASE Ends(t)
  <2>1. PICK r : ret'[t] = Append(ret[t], r)
    BY <1>3 DEF Ends
  <2>2. th[t].pc \in OutPcs \cup InPcs
    BY <1>3 DEF Ends, OutPcs, InPcs, WritePcs, ReadPcs
  <2>3. Len(ret[t]) \in Nat /\ Len(ret[t]) < Len(turns)
    BY <1>0, <2>2, AtItsTurn
  <2>4. Len(ret'[t]) = Len(ret[t]) + 1
    BY <1>0, <2>1 DEF ThreadsOK
  <2>5. Len(ret'[t]) <= Len(turns)
    BY <1>0, <2>3, <2>4, LenProperties DEF Turns
  <2> QED
    BY <1>0, <1>1, <2>5 DEF OnTurn
<1>4. Ends(t) \/ ret' = ret
  BY DEF Kind, Starts, Exit, Puts, Gets
<1> QED
  BY <1>2, <1>3, <1>4

--------------------------------------------------------------------------------
(* The theorems *)

LEMMA TalkStart ==
  ASSUME NEW turns, Conversation(turns), Init
  PROVE  TalkInv(turns)
<1>1. /\ \A t \in Threads : th[t].pc = "idle" /\ Len(ret[t]) = 0
      /\ \A c \in Chans, k \in BOOLEAN : Len(sent[c][k]) = 0 /\ Len(rcvd[c][k]) = 0
  BY FrameParts DEF Init, NewFiles
<1>2. \A t \in Threads : status[t] = "ready"
  BY DEF Init, Booted, Conversation
<1>3. Modes = {TRUE} => \A c \in Chans : Buffered(c)
  <2> SUFFICES ASSUME Modes = {TRUE}, NEW c \in Chans PROVE Buffered(c)
    OBVIOUS
  <2>1. PICK buffered \in [Chans -> Modes] :
          chan = [d \in Chans |-> [creator |-> Creator[d], flags |-> MadeFlags(buffered[d])]]
    BY DEF Init
  <2>2. buffered[c] = TRUE /\ chan[c].flags = MadeFlags(buffered[c])
    BY <2>1
  <2> QED
    BY <2>2 DEF MadeFlags, Buffered
<1>4. ASSUME NEW c, NEW k PROVE Cardinality(Told(turns, 0, c, k)) = 0
  <2>1. Told(turns, 0, c, k) = {}
    BY DEF Told
  <2> QED
    BY <2>1, FS_EmptySet
<1>5. Engaged /\ Waiting /\ NoLostWaiter
  BY <1>1, <1>2 DEF Engaged, Waiting, NoLostWaiter, Gone
<1>6. Counts(turns)
  BY <1>1, <1>4 DEF Counts, Writing, WritePcs
<1>7. OnTurn(turns)
  BY <1>1, LenProperties DEF OnTurn, Conversation, Turns
<1> QED
  BY <1>3, <1>5, <1>6, <1>7 DEF TalkInv, Talking

LEMMA TalkStutters ==
  ASSUME NEW turns, Talking(turns), UNCHANGED vars
  PROVE  Talking(turns)'
<1>1. UNCHANGED <<status, th, ret, files, sent, rcvd, chan>>
  BY DEF vars
<1>2. Engaged'
  BY <1>1 DEF Talking, Engaged, NextCalls, Buffered, Gone
<1>3. Waiting'
  BY <1>1 DEF Talking, Waiting, RbFree
<1>4. Counts(turns)'
  BY <1>1 DEF Talking, Counts, Writing
<1>5. (Modes = {TRUE} => \A c \in Chans : Buffered(c))'
  BY <1>1 DEF Talking, Buffered
<1> QED
  BY <1>1, <1>2, <1>3, <1>4, <1>5 DEF Talking, OnTurn

LEMMA TalkStep ==
  ASSUME NEW turns, Conversation(turns), Known, Known', Wanting', TalkInv(turns), [Next]_vars
  PROVE  /\ Talking(turns)'
         /\ NobodyStuck' => NoLostWaiter'
<1>1. Base /\ TypeOK /\ TypeOK' /\ WaiterAsleep /\ Talking(turns) /\ NoLostWaiter
  BY DEF Known, Base, TalkInv
<1>2. CASE UNCHANGED vars
  <2>1. NoLostWaiter'
    BY <1>1, <1>2 DEF vars, NoLostWaiter
  <2> QED
    BY <1>1, <1>2, <2>1, TalkStutters
<1>3. ASSUME NEW t \in Threads, Step(t)
      PROVE  Talking(turns)' /\ (NobodyStuck' => NoLostWaiter')
  <2>1. Wanting
    BY Wants
  <2>2. Kind(t)
    BY <1>1, <1>3, <2>1, Kinds
  <2>3. status[t] = "ready"
    <3>1. ~Timer(t)
      BY <1>1 DEF Talking, Waiting, Timer
    <3> QED
      BY <1>1, <1>3, <3>1, StepRuns
  <2>4. Engaged' /\ (Modes = {TRUE} => \A c \in Chans : Buffered(c)')
    BY <1>1, <2>2, <2>3, EngagedKept
  <2>5. Waiting'
    BY <1>1, <2>2, <2>3, WaitingKept
  <2>6. Counts(turns)' /\ OnTurn(turns)'
    BY <1>1, <2>2, <2>3, CountsKept, OnTurnKept
  <2>7. NobodyStuck' => NoLostWaiter'
    BY <1>1, <2>2, <2>3, NoLostWaiterKept
  <2> QED
    BY <2>4, <2>5, <2>6, <2>7 DEF Talking
<1> QED
  BY <1>2, <1>3 DEF Next, Ended

LEMMA KnownInvariant ==
  ASSUME Disciplined, NoMakes, NoCloses, HasData
  PROVE  Spec => []Known
<1>1. Init => DataInHand /\ DataInMessages
  <2> SUFFICES ASSUME Init PROVE DataInHand /\ DataInMessages
    OBVIOUS
  <2>1. \A t \in Threads : th[t].pc = "idle"
    BY FrameParts DEF Init
  <2>2. \A c \in Chans, k \in BOOLEAN : sent[c][k] = <<>>
    BY DEF Init, NewFiles
  <2> QED
    BY <2>1, <2>2 DEF DataInHand, DataInMessages
<1>2. Base /\ DataInHand /\ DataInMessages /\ [Next]_vars => (DataInHand /\ DataInMessages)'
  <2> SUFFICES ASSUME Base, DataInHand, DataInMessages, [Next]_vars
               PROVE  (DataInHand /\ DataInMessages)'
    OBVIOUS
  <2>1. CASE \E t \in Threads : Step(t)
    BY <2>1, DataInHandKept, DataInMessagesKept
  <2>2. CASE UNCHANGED vars
    BY <2>2 DEF vars, DataInHand, DataInMessages
  <2> QED
    BY <2>1, <2>2 DEF Next, Ended
<1>3. Spec => [](Base /\ NeverClosed /\ Streams)
  BY StreamsInvariant
<1> QED
  BY <1>1, <1>2, <1>3, PTL DEF Spec, Known

LEMMA ConversationInvariant ==
  ASSUME NEW turns, Conversation(turns)
  PROVE  Spec => [](Known /\ TalkInv(turns) /\ NobodyStuck)
<1>1. Init => TalkInv(turns)
  BY TalkStart
<1>2. Known /\ Talking(turns) => NobodyStuck /\ Wanting
  BY SomebodyRuns, Wants
<1>3. Known /\ Known' /\ Wanting' /\ TalkInv(turns) /\ [Next]_vars =>
        Talking(turns)' /\ (NobodyStuck' => NoLostWaiter')
  BY TalkStep
<1>4. Known => Wanting
  BY Wants
<1>5. TalkInv(turns) <=> Talking(turns) /\ NoLostWaiter
  BY DEF TalkInv
<1>6. Spec => []Known
  BY ConversationPlain, KnownInvariant
<1> QED
  BY <1>1, <1>2, <1>3, <1>4, <1>5, <1>6, PTL DEF Spec

\* Two threads whose calls match turn by turn on buffered channels never sleep both,
\* and neither is left asleep by one that has ended: whatever their priorities, sizes
\* and channels, a channel_send or channel_recv that found the ring buffer full or
\* empty is woken by the other side (channel_sched_other).
THEOREM ConversationsNeverHang ==
  ASSUME NEW turns, Conversation(turns)
  PROVE  Spec => []NoHang
<1>1. NobodyStuck => NoHang
  <2> SUFFICES ASSUME NobodyStuck, NEW t \in Threads, status[t] = "sleeping"
               PROVE  \E u \in Threads : status[u] = "ready"
    BY DEF NoHang
  <2>1. PICK u \in Threads : u # t
    BY DEF Conversation
  <2> QED
    BY <2>1 DEF NobodyStuck
<1>2. Spec => [](Known /\ TalkInv(turns) /\ NobodyStuck)
  BY ConversationInvariant
<1> QED
  BY <1>1, <1>2, PTL

\* When both threads of such a conversation have returned, every message that
\* channel_send put into a ring buffer was received, and no byte of any is left.
THEOREM ConversationsLeaveNothing ==
  ASSUME NEW turns, Conversation(turns)
  PROVE  Spec => []NothingLeft
<1>1. Known /\ TalkInv(turns) => NothingLeft
  <2> SUFFICES ASSUME Known, TalkInv(turns), \A t \in Threads : status[t] = "stopped",
                      NEW c \in Chans, NEW k \in BOOLEAN
               PROVE  files[c][k] = <<>> /\ Len(rcvd[c][k]) = Len(sent[c][k])
    BY DEF NothingLeft
  <2>0. TypeOK /\ Engaged /\ Counts(turns) /\ OnTurn(turns)
    BY DEF Known, Base, TalkInv, Talking
  <2>1. \A t \in Threads : th[t].pc = "idle" /\ Len(ret[t]) = Len(turns)
    <3> SUFFICES ASSUME NEW t \in Threads PROVE th[t].pc = "idle" /\ Len(ret[t]) = Len(turns)
      OBVIOUS
    <3>1. th[t].pc = "idle" /\ NextCalls(t) = {}
      BY <2>0 DEF Engaged, Gone
    <3>2. Len(ret[t]) >= Len(turns) /\ Len(ret[t]) \in Nat /\ Len(turns) \in Nat
      BY <2>0, <3>1, AllHad
    <3> QED
      BY <2>0, <3>1, <3>2 DEF OnTurn
  <2>2. PICK t \in Threads, u \in Threads : t # u /\ k = (Creator[c] = t) /\ k # (Creator[c] = u)
    <3>1. PICK a \in Threads, b \in Threads : a # b
      BY DEF Conversation
    <3>2. (Creator[c] = a) <=> ~(Creator[c] = b)
      BY <3>1, TwoThreads
    <3>3. CASE k = (Creator[c] = a)
      BY <3>1, <3>2, <3>3
    <3>4. CASE k # (Creator[c] = a)
      <4>1. k = (Creator[c] = b)
        BY <3>2, <3>4
      <4> QED
        BY <3>1, <3>4, <4>1
    <3> QED
      BY <3>3, <3>4
  <2>3. Len(rcvd[c][k]) = Len(sent[c][k])
    <3> DEFINE told == Cardinality(Told(turns, Len(turns), c, k))
    <3>1. turns \in Turns /\ Len(turns) \in Nat /\ told \in Nat
      BY LenProperties, OneTurn DEF Conversation, Turns
    <3>2. /\ Cardinality(Told(turns, Len(ret[t]), c, k)) = told
          /\ Cardinality(Told(turns, Len(ret[u]), c, k)) = told
      BY <2>1
    <3>3. Len(sent[c][k]) = told
      <4>1. ~Writing(t, c, k)
        BY <2>1 DEF Writing, WritePcs
      <4>2. Len(sent[c][k]) = Cardinality(Told(turns, Len(ret[t]), c, k)) + 0
        BY <2>0, <2>2, <4>1 DEF Counts
      <4> QED
        BY <3>1, <3>2, <4>2
    <3>4. Len(rcvd[c][k]) = told
      <4>1. Len(rcvd[c][k]) = Cardinality(Told(turns, Len(ret[u]), c, k))
        BY <2>0, <2>2 DEF Counts
      <4> QED
        BY <3>2, <4>1
    <3> QED
      BY <3>3, <3>4
  <2>4. PICK owed, took : Stream(files[c][k], sent[c][k], rcvd[c][k], owed, took)
    BY DEF Known, Streams, FileOK
  <2>5. files[c][k] \in Rings /\ sent[c][k] \in Seq(Messages)
    BY <2>0 DEF TypeOK, FilesOK, HistoryOK
  <2>6. Len(files[c][k]) = 0
    BY <2>3, <2>4, <2>5, AllTaken
  <2>7. files[c][k] \in Seq(CellSet)
    BY <2>5, RingFacts
  <2> QED
    BY <2>3, <2>6, <2>7, EmptySeq
<1>2. Spec => [](Known /\ TalkInv(turns) /\ NobodyStuck)
  BY ConversationInvariant
<1> QED
  BY <1>1, <1>2, PTL
================================================================================
