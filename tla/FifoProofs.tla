------------------------------- MODULE FifoProofs -------------------------------
(******************************************************************************)
(* Every file of every channel is a bounded queue of whole messages: the      *)
(* steps of Channel are steps of MessageFifo, for every program of            *)
(* IntegrityProofs that closes no channel and whose messages carry data.      *)
(******************************************************************************)
EXTENDS ChannelFifo, IntegrityProofs, WellFoundedInduction

--------------------------------------------------------------------------------
(* Positions *)

\* A non-empty set of natural numbers has a least element: what the proofs use
\* for induction.
LEMMA LeastNatural ==
  ASSUME NEW T \in SUBSET Nat, T # {}
  PROVE  \E x \in T : \A y \in T : x <= y
<1> DEFINE Less == {p \in Nat \X Nat : p[1] < p[2]}
<1>1. IsWellFoundedOn(Less, Nat)
  BY NatLessThanWellFounded DEF OpToRel
<1>2. PICK x \in T : \A y \in T : ~(<<y, x>> \in Less)
  <2> HIDE DEF Less
  <2> QED
    BY <1>1, WFMin
<1>3. \A y \in T : ~ (y < x)
  BY <1>2
<1> QED
  BY <1>3

\* Positions that are at least gap apart from one to the next.
LEMMA Spaced ==
  ASSUME NEW n \in Nat, NEW pos \in [1..n -> Int], NEW gap \in Nat,
         \A i \in 1..n : i + 1 \in 1..n => pos[i + 1] >= pos[i] + gap
  PROVE  \A i, j \in 1..n : i <= j => pos[j] - pos[i] >= gap * (j - i)
<1> SUFFICES ASSUME NEW i \in 1..n, NEW j \in 1..n, i <= j, pos[j] - pos[i] < gap * (j - i)
             PROVE  FALSE
  OBVIOUS
<1> DEFINE Short == {e \in Nat : i + e \in 1..n /\ pos[i + e] - pos[i] < gap * e}
<1>1. j - i \in Short
  OBVIOUS
<1>2. PICK e \in Short : \A f \in Short : e <= f
  BY <1>1, LeastNatural
<1>3. e # 0
  OBVIOUS
<1>4. e - 1 \in Nat /\ i + (e - 1) \in 1..n
  BY <1>2, <1>3
<1>5. e - 1 \notin Short
  <2>1. e \in Nat
    BY <1>2
  <2> HIDE DEF Short
  <2> QED
    BY <1>2, <2>1
<1>6. ~(pos[i + (e - 1)] - pos[i] < gap * (e - 1))
  BY <1>4, <1>5
<1>7. pos[i + e] >= pos[i + (e - 1)] + gap
  BY <1>2, <1>4
<1>8. e \in Nat /\ i + e \in 1..n /\ pos[i + e] - pos[i] < gap * e
  BY <1>2
<1>9. gap * (e - 1) + gap = gap * e /\ gap * (e - 1) \in Int
  BY <1>8
<1>10. PICK a \in Int, b \in Int, c \in Int, g \in Int :
         a = pos[i + (e - 1)] /\ b = pos[i] /\ c = pos[i + e] /\ g = gap * (e - 1)
  BY <1>4, <1>8, <1>9
<1>11. ~(a - b < g) /\ c >= a + gap /\ c - b < g + gap
  BY <1>6, <1>7, <1>8, <1>9, <1>10
<1> QED
  BY <1>11

\* So many gaps fit into a length.
LEMMA Fits ==
  ASSUME NEW n \in Nat, NEW gap \in Nat \ {0}, NEW room \in Nat, gap * n <= room
  PROVE  n <= room \div gap
<1> DEFINE d == room \div gap
<1>1. d \in Nat /\ room < gap * (d + 1)
  OBVIOUS
<1> HIDE DEF d
<1>2. ASSUME n >= d + 1 PROVE FALSE
  <2>1. gap * n >= gap * (d + 1)
    BY <1>1, <1>2
  <2> QED
    BY <1>1, <2>1
<1> QED
  BY <1>1, <1>2 DEF d

\* Of the messages that went in and did not come out, the last is in with its header,
\* the first is at most all in the reader's hand, and the others lie in the ring.
LEMMA StreamFits ==
  ASSUME NEW q \in Rings, NEW s \in Seq(Messages), NEW d \in Seq(Seq(CellSet)),
         NEW owed, NEW took, Stream(q, s, d, owed, took),
         \A i \in 1..Len(s) : s[i].size > 0,
         Len(s) > 0 => owed <= s[Len(s)].size,
         Len(d) < Len(s) => took <= HdrSize + s[Len(d) + 1].size
  PROVE  Len(s) - Len(d) <= FifoCapacity
<1> DEFINE n == Len(s)
           m == Len(d)
           gap == HdrSize + 1
<1>0. HdrSize \in Nat \ {0} /\ BufSize \in Nat
  BY ChannelAssumption, RiotAssumption
<1>1. /\ n \in Nat /\ m \in Nat /\ m <= n /\ gap \in Nat \ {0} /\ gap = HdrSize + 1
      /\ Len(q) \in Nat /\ Len(q) <= BufSize /\ owed \in Nat /\ took \in Nat
  <2>1. owed \in Words /\ took \in Words
    BY DEF Stream
  <2>2. owed \in Nat /\ took \in Nat
    BY <2>1, WordFacts
  <2>3. m <= n
    BY DEF Stream
  <2> QED
    BY <1>0, <2>2, <2>3, RingFacts, LenProperties
<1>2. FifoCapacity = BufSize \div gap + 2 /\ BufSize \div gap \in Nat
  <2>1. \A a \in Nat, b \in Nat \ {0} : a \div b \in Nat
    OBVIOUS
  <2>2. BufSize \div gap \in Nat
    BY <1>0, <1>1, <2>1
  <2> QED
    BY <2>2 DEF FifoCapacity
<1>3. CASE n - m <= 2
  BY <1>1, <1>2, <1>3
<1>4. CASE n - m > 2
  <2>1. ASSUME NEW i \in 1..n PROVE s[i].size \in Nat /\ s[i].size >= 1
    <3>1. s[i] \in Messages
      BY ElementOfSeq
    <3>2. s[i].size \in Nat
      BY <3>1 DEF Messages
    <3> QED
      BY <3>2
  <2>2. PICK pos : /\ Laid(pos, q, s)
                   /\ pos[n + 1] = Len(q) + owed
                   /\ pos[m + 1] = 0 - took
    BY DEF Stream
  <2>3. /\ pos \in [1..n + 1 -> Int]
        /\ \A i \in 1..n : pos[i + 1] = pos[i] + HdrSize + s[i].size
    BY <2>2 DEF Laid
  <2>4. \A i \in 1..n + 1 : i + 1 \in 1..n + 1 => pos[i + 1] >= pos[i] + gap
    <3> SUFFICES ASSUME NEW i \in 1..n + 1, i + 1 \in 1..n + 1 PROVE pos[i + 1] >= pos[i] + gap
      OBVIOUS
    <3>1. i \in 1..n
      BY <1>1
    <3>2. pos[i + 1] = pos[i] + HdrSize + s[i].size /\ pos[i] \in Int
      BY <2>3, <3>1
    <3>3. s[i].size \in Nat /\ s[i].size >= 1
      BY <2>1, <3>1
    <3> QED
      BY <1>0, <3>2, <3>3
  <2>5. /\ m + 2 \in 1..n + 1 /\ n \in 1..n + 1 /\ m + 2 <= n /\ n > 0 /\ m < n
        /\ m + 1 \in 1..n /\ n \in 1..n /\ (m + 1) + 1 = m + 2
    BY <1>1, <1>4
  <2>6. pos[n] - pos[m + 2] >= gap * (n - (m + 2))
    <3> HIDE DEF n, m, gap
    <3>1. n + 1 \in Nat
      BY <1>1
    <3> QED
      BY <1>1, <2>3, <2>4, <2>5, <3>1, Spaced
  <2>7. pos[n] <= Len(q)
    <3>1. pos[n + 1] = pos[n] + HdrSize + s[n].size /\ pos[n] \in Int
      BY <2>3, <2>5
    <3>2. s[n].size \in Nat /\ owed <= s[n].size
      BY <2>1, <2>5
    <3>3. Len(q) + owed = pos[n] + HdrSize + s[n].size
      BY <2>2, <3>1
    <3>4. \A a \in Int, l, o, h, z \in Nat : l + o = a + h + z /\ o <= z => a <= l
      OBVIOUS
    <3> QED
      BY <1>0, <1>1, <3>1, <3>2, <3>3, <3>4
  <2>8. pos[m + 2] >= 0
    <3>1. pos[m + 2] = pos[m + 1] + HdrSize + s[m + 1].size
      BY <2>3, <2>5
    <3>2. s[m + 1].size \in Nat /\ took <= HdrSize + s[m + 1].size
      BY <2>1, <2>5
    <3>3. pos[m + 2] = (0 - took) + HdrSize + s[m + 1].size
      BY <2>2, <3>1
    <3>4. \A p \in Int, k, h, z \in Nat : p = (0 - k) + h + z /\ k <= h + z => p >= 0
      OBVIOUS
    <3>5. pos[m + 2] \in Int
      BY <2>3, <2>5
    <3> QED
      BY <1>0, <1>1, <3>2, <3>3, <3>4, <3>5
  <2>9. gap * (n - (m + 2)) <= BufSize /\ n - (m + 2) \in Nat
    <3>1. pos[n] \in Int /\ pos[m + 2] \in Int
      BY <2>3, <2>5
    <3>2. n - (m + 2) \in Nat
      BY <1>1, <2>5
    <3> HIDE DEF n, m, gap
    <3>3. gap * (n - (m + 2)) \in Int
      BY <1>1, <3>2
    <3> QED
      BY <1>0, <1>1, <2>6, <2>7, <2>8, <3>1, <3>2, <3>3
  <2>10. n - (m + 2) <= BufSize \div gap
    <3> HIDE DEF n, m, gap
    <3> QED
      BY <1>0, <1>1, <2>9, Fits
  <2> QED
    BY <1>1, <1>2, <2>10
<1> QED
  BY <1>1, <1>3, <1>4

--------------------------------------------------------------------------------
(* The invariant *)

\* channel_send_msg, which unlike channel_send does not return at once, is never
\* called without data.
HasData == \A t \in Threads : \A call \in OwnCalls(t) : call.op = "send_msg" => call.n > 0

\* A sender that waits to put a header in has data behind it.
DataInHand == \A t \in Threads : th[t].pc = "send_hdr" => th[t].call.n > 0
DataInMessages ==
  \A c \in Chans, k \in BOOLEAN : \A i \in 1..Len(sent[c][k]) : sent[c][k][i].size > 0

\* What the abstract queues need to know of a state.
Room ==
  \A c \in Chans, k \in BOOLEAN : Len(sent[c][k]) - Len(rcvd[c][k]) <= FifoCapacity
Queued == HistoryOK /\ DataInMessages /\ Integrity /\ Room

LEMMA CapacityType == FifoCapacity \in Nat
<1>1. \A a \in Nat, b \in Nat \ {0} : a \div b \in Nat
  OBVIOUS
<1>2. BufSize \in Nat /\ HdrSize + 1 \in Nat \ {0}
  BY ChannelAssumption, RiotAssumption
<1>3. BufSize \div (HdrSize + 1) \in Nat
  BY <1>1, <1>2
<1> QED
  BY <1>3 DEF FifoCapacity

LEMMA RoomForOneMore ==
  ASSUME Disciplined, Base, NeverClosed, Streams, DataInMessages
  PROVE  Room
<1> SUFFICES ASSUME NEW c \in Chans, NEW k \in BOOLEAN
             PROVE  Len(sent[c][k]) - Len(rcvd[c][k]) <= FifoCapacity
  BY DEF Room
<1> DEFINE q == files[c][k]
           s == sent[c][k]
           d == rcvd[c][k]
<1>0. ThreadsOK /\ q \in Rings /\ s \in Seq(Messages) /\ d \in Seq(Seq(CellSet))
  BY DEF Base, TypeOK, FilesOK, HistoryOK
<1>1. PICK owed, took : Stream(q, s, d, owed, took) /\ Owes(c, k, owed) /\ Takes(c, k, took)
  BY DEF Streams, FileOK
<1>2. Len(s) > 0 => owed <= s[Len(s)].size
  <2> SUFFICES ASSUME Len(s) > 0 PROVE owed <= s[Len(s)].size
    OBVIOUS
  <2>1. CASE \E t \in Threads : Writing(t, c, k)
    <3>1. PICK t \in Threads : Writing(t, c, k)
      BY <2>1
    <3>2. owed = th[t].call.n - th[t].bytes /\ s[Len(s)] = Message(t, th[t].call)
      BY <1>1, <3>1 DEF Owes
    <3>3. th[t].call \in Calls /\ th[t].bytes \in 0..th[t].call.n
      BY <1>0, <3>1, FrameFacts DEF Writing, WritePcs
    <3>4. s[Len(s)].size = th[t].call.n
      BY <1>0, <3>2, <3>3, MessageType
    <3>5. th[t].call.n \in Nat
      BY <3>3 DEF Calls
    <3> QED
      BY <3>2, <3>3, <3>4, <3>5
  <2>2. CASE \A t \in Threads : ~Writing(t, c, k)
    <3>1. owed = 0
      BY <1>1, <2>2 DEF Owes, NeverClosed
    <3>2. Len(s) \in 1..Len(s)
      BY <1>0
    <3>3. s[Len(s)].size > 0
      BY <3>2 DEF DataInMessages
    <3>4. s[Len(s)] \in Messages
      BY <1>0, <3>2, ElementOfSeq
    <3>5. s[Len(s)].size \in Nat
      BY <3>4 DEF Messages
    <3> QED
      BY <3>1, <3>5
  <2> QED
    BY <2>1, <2>2
<1>3. Len(d) < Len(s) => took <= HdrSize + s[Len(d) + 1].size
  <2> SUFFICES ASSUME Len(d) < Len(s) PROVE took <= HdrSize + s[Len(d) + 1].size
    OBVIOUS
  <2>1. HdrSize \in Nat
    BY ChannelAssumption
  <2>2. CASE \E t \in Threads : Reading(t, c, k)
    <3>1. PICK t \in Threads : Reading(t, c, k)
      BY <2>2
    <3>2. Holds(t, c, k, took)
      BY <1>1, <3>1 DEF Takes
    <3>3. took = HdrSize + Len(th[t].out) /\ th[t].size = s[Len(d) + 1].size
      BY <3>2 DEF Holds
    <3>4. th[t].size \in Nat /\ Len(th[t].out) \in Nat /\ Len(th[t].out) <= th[t].size
      BY <1>0, LenProperties DEF ThreadsOK, Frames, InBounds
    <3>5. \A size \in Nat, out \in Nat : out <= size => HdrSize + out <= HdrSize + size
      BY <2>1
    <3>6. took <= HdrSize + th[t].size
      BY <3>3, <3>4, <3>5
    <3> QED
      BY <3>3, <3>6
  <2>3. CASE \A t \in Threads : ~Reading(t, c, k)
    <3>1. took = 0
      BY <1>1, <2>3 DEF Takes
    <3>2. Len(d) + 1 \in 1..Len(s)
      BY <1>0
    <3>3. s[Len(d) + 1] \in Messages
      BY <1>0, <3>2, ElementOfSeq
    <3>4. PICK size \in Nat : size = s[Len(d) + 1].size
      BY <3>3 DEF Messages
    <3>5. took <= HdrSize + size
      BY <2>1, <3>1
    <3> QED
      BY <3>4, <3>5
  <2> QED
    BY <2>2, <2>3
<1>4. \A i \in 1..Len(s) : s[i].size > 0
  BY DEF DataInMessages
<1> HIDE DEF q, s, d
<1>5. Len(s) - Len(d) <= FifoCapacity
  BY <1>0, <1>1, <1>2, <1>3, <1>4, StreamFits
<1> QED
  BY <1>5 DEF s, d

--------------------------------------------------------------------------------
(* The steps *)

\* A step accepts a message with data or delivers one, in one file, or does neither.
Accepts ==
  /\ rcvd' = rcvd
  /\ \E c \in Chans, k \in BOOLEAN, m \in Messages : m.size > 0 /\ sent' = Noted(sent, c, k, m)
Delivers ==
  /\ sent' = sent
  /\ \E c \in Chans, k \in BOOLEAN, out \in Seq(CellSet) : rcvd' = Noted(rcvd, c, k, out)
Histories == UNCHANGED <<sent, rcvd>> \/ Accepts \/ Delivers

LEMMA HeaderHistory ==
  ASSUME ThreadsOK, NEW t \in Threads, NEW call \in Calls, call.n > 0, NEW k \in BOOLEAN,
         SendHeader(t, call, k), UNCHANGED rcvd
  PROVE  Histories
<1>1. Message(t, call) \in Messages /\ Message(t, call).size > 0 /\ call.c \in Chans
  BY MessageType DEF Calls
<1> QED
  BY <1>1 DEF SendHeader, Histories, Accepts

LEMMA StepHistories ==
  ASSUME Disciplined, NoMakes, HasData, Base, DataInHand, NEW t \in Threads, Step(t)
  PROVE  Histories
<1> DEFINE f == th[t]
<1>0. /\ ThreadsOK /\ InProgram /\ Settled /\ CreatorsStay
      /\ ~Make(t) /\ ~SetOwner(t) /\ ~Kill(t) /\ ~Tries(t)
      /\ \A call \in NextCalls(t) : call \in OwnCalls(t) /\ call \in Calls
      /\ f.pc # "idle" =>
           f.call \in OwnCalls(t) /\ f.call \in Calls /\ f.rb \in BOOLEAN /\ f.out \in Seq(CellSet)
  BY PlainSteps, NothingMade, NextIsOwn, NextCallsType, FrameFacts
     DEF Base, TypeOK, ThreadsOK, InProgram, Settled, Frames
<1>1. ASSUME UNCHANGED <<sent, rcvd>> PROVE Histories
  BY <1>1 DEF Histories
<1>2. CASE Enter(t) \/ FlagsLoad(t) \/ FlagsStore(t) \/ Lives(t)
  BY <1>0, <1>1, <1>2 DEF Enter, FlagsLoad, FlagsStore, Lives, Go, Sleep, Timer, Spin, Exit
<1>3. ASSUME NEW call \in Calls, SendBody(t, call), UNCHANGED rcvd PROVE Histories
  <2>1. CASE UNCHANGED sent
    BY <1>1, <1>3, <2>1
  <2>2. CASE call.n # 0 /\ SendHeader(t, call, OutFile(t, call.c))
    <3>1. call.n > 0 /\ OutFile(t, call.c) \in BOOLEAN
      BY <2>2 DEF Calls, OutFile
    <3> QED
      BY <1>0, <1>3, <2>2, <3>1, HeaderHistory
  <2> QED
    BY <1>3, <2>1, <2>2 DEF SendBody
<1>4. CASE Sends(t)
  <2>1. CASE SendSync(t)
    <3>1. f.call \in Calls
      BY <1>0, <2>1 DEF SendSync, At
    <3> QED
      BY <1>1, <1>3, <2>1, <3>1 DEF SendSync, Synchronize
  <2>2. CASE SendSynced(t)
    <3>1. f.call \in Calls
      BY <1>0, <2>2 DEF SendSynced, At
    <3> QED
      BY <1>3, <2>2, <3>1 DEF SendSynced
  <2>3. CASE SendMsgCall(t)
    <3>1. PICK call \in NextCalls(t) :
            call.op = "send_msg" /\ SendHeader(t, call, OutFile(t, call.c)) /\ UNCHANGED rcvd
      BY <2>3 DEF SendMsgCall, Invokes
    <3>2. call.n > 0 /\ call \in Calls /\ OutFile(t, call.c) \in BOOLEAN
      BY <1>0, <3>1 DEF HasData, OutFile
    <3> QED
      BY <1>0, <3>1, <3>2, HeaderHistory
  <2>4. CASE SendHeaderAgain(t)
    <3>1. f.pc = "send_hdr" /\ SendHeader(t, f.call, f.rb) /\ UNCHANGED rcvd
      BY <2>4 DEF SendHeaderAgain, At
    <3>2. f.call \in Calls /\ f.rb \in BOOLEAN
      BY <1>0, <3>1
    <3>3. f.call.n > 0
      BY <3>1 DEF DataInHand
    <3> QED
      BY <1>0, <3>1, <3>2, <3>3, HeaderHistory
  <2>5. CASE SendResume(t) \/ SendSent(t)
    BY <1>1, <2>5 DEF SendResume, SendSent
  <2> QED
    BY <1>4, <2>1, <2>2, <2>3, <2>4, <2>5 DEF Sends
<1>5. ASSUME f.pc # "idle", Taken(t, f), UNCHANGED sent PROVE Histories
  <2>1. f.call.c \in Chans /\ f.rb \in BOOLEAN /\ f.out \in Seq(CellSet)
    BY <1>0, <1>5 DEF Calls
  <2> QED
    BY <1>5, <2>1 DEF Taken, Histories, Delivers
<1>6. CASE Recvs(t)
  <2>1. CASE RecvGot(t)
    BY <1>1, <1>5, <2>1 DEF RecvGot, At
  <2> QED
    BY <1>1, <1>6, <2>1
       DEF Recvs, RecvSync, RecvSynced, RecvMsgCall, RecvHeaderAgain, RecvResume, Synchronize
<1>7. CASE Drops(t)
  <2>1. CASE DropDropped(t)
    BY <1>1, <1>5, <2>1 DEF DropDropped, At
  <2> QED
    BY <1>1, <1>7, <2>1
       DEF Drops, DropSync, DropSynced, DropHeaderAgain, DropResume, Synchronize
<1> QED
  BY <1>0, <1>2, <1>4, <1>6, <1>7 DEF Step, Manages

LEMMA DataInHandKept ==
  ASSUME Disciplined, NoMakes, HasData, Base, DataInHand, NEW t \in Threads, Step(t)
  PROVE  DataInHand'
<1> DEFINE f == th[t]
<1>0. /\ TypeOK /\ ThreadsOK /\ InProgram /\ Settled /\ DOMAIN th = Threads
      /\ ~Make(t) /\ ~SetOwner(t) /\ ~Kill(t) /\ ~Tries(t)
      /\ \A call \in NextCalls(t) : call \in OwnCalls(t) /\ call \in Calls
      /\ f.pc # "idle" => f.call \in Calls /\ f.rb \in BOOLEAN
  BY PlainSteps, NothingMade, NextIsOwn, NextCallsType, FrameFacts DEF Base, TypeOK, ThreadsOK
<1>1. ASSUME th'[t].pc = "send_hdr" PROVE th'[t].call.n > 0
  <2>0. th'[t] # Idle
    BY <1>1, FrameParts
  <2>1. ASSUME NEW call \in Calls, call.n > 0, NEW k, SendHeader(t, call, k)
        PROVE  th'[t].call.n > 0
    BY <1>0, <2>0, <2>1, SendHeaderLeaves DEF Leaves
  <2>2. ASSUME NEW call \in Calls, SendBody(t, call) PROVE th'[t].call.n > 0
    <3>1. ~Return(t, call, 0)
      BY <1>0, <2>0, GotoChanges
    <3>2. call.n > 0 /\ SendHeader(t, call, OutFile(t, call.c))
      BY <2>2, <3>1 DEF SendBody, Calls
    <3> QED
      BY <2>1, <3>2
  <2>3. CASE Sends(t)
    <3>1. CASE SendSync(t) \/ SendSynced(t)
      <4>1. f.call \in Calls
        BY <1>0, <3>1 DEF SendSync, SendSynced, At
      <4>2. ~Goto(t, Frame("send_body", f.call, FALSE))
        BY <1>0, <1>1 DEF Goto, Frame
      <4> QED
        BY <2>2, <3>1, <4>1, <4>2 DEF SendSync, SendSynced, Synchronize
    <3>2. CASE SendMsgCall(t)
      <4>1. PICK call \in NextCalls(t) :
              call.op = "send_msg" /\ SendHeader(t, call, OutFile(t, call.c))
        BY <3>2 DEF SendMsgCall, Invokes
      <4> QED
        BY <1>0, <2>1, <4>1 DEF HasData
    <3>3. CASE SendHeaderAgain(t)
      <4>1. f.pc = "send_hdr" /\ SendHeader(t, f.call, f.rb)
        BY <3>3 DEF SendHeaderAgain, At
      <4> QED
        BY <1>0, <2>1, <4>1 DEF DataInHand
    <3>4. CASE SendResume(t) \/ SendSent(t)
      <4>1. ASSUME NEW q, SendLoop(t, f.call, f.rb, q, f.bytes) PROVE FALSE
        <5>1. Leaves(t, f.call, f.rb, WritePcs)
          BY <1>0, <4>1, SendLoopLeaves
        <5> QED
          BY <1>1, <2>0, <5>1 DEF Leaves, WritePcs
      <4>2. ~Return(t, f.call, f.bytes)
        BY <1>0, <2>0, GotoChanges
      <4> QED
        BY <3>4, <4>1, <4>2 DEF SendResume, SendSent
    <3> QED
      BY <2>3, <3>1, <3>2, <3>3, <3>4 DEF Sends
  <2>4. ~Recvs(t) /\ ~Drops(t)
    BY <1>0, <1>1, TakesRight DEF OutPcs
  <2>5. ~Enter(t)
    <3> SUFFICES ASSUME Enter(t) PROVE FALSE
      OBVIOUS
    <3>1. PICK call \in NextCalls(t) :
            /\ call.op \in {"send", "try_send", "recv", "try_recv", "drop"}
            /\ Return(t, call, 0) \/ Goto(t, Frame(call.op, call, InFile(t, call.c)))
      BY DEF Enter, Invokes
    <3>2. Goto(t, Frame(call.op, call, InFile(t, call.c)))
      BY <1>0, <2>0, <3>1, GotoChanges
    <3>3. th'[t].pc = call.op
      BY <1>0, <3>2, GotoChanges DEF Frame
    <3> QED
      BY <1>1, <3>1, <3>3
  <2>6. ~FlagsLoad(t)
    BY <1>0, <1>1 DEF FlagsLoad, Goto, Frame
  <2>7. ~FlagsStore(t) /\ ~Timer(t)
    BY <1>0, <2>0, GotoChanges DEF FlagsStore, Timer
  <2>8. ~Sleep(t) /\ ~Spin(t)
    BY <1>0, <1>1 DEF Sleep, Spin, Goto, Frame
  <2>9. CASE Go(t) \/ Exit(t)
    <3>1. th'[t] = th[t]
      BY <1>0, <2>0, <2>9 DEF Go, Exit
    <3> QED
      BY <1>1, <3>1 DEF DataInHand
  <2> QED
    BY <1>0, <2>3, <2>4, <2>5, <2>6, <2>7, <2>8, <2>9 DEF Step, Manages, Lives
<1>2. ASSUME NEW u \in Threads, th'[u].pc = "send_hdr" PROVE th'[u].call.n > 0
  <2>1. th'[u] # Idle
    BY <1>2, FrameParts
  <2> QED
    BY <1>0, <1>1, <1>2, <2>1, OthersStay, PlainSteps DEF DataInHand
<1> QED
  BY <1>2 DEF DataInHand

LEMMA DataInMessagesKept ==
  ASSUME Disciplined, NoMakes, HasData, Base, DataInHand, DataInMessages, NEW t \in Threads, Step(t)
  PROVE  DataInMessages'
<1>0. HistoryOK
  BY DEF Base, TypeOK
<1>1. CASE sent' = sent
  BY <1>1 DEF DataInMessages
<1>2. CASE Accepts
  <2>1. PICK c \in Chans, k \in BOOLEAN, m \in Messages : m.size > 0 /\ sent' = Noted(sent, c, k, m)
    BY <1>2 DEF Accepts
  <2>2. sent'[c][k] = Append(sent[c][k], m) /\ sent[c][k] \in Seq(Messages)
    BY <1>0, <2>1 DEF Noted, HistoryOK
  <2>3. \A s \in Seq(Messages) : \A i \in 1..Len(Append(s, m)) :
          Append(s, m)[i] = m \/ (i \in 1..Len(s) /\ Append(s, m)[i] = s[i])
    OBVIOUS
  <2>4. \A i \in 1..Len(sent'[c][k]) : sent'[c][k][i].size > 0
    BY <2>1, <2>2, <2>3 DEF DataInMessages
  <2>5. \A d \in Chans, l \in BOOLEAN : d # c \/ l # k => sent'[d][l] = sent[d][l]
    BY <1>0, <2>1 DEF Noted, HistoryOK
  <2> QED
    BY <2>4, <2>5 DEF DataInMessages
<1> QED
  BY <1>1, <1>2, StepHistories DEF Histories, Delivers

--------------------------------------------------------------------------------
(* The queues *)

LEMMA WholePayload ==
  ASSUME NEW m \in Messages, m.size > 0
  PROVE  Whole(Payload(m)) = m
<1>1. m.size \in Nat /\ HdrSize \in Nat
  BY ChannelAssumption DEF Messages
<1>2. Len(Payload(m)) = m.size /\ Payload(m)[1] = [msg |-> m, off |-> HdrSize + 1]
  <2>1. 1 \in 1..m.size
    BY <1>1
  <2> QED
    BY <1>1, <2>1, CellsType, CellAt DEF Payload
<1>3. Payload(m) # <<>>
  BY <1>1, <1>2
<1> QED
  BY <1>2, <1>3 DEF Whole

\* The queues of MessageFifo, as ChannelFifo reads them off a state.
Queues == Chans \X BOOLEAN
Accepted == [q \in Queues |-> sent[q[1]][q[2]]]
Delivered(c, k) == [i \in 1..Len(rcvd[c][k]) |-> Whole(rcvd[c][k][i])]
DeliveredAll == [q \in Queues |-> Delivered(q[1], q[2])]

LEMMA FifoInit ==
  ASSUME Init PROVE Fifo!Init
<1>1. \A c \in Chans, k \in BOOLEAN : sent[c][k] = <<>> /\ rcvd[c][k] = <<>>
  BY DEF Init, NewFiles
<1>2. \A q \in Queues : Accepted[q] = <<>> /\ DeliveredAll[q] = <<>>
  <2> SUFFICES ASSUME NEW c \in Chans, NEW k \in BOOLEAN
               PROVE  sent[c][k] = <<>> /\ Delivered(c, k) = <<>>
    BY DEF Queues, Accepted, DeliveredAll
  <2> QED
    BY <1>1 DEF Delivered
<1> QED
  BY <1>2 DEF Fifo!Init, Accepted, DeliveredAll, Delivered, Queues

LEMMA AcceptsIsSend ==
  ASSUME Queued, Queued', Accepts PROVE Fifo!Next
<1>1. PICK c \in Chans, k \in BOOLEAN, m \in Messages : m.size > 0 /\ sent' = Noted(sent, c, k, m)
  BY DEF Accepts
<1> DEFINE q == <<c, k>>
<1>2. q \in Queues /\ rcvd' = rcvd
  BY DEF Queues, Accepts
<1>3. /\ sent[c][k] \in Seq(Messages) /\ sent'[c][k] = Append(sent[c][k], m)
      /\ \A d \in Chans, l \in BOOLEAN : d # c \/ l # k => sent'[d][l] = sent[d][l]
  BY <1>1 DEF Noted, Queued, HistoryOK
<1>4. Accepted' = [Accepted EXCEPT ![q] = Append(@, m)]
  <2>1. ASSUME NEW p \in Queues
        PROVE  sent'[p[1]][p[2]] = IF p = q THEN Append(sent[c][k], m) ELSE sent[p[1]][p[2]]
    <3>1. PICK d \in Chans, l \in BOOLEAN : p = <<d, l>>
      BY DEF Queues
    <3> QED
      BY <1>3, <3>1
  <2> QED
    BY <1>2, <2>1 DEF Accepted
<1>5. Accepted[q] = sent[c][k] /\ Accepted'[q] = Append(sent[c][k], m)
  BY <1>2, <1>3 DEF Accepted
<1>6. Len(Accepted'[q]) = Len(Accepted[q]) + 1 /\ Accepted'[q][Len(Accepted'[q])] = m
  BY <1>3, <1>5
<1>7. DeliveredAll' = DeliveredAll /\ Len(DeliveredAll[q]) = Len(rcvd[c][k])
  BY <1>2 DEF DeliveredAll, Delivered, Queues, Queued, HistoryOK
<1>8. Len(sent'[c][k]) - Len(rcvd[c][k]) <= FifoCapacity
  BY <1>2 DEF Queued, Room
<1>9. Len(Accepted[q]) - Len(DeliveredAll[q]) < FifoCapacity
  <2>1. /\ Len(sent'[c][k]) = Len(sent[c][k]) + 1 /\ Len(sent[c][k]) \in Nat
        /\ Len(rcvd[c][k]) \in Nat /\ FifoCapacity \in Nat
    BY <1>3, CapacityType, LenProperties DEF Queued, HistoryOK
  <2>2. \A a \in Nat, b \in Nat, e \in Nat : (a + 1) - b <= e => a - b < e
    OBVIOUS
  <2>3. Len(sent[c][k]) - Len(rcvd[c][k]) < FifoCapacity
    BY <1>8, <2>1, <2>2
  <2> QED
    BY <1>5, <1>7, <2>3
<1>10. Fifo!Send(q)
  BY <1>4, <1>5, <1>6, <1>7, <1>9
     DEF Fifo!Send, Accepted, DeliveredAll, Delivered, Queues
<1> QED
  BY <1>2, <1>10 DEF Fifo!Next, Queues

LEMMA DeliversIsTake ==
  ASSUME Queued, Queued', Delivers PROVE Fifo!Next
<1>1. PICK c \in Chans, k \in BOOLEAN, out \in Seq(CellSet) : rcvd' = Noted(rcvd, c, k, out)
  BY DEF Delivers
<1> DEFINE q == <<c, k>>
           d == rcvd[c][k]
           n == Len(d)
<1>2. q \in Queues /\ sent' = sent
  BY DEF Queues, Delivers
<1>3. /\ d \in Seq(Seq(CellSet)) /\ rcvd'[c][k] = Append(d, out) /\ sent[c][k] \in Seq(Messages)
      /\ \A e \in Chans, l \in BOOLEAN : e # c \/ l # k => rcvd'[e][l] = rcvd[e][l]
  BY <1>1 DEF Noted, Queued, HistoryOK
<1>4. /\ n \in Nat /\ Len(rcvd'[c][k]) = n + 1 /\ rcvd'[c][k][n + 1] = out
      /\ \A i \in 1..n : rcvd'[c][k][i] = d[i]
  BY <1>3
<1>5. n + 1 <= Len(sent[c][k]) /\ out = Payload(sent[c][k][n + 1])
  <2>1. /\ Len(rcvd'[c][k]) <= Len(sent[c][k])
        /\ \A i \in 1..Len(rcvd'[c][k]) : rcvd'[c][k][i] = Payload(sent[c][k][i])
    BY <1>2 DEF Queued, Integrity
  <2>2. n + 1 \in 1..Len(rcvd'[c][k])
    BY <1>4
  <2> QED
    BY <1>4, <2>1, <2>2
<1>6. PICK m \in Messages : m = sent[c][k][n + 1] /\ m.size > 0
  <2>1. n + 1 \in 1..Len(sent[c][k])
    BY <1>3, <1>4, <1>5, LenProperties
  <2>2. sent[c][k][n + 1] \in Messages
    BY <1>3, <2>1, ElementOfSeq
  <2>3. sent[c][k][n + 1].size > 0
    BY <2>1 DEF Queued, DataInMessages
  <2> QED
    BY <2>2, <2>3
<1>7. Whole(out) = m
  BY <1>5, <1>6, WholePayload
<1>8. /\ Accepted[q] = sent[c][k] /\ DeliveredAll[q] = Delivered(c, k)
      /\ Len(Delivered(c, k)) = n /\ Accepted' = Accepted
  BY <1>2, <1>3, <1>4 DEF Accepted, DeliveredAll, Delivered
<1>9. Delivered(c, k)' = Append(Delivered(c, k), m)
  <2>1. Delivered(c, k)' = [i \in 1..n + 1 |-> Whole(rcvd'[c][k][i])]
    BY <1>4 DEF Delivered
  <2>2. ASSUME NEW i \in 1..n + 1
        PROVE  Whole(rcvd'[c][k][i]) = IF i = n + 1 THEN m ELSE Whole(d[i])
    <3>1. CASE i = n + 1
      BY <1>4, <1>7, <3>1
    <3>2. CASE i # n + 1
      <4>1. i \in 1..n
        BY <1>4, <3>2
      <4> QED
        BY <1>4, <3>2, <4>1
    <3> QED
      BY <3>1, <3>2
  <2> DEFINE f == [i \in 1..n |-> Whole(d[i])]
  <2>3. Delivered(c, k) = f
    BY DEF Delivered
  <2>4. Delivered(c, k)' = [i \in 1..n + 1 |-> IF i = n + 1 THEN m ELSE Whole(d[i])]
    BY <2>1, <2>2
  <2>5. Append(f, m) = [i \in 1..n + 1 |-> IF i = n + 1 THEN m ELSE Whole(d[i])]
    BY <1>4, <1>8, <2>3
  <2> QED
    BY <2>3, <2>4, <2>5
<1>10. DeliveredAll' = [DeliveredAll EXCEPT ![q] = Append(@, m)]
  <2>1. ASSUME NEW p \in Queues
        PROVE  Delivered(p[1], p[2])' = IF p = q THEN Append(Delivered(c, k), m) ELSE Delivered(p[1], p[2])
    <3>1. PICK e \in Chans, l \in BOOLEAN : p = <<e, l>>
      BY DEF Queues
    <3>2. CASE p = q
      BY <1>9, <3>1, <3>2
    <3>3. CASE p # q
      BY <1>3, <3>1, <3>3 DEF Delivered
    <3> QED
      BY <3>2, <3>3
  <2> QED
    BY <1>2, <1>8, <2>1 DEF DeliveredAll
<1>11. Fifo!Take(q)
  <2>1. Len(DeliveredAll[q]) < Len(Accepted[q])
    <3>1. Len(sent[c][k]) \in Nat
      BY <1>3, LenProperties
    <3> QED
      BY <1>4, <1>5, <1>8, <3>1
  <2>2. DeliveredAll' = [DeliveredAll EXCEPT ![q] = Append(@, Accepted[q][Len(@) + 1])]
    BY <1>6, <1>8, <1>10
  <2> QED
    BY <1>8, <2>1, <2>2 DEF Fifo!Take, Accepted, DeliveredAll, Delivered, Queues
<1> QED
  BY <1>2, <1>11 DEF Fifo!Next, Queues

\* The channels implement the bounded queues of MessageFifo, except for the promise
\* that everything is taken in the end: at the beginning nothing was sent, and every
\* step of the channels puts one whole message into one queue that has room for it, or
\* takes the next one out of one queue, or leaves the queues alone.
THEOREM ChannelsAreQueues ==
  ASSUME Disciplined, NoMakes, NoCloses, HasData
  PROVE  Spec => Fifo!Init /\ [][Fifo!Next]_(Fifo!fifo)
<1> DEFINE Inv == Base /\ NeverClosed /\ Streams /\ DataInHand /\ DataInMessages
<1>1. Init => DataInHand /\ DataInMessages
  <2> SUFFICES ASSUME Init PROVE DataInHand /\ DataInMessages
    OBVIOUS
  <2>1. \A t \in Threads : th[t].pc = "idle"
    BY FrameParts DEF Init
  <2>2. \A c \in Chans, k \in BOOLEAN : sent[c][k] = <<>>
    BY DEF Init, NewFiles
  <2> QED
    BY <2>1, <2>2 DEF DataInHand, DataInMessages
<1>2. Base /\ DataInHand /\ DataInMessages /\ [Next]_vars => (DataInHand /\ DataInMessages)'
  <2> SUFFICES ASSUME Base, DataInHand, DataInMessages, [Next]_vars
               PROVE  (DataInHand /\ DataInMessages)'
    OBVIOUS
  <2>1. CASE \E t \in Threads : Step(t)
    BY <2>1, DataInHandKept, DataInMessagesKept
  <2>2. CASE UNCHANGED vars
    BY <2>2 DEF vars, DataInHand, DataInMessages
  <2> QED
    BY <2>1, <2>2 DEF Next, Ended
<1>3. Spec => [](Base /\ NeverClosed /\ Streams)
  BY StreamsInvariant
<1>4. Inv => Queued
  BY RoomForOneMore, StreamsShow DEF Queued, Base, TypeOK
<1>5. Inv /\ Queued /\ Queued' /\ [Next]_vars => [Fifo!Next]_(Fifo!fifo)
  <2> SUFFICES ASSUME Inv, Queued, Queued', [Next]_vars PROVE Fifo!Next \/ UNCHANGED Fifo!fifo
    OBVIOUS
  <2>1. UNCHANGED <<sent, rcvd>> => UNCHANGED Fifo!fifo
    BY DEF Fifo!fifo
  <2>2. CASE \E t \in Threads : Step(t)
    BY <2>1, <2>2, StepHistories, AcceptsIsSend, DeliversIsTake DEF Histories
  <2>3. CASE UNCHANGED vars
    BY <2>1, <2>3 DEF vars
  <2> QED
    BY <2>2, <2>3 DEF Next, Ended
<1>6. Init => Fifo!Init
  BY FifoInit
<1> QED
  BY <1>1, <1>2, <1>3, <1>4, <1>5, <1>6, PTL DEF Spec
================================================================================
