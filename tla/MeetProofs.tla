------------------------------- MODULE MeetProofs -------------------------------
(******************************************************************************)
(* Rendezvous, and with it Integrity, NothingLeft and NoHang, for every two   *)
(* threads whose calls on unbuffered channels match one by one: an unbuffered *)
(* channel is a meeting point when one of the threads is more urgent and that *)
(* one does not send twice running.  The invariant is the list of the stages  *)
(* that a meeting goes through.                                               *)
(******************************************************************************)
EXTENDS PairProofs

--------------------------------------------------------------------------------
(* The programs *)

\* turns[i]: where the threads meet for the i-th time, who sends, and whether data.
Encounters == [c : Chans, from : Threads, data : BOOLEAN]

\* The blocking calls in a history; whether it is made of channel_make calls only;
\* whether p made c in it or before.
Made(h) == Cardinality({i \in 1..Len(h) : h[i].call.op \in Blocking})
OnlyMakes(h) == \A i \in 1..Len(h) : h[i].call.op = "make"
Owns(p, c, h) == Creator[c] = p \/ \E i \in 1..Len(h) : h[i].call.op = "make" /\ h[i].call.c = c

\* h is a history that t's code follows: each call is one it may make next.
Follows(t, h) == \A i \in 1..Len(h) : h[i].call \in Code(t, SubSeq(h, 1, i - 1))

\* Calls that are no meeting: sleeping on a timer, a channel_set_buffered(c, false),
\* and the channels that p makes before it does anything else.
Besides(p, t, h, call) ==
  \/ call.op = "sleep"
  \/ call.op = "set_buffered" /\ call.n = 0
  \/ call.op = "make" /\ call.n = 0 /\ t = p /\ OnlyMakes(h)

\* t's part in a meeting.  p may drop what it is sent on a channel of its own.
Plays(p, t, h, call, turn) ==
  /\ call.c = turn.c
  /\ \/ call.op = "send" /\ t = turn.from /\ (call.n # 0) = turn.data
     \/ call.op = "recv" /\ t # turn.from /\ (call.n # 0) = turn.data
     \/ call.op = "drop" /\ t # turn.from /\ turn.data /\ t = p /\ Owns(p, call.c, h)
ByTurns(p, turns) ==
  \A t \in Threads, h \in Seq(Results) : Follows(t, h) =>
    \A call \in Calls : call \in Code(t, h) =>
      /\ call.again = 0
      /\ \/ Besides(p, t, h, call)
         \/ Made(h) < Len(turns) /\ Plays(p, t, h, call, turns[Made(h) + 1])

\* After a message p does not wait for a reader of the same channel in its next call:
\* see ProducerProgram of MCChannel for what happens else.
Unhurried(p, turns) ==
  \A i \in 1..Len(turns) :
    i > 1 /\ turns[i - 1].data /\ turns[i - 1].from = p /\ turns[i].from = p =>
      turns[i].c # turns[i - 1].c

\* p is the more urgent thread.
Meeting(p, m, turns) ==
  /\ turns \in Seq(Encounters)
  /\ p # m /\ Threads = {p, m} /\ Prio[p] < Prio[m] /\ Boot \subseteq {Threads}
  /\ Modes \subseteq {FALSE} /\ HdrSize < BufSize /\ ~Tsrb
  /\ ByTurns(p, turns) /\ Unhurried(p, turns) /\ NoKills

--------------------------------------------------------------------------------
(* The invariant *)

RestPcs == {"idle", "asleep", "flags"}
SyncPcs == {"send", "recv", "drop"}
Bodies == {"send_body", "recv_body", "drop_body"}
HdrPcs == {"recv_body", "recv_hdr", "drop_hdr"}

\* t is between its meetings, waits in channel_synchronize, or has met.
Loose(t) == th[t].pc \in RestPcs \cup SyncPcs
Asks(t) == th[t].pc \in Bodies /\ status[t] = "sleeping"
Came(t) == th[t].pc \in Bodies /\ status[t] = "ready"

\* t may still make channels.
Fresh(t) == th[t].pc = "idle" /\ OnlyMakes(ret[t]) /\ ~Gone(t)

QuietFile(c, k) == files[c][k] = <<>> /\ Len(sent[c][k]) = Len(rcvd[c][k])
Quiet == \A c \in Chans, k \in BOOLEAN : QuietFile(c, k)

\* b bytes of msg have gone in; t took the header with the first Len(out) of them.
Held(t) == IF th[t].pc \in HdrPcs THEN 0 ELSE HdrSize + Len(th[t].out)
Carries(c, k, t, msg, b) ==
  /\ \A d \in Chans, l \in BOOLEAN : d # c \/ l # k => QuietFile(d, l)
  /\ Len(sent[c][k]) = Len(rcvd[c][k]) + 1
  /\ sent[c][k][Len(sent[c][k])] = msg
  /\ b \in 1..msg.size
  /\ files[c][k] = Cells(msg, Held(t), HdrSize + b - Held(t))
  /\ th[t].pc \notin HdrPcs =>
       /\ th[t].rb = k /\ th[t].size = msg.size
       /\ Len(th[t].out) <= b /\ th[t].out = Cells(msg, HdrSize, Len(th[t].out))

\* The stages: at most one waits for the other; both have come; p waits for m to put
\* the header in; m sends; p sends; p is through and m still to return.
Apart(p, m) ==
  /\ Done(p) = Done(m)
  /\ \A t \in {p, m} : Loose(t) \/ Asks(t)
  /\ ~(Asks(p) /\ Asks(m))
  /\ Quiet
Met(p, m) == Done(p) = Done(m) /\ Came(p) /\ Came(m) /\ Quiet
Due(p, m) ==
  /\ Done(p) = Done(m)
  /\ th[p].pc \in {"recv_hdr", "drop_hdr"} /\ status[p] = "sleeping"
  /\ th[p].rb = InFile(p, th[p].call.c)
  /\ th[m].pc = "send_body" /\ status[m] = "ready" /\ th[m].call.n # 0
  /\ Quiet
Draws(p, m) ==
  LET f == th[m]
      g == th[p]
      c == f.call.c
      k == OutFile(m, c)
  IN  /\ Done(p) = Done(m)
      /\ f.pc = "send_sent" /\ status[m] = "ready" /\ f.rb = k /\ g.rb = k
      /\ Carries(c, k, p, Message(m, f.call), f.bytes)
      /\ \/ /\ g.pc \in {"recv_hdr", "drop_hdr", "recv_loop", "drop_loop"}
            /\ status[p] = "ready" /\ files[c][k] # <<>>
         \/ g.pc \in {"recv_got", "drop_dropped"} /\ status[p] = "ready" /\ Len(g.out) = f.bytes
         \/ /\ g.pc \in {"recv_loop", "drop_loop"} /\ status[p] = "sleeping"
            /\ Len(g.out) = f.bytes /\ f.bytes < f.call.n
Pours(p, m) ==
  LET f == th[p]
      c == f.call.c
      k == OutFile(p, c)
  IN  /\ Done(p) = Done(m)
      /\ th[m].pc \in {"recv_body", "recv_got"} /\ status[m] = "ready" /\ f.rb = k
      /\ Carries(c, k, m, Message(p, f.call), f.bytes)
      /\ \/ f.pc = "send_sent" /\ status[p] = "ready"
         \/ /\ f.pc = "send_loop" /\ f.bytes < f.call.n
            /\ status[p] = "ready" \/ (status[p] = "sleeping" /\ files[c][k] # <<>>)
Ahead(p, m) ==
  LET f == th[m]
      c == f.call.c
      k == InFile(m, c)
      msg == sent[c][k][Len(sent[c][k])]
  IN  /\ Done(p) = Done(m) + 1 /\ status[m] = "ready"
      /\ Loose(p) \/ Asks(p)
      /\ \/ f.pc \in Bodies /\ f.call.n = 0 /\ Quiet
         \/ f.pc = "send_sent" /\ f.bytes = f.call.n /\ Quiet
         \/ f.pc \in {"recv_body", "recv_got"} /\ f.call.n # 0 /\ Carries(c, k, m, msg, msg.size)
Stage(p, m) == Apart(p, m) \/ Met(p, m) \/ Due(p, m) \/ Draws(p, m) \/ Pours(p, m) \/ Ahead(p, m)

\* Who waits, in which call, and in which slot.
WaitSlot(t) == IF th[t].pc \in SendPcs THEN "read" ELSE "write"
Placed(t) ==
  /\ th[t].pc # "idle" => th[t].call \in NextCalls(t)
  /\ th[t].pc = "flags" => th[t].call.op = "set_buffered" /\ th[t].flags = {}
  /\ th[t].pc = "asleep" => th[t].call.op = "sleep"
  /\ Gone(t) => th[t].pc = "idle" /\ NextCalls(t) = {}
  /\ status[t] = "sleeping" =>
       /\ th[t].pc # "idle"
       /\ th[t].pc = "asleep" \/ blocked[th[t].call.c][WaitSlot(t)] = t

\* The channels are open and unbuffered, p's own stay p's, and m has not run as long
\* as p makes channels.
Grounded(p, m) ==
  /\ \A c \in Chans : chan[c].flags = {} /\ (Owns(p, c, ret[p]) => chan[c].creator = p)
  /\ Fresh(p) => status[p] = "ready" /\ th[m].pc = "idle"
  /\ \A t \in Threads : Placed(t)

MeetInv(p, m) == Grounded(p, m) /\ Stage(p, m) /\ Integrity
Following == \A t \in Threads : Follows(t, ret[t])
Scene(p, m, turns) ==
  Meeting(p, m, turns) /\ TypeOK /\ WaiterAsleep /\ InProgram /\ Following /\ MeetInv(p, m)

--------------------------------------------------------------------------------
(* What a meeting is *)

LEMMA MeetingPlain ==
  ASSUME NEW p, NEW m, NEW turns, Meeting(p, m, turns)
  PROVE  /\ p \in Threads /\ m \in Threads /\ p # m
         /\ \A t \in Threads : t = p \/ t = m
         /\ HdrSize \in Nat \ {0} /\ BufSize \in Nat /\ HdrSize < BufSize /\ ~Tsrb
BY RiotAssumption, ChannelAssumption DEF Meeting

\* What a thread may call, and where.
LEMMA CallKinds ==
  ASSUME NEW p, NEW m, NEW turns, Scene(p, m, turns), NEW t \in Threads, NEW call \in NextCalls(t)
  PROVE  /\ call \in Calls /\ call.c \in Chans /\ call.n \in Nat /\ call.again = 0
         /\ call.op \in {"sleep", "set_buffered", "make", "send", "recv", "drop"}
         /\ call.op \in {"set_buffered", "make"} => call.n = 0
         /\ call.op = "make" => t = p /\ OnlyMakes(ret[p])
         /\ call.op \in SyncPcs =>
              /\ Made(ret[t]) < Len(turns)
              /\ Plays(p, t, ret[t], call, turns[Made(ret[t]) + 1])
<1>1. /\ ret[t] \in Seq(Results) /\ Follows(t, ret[t])
      /\ call \in Calls /\ call \in Code(t, ret[t])
  BY DEF Scene, TypeOK, ThreadsOK, NextCalls, Following
<1>2. \A h \in Seq(Results) : Follows(t, h) /\ call \in Code(t, h) =>
        /\ call.again = 0
        /\ \/ Besides(p, t, h, call)
           \/ Made(h) < Len(turns) /\ Plays(p, t, h, call, turns[Made(h) + 1])
  BY <1>1 DEF Scene, Meeting, ByTurns
<1>3. /\ call.again = 0
      /\ \/ Besides(p, t, ret[t], call)
         \/ Made(ret[t]) < Len(turns) /\ Plays(p, t, ret[t], call, turns[Made(ret[t]) + 1])
  BY <1>1, <1>2
<1>4. call.c \in Chans /\ call.n \in Nat
  BY <1>1 DEF Calls
<1>5. CASE Besides(p, t, ret[t], call)
  BY <1>1, <1>3, <1>4, <1>5 DEF Besides, SyncPcs
<1>6. CASE Made(ret[t]) < Len(turns) /\ Plays(p, t, ret[t], call, turns[Made(ret[t]) + 1])
  <2>1. call.op \in {"send", "recv", "drop"}
    BY <1>6 DEF Plays
  <2> QED
    BY <1>1, <1>3, <1>4, <1>6, <2>1
<1> QED
  BY <1>3, <1>5, <1>6

\* The place of a thread tells what it calls.
LEMMA PlaceKinds ==
  ASSUME NEW p, NEW m, NEW turns, Scene(p, m, turns), NEW t \in Threads, th[t].pc # "idle"
  PROVE  /\ th[t].call \in NextCalls(t) /\ th[t].call \in Calls
         /\ th[t].pc \in SendPcs <=> th[t].call.op = "send"
         /\ th[t].pc \in RecvPcs <=> th[t].call.op = "recv"
         /\ th[t].pc \in DropPcs <=> th[t].call.op = "drop"
<1>1. th[t].call \in NextCalls(t) /\ th[t].pc \in PcsOf(th[t].call.op)
  BY DEF Scene, MeetInv, Grounded, Placed, InProgram
<1>2. th[t].call \in Calls /\ th[t].call.op \in {"sleep", "set_buffered", "make", "send", "recv", "drop"}
  BY <1>1, CallKinds
<1> QED
  BY <1>1, <1>2 DEF PcsOf, SendPcs, RecvPcs, DropPcs

\* How many blocking calls a history has.
LEMMA MadeOne ==
  ASSUME NEW h \in Seq(Results), NEW r \in Results
  PROVE  /\ Made(h) \in Nat
         /\ Made(Append(h, r)) = Made(h) + (IF r.call.op \in Blocking THEN 1 ELSE 0)
         /\ OnlyMakes(Append(h, r)) <=> OnlyMakes(h) /\ r.call.op = "make"
         /\ \A p, c : Owns(p, c, Append(h, r)) <=>
                        Owns(p, c, h) \/ (r.call.op = "make" /\ r.call.c = c)
<1> DEFINE B(g) == {i \in 1..Len(g) : g[i].call.op \in Blocking}
           n == Len(h)
<1>1. /\ n \in Nat /\ Len(Append(h, r)) = n + 1 /\ Append(h, r)[n + 1] = r
      /\ \A i \in 1..n : Append(h, r)[i] = h[i]
  BY AppendProperties, LenProperties
<1>2. 1..n + 1 = (1..n) \cup {n + 1} /\ n + 1 \notin 1..n
  BY <1>1
<1>3. IsFiniteSet(B(h)) /\ Cardinality(B(h)) \in Nat
  <2>1. IsFiniteSet(1..n) /\ B(h) \subseteq 1..n
    BY <1>1, FS_Interval
  <2>2. IsFiniteSet(B(h))
    BY <2>1, FS_Subset
  <2> QED
    BY <2>2, FS_CardinalityType
<1>4. B(Append(h, r)) = B(h) \cup (IF r.call.op \in Blocking THEN {n + 1} ELSE {})
  BY <1>1, <1>2
<1>5. n + 1 \notin B(h)
  BY <1>2
<1>6. Cardinality(B(Append(h, r))) = Cardinality(B(h)) + (IF r.call.op \in Blocking THEN 1 ELSE 0)
  <2>1. CASE r.call.op \in Blocking
    <3>1. B(Append(h, r)) = B(h) \cup {n + 1}
      BY <1>4, <2>1
    <3>2. Cardinality(B(h) \cup {n + 1}) = Cardinality(B(h)) + 1
      BY <1>3, <1>5, FS_AddElement
    <3> HIDE DEF B
    <3> QED
      BY <2>1, <3>1, <3>2
  <2>2. CASE r.call.op \notin Blocking
    <3>1. B(Append(h, r)) = B(h)
      BY <1>4, <2>2
    <3> HIDE DEF B
    <3> QED
      BY <1>3, <2>2, <3>1
  <2> QED
    BY <2>1, <2>2
<1>7. OnlyMakes(Append(h, r)) <=> OnlyMakes(h) /\ r.call.op = "make"
  BY <1>1, <1>2 DEF OnlyMakes
<1>8. \A p, c : Owns(p, c, Append(h, r)) <=> Owns(p, c, h) \/ (r.call.op = "make" /\ r.call.c = c)
  BY <1>1, <1>2 DEF Owns
<1> QED
  BY <1>3, <1>6, <1>7, <1>8 DEF Made

LEMMA MadeType ==
  ASSUME NEW h \in Seq(Results) PROVE Made(h) \in Nat
<1>1. IsFiniteSet(1..Len(h))
  BY LenProperties, FS_Interval
<1>2. IsFiniteSet({i \in 1..Len(h) : h[i].call.op \in Blocking})
  BY <1>1, FS_Subset
<1> QED
  BY <1>2, FS_CardinalityType DEF Made

\* Where both have had as many turns, the one sends what the other takes.
LEMMA Partners ==
  ASSUME NEW p, NEW m, NEW turns, Scene(p, m, turns), Done(p) = Done(m),
         NEW a \in NextCalls(p), NEW b \in NextCalls(m), a.op \in SyncPcs, b.op \in SyncPcs
  PROVE  /\ a.c = b.c /\ b.op # "drop"
         /\ a.op = "send" <=> b.op # "send"
         /\ a.op = "drop" => b.n # 0 /\ OutFile(p, a.c)
         /\ a.op # "drop" => (a.n = 0 <=> b.n = 0)
<1>1. Made(ret[p]) = Made(ret[m])
  BY DEF Done, Made
<1>2. p \in Threads /\ m \in Threads /\ p # m /\ \A t \in Threads : t = p \/ t = m
  BY MeetingPlain DEF Scene
<1> DEFINE turn == turns[Made(ret[p]) + 1]
<1>3. /\ Plays(p, p, ret[p], a, turn) /\ Plays(p, m, ret[m], b, turn)
      /\ Made(ret[p]) < Len(turns) /\ a.c \in Chans
  BY <1>1, <1>2, CallKinds
<1>4. turn.from \in Threads
  <2>1. turns \in Seq(Encounters) /\ Made(ret[p]) \in Nat
    BY <1>2, MadeType DEF Scene, Meeting, TypeOK, ThreadsOK
  <2>2. Made(ret[p]) + 1 \in 1..Len(turns)
    BY <1>3, <2>1, LenProperties
  <2>3. turn \in Encounters
    BY <2>1, <2>2, ElementOfSeq
  <2> QED
    BY <2>3 DEF Encounters
<1> HIDE DEF turn
<1>5. turn.from = p \/ turn.from = m
  BY <1>2, <1>4
<1>6. a.op = "drop" => OutFile(p, a.c)
  <2>1. ASSUME a.op = "drop" PROVE OutFile(p, a.c)
    <3>1. Owns(p, a.c, ret[p])
      BY <1>3, <2>1 DEF Plays
    <3> QED
      BY <1>3, <3>1 DEF Scene, MeetInv, Grounded, OutFile
  <2> QED
    BY <2>1
<1> QED
  BY <1>2, <1>3, <1>5, <1>6 DEF Plays

--------------------------------------------------------------------------------
(* Parts of a message *)

LEMMA NoCells ==
  ASSUME NEW msg \in Messages, NEW a \in Nat
  PROVE  Cells(msg, a, 0) = <<>>
BY CellsType, EmptySeq

\* A sequence of cells is a part of a message when its cells are.
LEMMA SameCells ==
  ASSUME NEW msg \in Messages, NEW a \in Nat, NEW n \in Nat, NEW q \in Seq(CellSet), Len(q) = n,
         \A i \in 1..n : q[i] = [msg |-> msg, off |-> a + i]
  PROVE  q = Cells(msg, a, n)
<1> DEFINE r == Cells(msg, a, n)
<1>1. r \in Seq(CellSet) /\ Len(r) = n
  BY CellsType
<1>2. \A i \in 1..n : r[i] = [msg |-> msg, off |-> a + i]
  BY CellAt
<1> HIDE DEF r
<1>3. q = r
  BY <1>1, <1>2, SeqEqual
<1> QED
  BY <1>3 DEF r

\* What fits of the next part goes in behind the part that is there.
LEMMA CellsAdded ==
  ASSUME NEW msg \in Messages, NEW a \in Nat, NEW e \in Nat, e <= BufSize, NEW n \in Nat
  PROVE  RbAdd(Cells(msg, a, e), Cells(msg, a + e, n)) =
           Cells(msg, a, e + Least(n, RbFree(Cells(msg, a, e))))
<1> DEFINE q == Cells(msg, a, e)
           data == Cells(msg, a + e, n)
           r == RbAdd(q, data)
           chunk == Least(n, RbFree(q))
<1>1. /\ q \in Seq(CellSet) /\ Len(q) = e /\ a + e \in Nat
      /\ data \in Seq(CellSet) /\ Len(data) = n
  BY CellsType
<1>2. q \in Rings
  BY <1>1 DEF Rings
<1>3. /\ r \in Seq(CellSet) /\ Len(r) = e + chunk /\ RbFree(q) \in Nat
  BY <1>1, AddFits
<1>4. chunk \in 0..n
  BY <1>3 DEF Least
<1>5. ASSUME NEW i \in 1..e + chunk PROVE r[i] = [msg |-> msg, off |-> a + i]
  <2>1. CASE i <= e
    <3>1. i \in 1..Len(r) /\ i <= Len(q) /\ i \in 1..e
      BY <1>1, <1>3, <1>5, <2>1
    <3>2. r[i] = q[i]
      BY <1>1, <1>2, <3>1, AddedCells
    <3> QED
      BY <3>1, <3>2, CellAt
  <2>2. CASE ~(i <= e)
    <3>1. i \in 1..Len(r) /\ i > Len(q) /\ i - e \in 1..n /\ a + e + (i - e) = a + i
      BY <1>1, <1>3, <1>4, <1>5, <2>2
    <3>2. r[i] = data[i - e]
      BY <1>1, <1>2, <3>1, AddedCells
    <3>3. data[i - e] = [msg |-> msg, off |-> a + e + (i - e)]
      BY <1>1, <3>1, CellAt
    <3> QED
      BY <3>1, <3>2, <3>3
  <2> QED
    BY <2>1, <2>2
<1>6. e + chunk \in Nat
  BY <1>4
<1> HIDE DEF r, q, chunk
<1>7. r = Cells(msg, a, e + chunk)
  BY <1>3, <1>5, <1>6, SameCells
<1> QED
  BY <1>7 DEF r, q, chunk

\* A get takes the first bytes of a part, a drop leaves the others.
LEMMA CellsTaken ==
  ASSUME NEW msg \in Messages, NEW a \in Nat, NEW e \in Nat, e <= BufSize, NEW n \in Nat
  PROVE  /\ Least(n, e) \in 0..e
         /\ RbGet(Cells(msg, a, e), n) = Cells(msg, a, Least(n, e))
         /\ RbDrop(Cells(msg, a, e), n) = Cells(msg, a + Least(n, e), e - Least(n, e))
<1> DEFINE q == Cells(msg, a, e)
           got == RbGet(q, n)
           left == RbDrop(q, n)
           x == Least(n, e)
<1>1. q \in Seq(CellSet) /\ Len(q) = e
  BY CellsType
<1>2. q \in Rings
  BY <1>1 DEF Rings
<1>3. x \in 0..e
  BY DEF Least
<1>4. /\ got \in Seq(CellSet) /\ Len(got) = x
      /\ left \in Seq(CellSet) /\ Len(left) = e - x
  BY <1>1, GetAndDrop
<1> HIDE DEF q, got, left, x
<1>5. got = Cells(msg, a, x)
  <2>1. ASSUME NEW i \in 1..x PROVE got[i] = [msg |-> msg, off |-> a + i]
    <3>1. i \in 1..Len(got) /\ i \in 1..e
      BY <1>3, <1>4
    <3>2. got[i] = q[i]
      BY <1>2, <3>1, GotCells DEF got
    <3> QED
      BY <3>1, <3>2, CellAt DEF q
  <2>2. x \in Nat
    BY <1>3
  <2> QED
    BY <1>4, <2>1, <2>2, SameCells
<1>6. left = Cells(msg, a + x, e - x)
  <2>1. a + x \in Nat /\ e - x \in Nat
    BY <1>3
  <2>2. ASSUME NEW i \in 1..e - x PROVE left[i] = [msg |-> msg, off |-> a + x + i]
    <3>1. i \in 1..Len(left) /\ i + x \in 1..e /\ a + (i + x) = a + x + i
      BY <1>3, <1>4
    <3>2. left[i] = q[i + Least(n, Len(q))]
      BY <1>2, <3>1, DroppedCells DEF left
    <3>3. left[i] = q[i + x]
      BY <1>1, <3>2 DEF x
    <3>4. q[i + x] = [msg |-> msg, off |-> a + (i + x)]
      BY <3>1, CellAt DEF q
    <3> QED
      BY <3>1, <3>3, <3>4
  <2> QED
    BY <1>4, <2>1, <2>2, SameCells
<1> QED
  BY <1>3, <1>5, <1>6 DEF q, got, left, x

LEMMA CellsJoined ==
  ASSUME NEW msg \in Messages, NEW a \in Nat, NEW x \in Nat, NEW y \in Nat
  PROVE  Cells(msg, a, x) \o Cells(msg, a + x, y) = Cells(msg, a, x + y)
<1> DEFINE q == Cells(msg, a, x)
           s == Cells(msg, a + x, y)
           r == q \o s
<1>1. /\ q \in Seq(CellSet) /\ Len(q) = x /\ a + x \in Nat /\ x + y \in Nat
      /\ s \in Seq(CellSet) /\ Len(s) = y
  BY CellsType
<1> HIDE DEF q, s
<1>2. /\ r \in Seq(CellSet) /\ Len(r) = x + y
      /\ \A i \in 1..x + y : r[i] = IF i <= x THEN q[i] ELSE s[i - x]
  BY <1>1, ConcatProperties
<1>3. ASSUME NEW i \in 1..x + y PROVE r[i] = [msg |-> msg, off |-> a + i]
  <2>1. CASE i <= x
    <3>1. i \in 1..x /\ r[i] = q[i]
      BY <1>2, <1>3, <2>1
    <3> QED
      BY <3>1, CellAt DEF q
  <2>2. CASE ~(i <= x)
    <3>1. i - x \in 1..y /\ r[i] = s[i - x] /\ a + x + (i - x) = a + i
      BY <1>2, <1>3, <2>2
    <3>2. s[i - x] = [msg |-> msg, off |-> a + x + (i - x)]
      BY <1>1, <3>1, CellAt DEF s
    <3> QED
      BY <3>1, <3>2
  <2> QED
    BY <2>1, <2>2
<1> HIDE DEF r
<1>4. r = Cells(msg, a, x + y)
  BY <1>1, <1>2, <1>3, SameCells
<1> QED
  BY <1>4 DEF q, s, r

\* A whole header is decoded as the size of its message.
LEMMA CellsSize ==
  ASSUME NEW msg \in Messages, NEW e \in Nat, HdrSize <= e, e <= BufSize
  PROVE  SizesIn(Cells(msg, 0, e)) = {msg.size}
<1> DEFINE q == Cells(msg, 0, e)
<1>1. HdrSize \in Nat \ {0} /\ 0 \in Nat
  BY ChannelAssumption
<1>2. q \in Seq(CellSet) /\ Len(q) = e /\ 1 \in 1..e
  BY <1>1, CellsType
<1>3. q[1] = [msg |-> msg, off |-> 0 + 1]
  BY <1>1, <1>2, CellAt
<1>4. Head(q).msg = msg
  <2>1. Head(q) = q[1]
    BY <1>2, EmptySeq, HeadTailProperties
  <2> QED
    BY <1>3, <2>1
<1>5. SubSeq(q, 1, HdrSize) = Header(msg)
  <2>1. Least(HdrSize, Len(q)) = HdrSize /\ Least(HdrSize, e) = HdrSize
    BY <1>1, <1>2 DEF Least
  <2>2. RbGet(q, HdrSize) = Cells(msg, 0, HdrSize)
    BY <1>1, <2>1, CellsTaken
  <2> HIDE DEF q
  <2> QED
    BY <2>1, <2>2 DEF RbGet, Header
<1> HIDE DEF q
<1>6. SizesIn(q) = {msg.size}
  BY <1>4, <1>5 DEF SizesIn
<1> QED
  BY <1>6 DEF q

--------------------------------------------------------------------------------
(* What the data loops do *)

\* One file and t's own frame change.
Moves(t, c, k, q, frame) ==
  /\ files'[c][k] = q
  /\ \A d \in Chans, l \in BOOLEAN : d # c \/ l # k => files'[d][l] = files[d][l]
  /\ th'[t] = frame /\ ret' = ret /\ Alone(t)

LEMMA PutMoves ==
  ASSUME TypeOK, NEW t \in Threads, NEW c \in Chans, NEW k \in BOOLEAN, NEW q, NEW frame,
         Put(c, k, q), Goto(t, frame)
  PROVE  Moves(t, c, k, q, frame)
<1>1. FilesOK /\ ThreadsOK
  BY DEF TypeOK
<1>2. th'[t] = frame /\ ret' = ret /\ Alone(t)
  BY <1>1, GotoChanges, OthersSame DEF Goto, Alone
<1> QED
  BY <1>1, <1>2, PutsOne DEF Moves

\* More of a message goes in behind what is there, or the ring buffer is full.
LEMMA PutsIn ==
  ASSUME TypeOK, ~Tsrb, NEW t \in Threads, NEW call \in Calls, NEW k \in BOOLEAN,
         ~Closed(call.c), NEW bytes \in Nat, bytes < call.n,
         NEW a \in Nat, a <= HdrSize + bytes, HdrSize + bytes - a <= BufSize,
         SendLoop(t, call, k, Cells(Message(t, call), a, HdrSize + bytes - a), bytes)
  PROVE  LET msg == Message(t, call)
             q == Cells(msg, a, HdrSize + bytes - a)
         IN  \/ \E b \in bytes + 1..call.n :
                  /\ Moves(t, call.c, k, Cells(msg, a, HdrSize + b - a), SendFrame("send_sent", call, k, b))
                  /\ Wake(call.c, "write")
             \/ /\ HdrSize + bytes - a = BufSize
                /\ Moves(t, call.c, k, q, SendFrame("send_loop", call, k, bytes))
                /\ Block(t, call.c, "read")
<1> DEFINE msg == Message(t, call)
           e == HdrSize + bytes - a
           q == Cells(msg, a, e)
           rest == Rest(msg, bytes)
           chunk == Least(RbFree(q), Len(rest))
<1>1. /\ HdrSize \in Nat /\ BufSize \in Nat /\ e \in Nat /\ call.n \in Nat /\ call.c \in Chans
      /\ HdrSize + bytes \in Nat /\ call.n - bytes \in Nat
  BY RiotAssumption, ChannelAssumption DEF Calls
<1>2. msg \in Messages /\ msg.size = call.n
  BY MessageType DEF TypeOK
<1>3. q \in Seq(CellSet) /\ Len(q) = e /\ Len(rest) = call.n - bytes
  <2>1. q \in Seq(CellSet) /\ Len(q) = e
    BY <1>1, <1>2, CellsType
  <2>2. rest = Cells(msg, HdrSize + bytes, call.n - bytes)
    BY <1>2 DEF Rest
  <2>3. Len(Cells(msg, HdrSize + bytes, call.n - bytes)) = call.n - bytes
    BY <1>1, <1>2, CellsType
  <2> QED
    BY <2>1, <2>2, <2>3
<1>4. RbFree(q) = BufSize - e /\ RbAvail(q) = BufSize - e
  BY <1>3 DEF RbAvail, RbFree
<1>5. CASE /\ RbAvail(q) # 0 /\ chunk # 0
           /\ Put(call.c, k, RbAdd(q, rest)) /\ Wake(call.c, "write")
           /\ Goto(t, SendFrame("send_sent", call, k, bytes + chunk))
  <2> DEFINE x == Least(call.n - bytes, BufSize - e)
  <2>1. x \in 1..call.n - bytes /\ chunk = x
    <3>1. chunk = Least(BufSize - e, call.n - bytes)
      BY <1>3, <1>4
    <3> HIDE DEF chunk
    <3>2. chunk # 0
      BY <1>5
    <3> QED
      BY <1>1, <3>1, <3>2 DEF Least
  <2>2. RbAdd(q, rest) = Cells(msg, a, e + x)
    <3>1. a + e = HdrSize + bytes
      BY <1>1
    <3>2. rest = Cells(msg, a + e, call.n - bytes)
      BY <1>2, <3>1 DEF Rest
    <3> HIDE DEF rest, e
    <3>3. RbAdd(Cells(msg, a, e), Cells(msg, a + e, call.n - bytes)) =
            Cells(msg, a, e + Least(call.n - bytes, RbFree(Cells(msg, a, e))))
      <4>1. e <= BufSize
        BY DEF e
      <4> QED
        BY <1>1, <1>2, <4>1, CellsAdded
    <3> QED
      BY <1>4, <3>2, <3>3
  <2> HIDE DEF x, rest, q, msg, chunk
  <2>3. PICK b : b = bytes + x
    OBVIOUS
  <2>4. b \in bytes + 1..call.n /\ e + x = HdrSize + b - a
    BY <1>1, <2>1, <2>3
  <2>5. Put(call.c, k, Cells(msg, a, HdrSize + b - a)) /\ Goto(t, SendFrame("send_sent", call, k, b))
    BY <1>5, <2>1, <2>2, <2>3, <2>4
  <2>6. Moves(t, call.c, k, Cells(msg, a, HdrSize + b - a), SendFrame("send_sent", call, k, b))
    BY <1>1, <2>5, PutMoves
  <2> QED
    BY <1>5, <2>4, <2>6 DEF msg
<1>6. CASE /\ RbAvail(q) = 0 \/ chunk = 0
           /\ Put(call.c, k, q) /\ Block(t, call.c, "read")
           /\ Goto(t, SendFrame("send_loop", call, k, bytes))
  <2>1. e = BufSize
    <3>1. chunk = Least(BufSize - e, call.n - bytes)
      BY <1>3, <1>4
    <3> HIDE DEF chunk
    <3> QED
      BY <1>1, <1>4, <1>6, <3>1 DEF Least
  <2>2. Moves(t, call.c, k, q, SendFrame("send_loop", call, k, bytes))
    BY <1>1, <1>6, PutMoves
  <2> QED
    BY <1>6, <2>1, <2>2
<1> QED
  BY <1>5, <1>6 DEF SendLoop, SendStops

\* Into an empty file goes the header with the first bytes.
LEMMA HeaderIn ==
  ASSUME TypeOK, ~Tsrb, HdrSize < BufSize, NEW t \in Threads, NEW call \in Calls,
         NEW k \in BOOLEAN, ~Closed(call.c), call.n # 0, files[call.c][k] = <<>>,
         SendHeader(t, call, k)
  PROVE  LET msg == Message(t, call)
         IN  /\ sent' = Noted(sent, call.c, k, msg)
             /\ \E b \in 1..call.n :
                  /\ Moves(t, call.c, k, Cells(msg, 0, HdrSize + b), SendFrame("send_sent", call, k, b))
                  /\ Wake(call.c, "write")
<1> DEFINE msg == Message(t, call)
           torn == RbAdd(files[call.c][k], Header(msg))
<1>1. /\ HdrSize \in Nat \ {0} /\ BufSize \in Nat /\ call.n \in Nat /\ call.c \in Chans
      /\ msg \in Messages
  BY RiotAssumption, ChannelAssumption, MessageType DEF Calls, TypeOK
<1>2. RbFree(files[call.c][k]) = BufSize
  BY <1>1 DEF RbFree
<1>3. torn = Cells(msg, 0, HdrSize)
  <2>1. Cells(msg, 0, 0) = <<>>
    BY <1>1, NoCells
  <2>2. RbAdd(Cells(msg, 0, 0), Cells(msg, 0 + 0, HdrSize)) =
          Cells(msg, 0, 0 + Least(HdrSize, RbFree(Cells(msg, 0, 0))))
    BY <1>1, CellsAdded
  <2>3. 0 + Least(HdrSize, BufSize) = HdrSize
    BY <1>1 DEF Least
  <2>4. RbAdd(<<>>, Cells(msg, 0, HdrSize)) = Cells(msg, 0, HdrSize)
    <3>1. 0 + 0 = 0
      OBVIOUS
    <3> QED
      BY <1>2, <2>1, <2>2, <2>3, <3>1
  <2> QED
    BY <2>4 DEF Header
<1>4. sent' = Noted(sent, call.c, k, msg) /\ SendLoop(t, call, k, torn, 0)
  BY <1>1, <1>2 DEF SendHeader
<1> HIDE DEF torn
<1>5. SendLoop(t, call, k, Cells(msg, 0, HdrSize + 0 - 0), 0)
  <2>1. HdrSize + 0 - 0 = HdrSize
    BY <1>1
  <2> QED
    BY <1>3, <1>4, <2>1
<1>6. 0 < call.n /\ 0 <= HdrSize + 0 /\ HdrSize + 0 - 0 <= BufSize /\ HdrSize + 0 - 0 # BufSize
  BY <1>1
<1>7. \E b \in 0 + 1..call.n :
         /\ Moves(t, call.c, k, Cells(msg, 0, HdrSize + b - 0), SendFrame("send_sent", call, k, b))
         /\ Wake(call.c, "write")
  BY <1>1, <1>5, <1>6, PutsIn
<1>8. PICK b \in 0 + 1..call.n :
         /\ Moves(t, call.c, k, Cells(msg, 0, HdrSize + b - 0), SendFrame("send_sent", call, k, b))
         /\ Wake(call.c, "write")
  BY <1>7
<1>9. b \in 1..call.n /\ HdrSize + b - 0 = HdrSize + b
  BY <1>1
<1> QED
  BY <1>4, <1>8, <1>9

\* Whatever is there of a message comes out.
LEMMA TakesOut ==
  ASSUME TypeOK, NEW t \in Threads, NEW call \in Calls, NEW k \in BOOLEAN, ~Closed(call.c),
         NEW msg \in Messages, NEW l \in Nat, NEW b \in Nat, l < b, b <= msg.size, b - l <= BufSize,
         NEW out, out = Cells(msg, HdrSize, l), NEW q, q = Cells(msg, HdrSize + l, b - l),
         NEW drops \in BOOLEAN,
         IF drops THEN DropLoop(t, call, k, msg.size, q, out)
                  ELSE RecvLoop(t, call, k, msg.size, q, out)
  PROVE  /\ Moves(t, call.c, k, <<>>, RecvFrame(IF drops THEN "drop_dropped" ELSE "recv_got",
                                                call, k, msg.size, Cells(msg, HdrSize, b)))
         /\ Wake(call.c, "read")
<1> DEFINE size == msg.size
           chunk == RbGet(q, size - Len(out))
           pc == IF drops THEN "drop_dropped" ELSE "recv_got"
<1>1. /\ HdrSize \in Nat /\ size \in Nat /\ call.c \in Chans /\ b - l \in Nat /\ b - l # 0
      /\ HdrSize + l \in Nat /\ size - l \in Nat /\ BufSize \in Nat
  BY RiotAssumption, ChannelAssumption DEF Calls, Messages
<1>2. out \in Seq(CellSet) /\ Len(out) = l
  BY <1>1, CellsType
<1>3. Least(size - l, b - l) = b - l
  BY <1>1 DEF Least
<1>4. chunk = q
  <2>1. \A n \in Nat : RbGet(Cells(msg, HdrSize + l, b - l), n) = Cells(msg, HdrSize + l, Least(n, b - l))
    BY <1>1, CellsTaken
  <2> QED
    BY <1>1, <1>2, <1>3, <2>1
<1>5. q \in Seq(CellSet) /\ Len(q) = b - l
  BY <1>1, CellsType
<1>6. RbDrop(q, Len(chunk)) = <<>>
  <2>1. RbDrop(q, b - l) = Cells(msg, HdrSize + l + Least(b - l, b - l), b - l - Least(b - l, b - l))
    BY <1>1, CellsTaken
  <2>2. Least(b - l, b - l) = b - l /\ b - l - (b - l) = 0 /\ HdrSize + l + (b - l) \in Nat
    BY <1>1 DEF Least
  <2> QED
    BY <1>4, <1>5, <2>1, <2>2, NoCells
<1>7. out \o chunk = Cells(msg, HdrSize, b)
  <2>1. \A y \in Nat : Cells(msg, HdrSize, l) \o Cells(msg, HdrSize + l, y) = Cells(msg, HdrSize, l + y)
    BY <1>1, CellsJoined
  <2>2. l + (b - l) = b
    BY <1>1
  <2> QED
    BY <1>1, <1>4, <2>1, <2>2
<1>8. chunk # <<>> /\ Len(out \o chunk) # 0
  <2>1. Len(Cells(msg, HdrSize, b)) = b /\ b # 0
    BY <1>1, CellsType
  <2> QED
    BY <1>1, <1>4, <1>5, <1>7, <2>1, EmptySeq
<1>9. ~GivesUp(t, call.c, k, q, size)
  BY DEF GivesUp
<1> HIDE DEF chunk, size
<1>10. /\ Put(call.c, k, RbDrop(q, Len(chunk))) /\ Wake(call.c, "read")
       /\ Goto(t, RecvFrame(pc, call, k, size, out \o chunk))
  <2>1. CASE drops
    BY <1>8, <1>9, <2>1 DEF DropLoop, chunk, size
  <2>2. CASE ~drops
    BY <1>8, <1>9, <2>2 DEF RecvLoop, chunk, size
  <2> QED
    BY <2>1, <2>2
<1> QED
  BY <1>1, <1>6, <1>7, <1>10, PutMoves DEF size

\* With the header in the file, the header and the first bytes come out.
LEMMA HeaderOut ==
  ASSUME TypeOK, NEW t \in Threads, NEW call \in Calls, NEW k \in BOOLEAN, ~Closed(call.c),
         NEW msg \in Messages, NEW b \in Nat, 0 < b, b <= msg.size, HdrSize + b <= BufSize,
         files[call.c][k] = Cells(msg, 0, HdrSize + b), NEW drops \in BOOLEAN,
         IF drops THEN DropHeader(t, call, k) ELSE RecvHeader(t, call, k)
  PROVE  /\ Moves(t, call.c, k, <<>>, RecvFrame(IF drops THEN "drop_dropped" ELSE "recv_got",
                                                call, k, msg.size, Cells(msg, HdrSize, b)))
         /\ Wake(call.c, "read")
<1> DEFINE q == files[call.c][k]
           e == HdrSize + b
<1>1. /\ HdrSize \in Nat /\ e \in Nat /\ 0 \in Nat /\ HdrSize <= e /\ BufSize \in Nat
      /\ Least(HdrSize, e) = HdrSize /\ e - HdrSize = b /\ 0 + HdrSize = HdrSize
  BY RiotAssumption, ChannelAssumption DEF Least
<1>2. Len(q) = e /\ Len(q) >= HdrSize
  BY <1>1, CellsType
<1>3. SizesIn(q) = {msg.size}
  BY <1>1, CellsSize
<1>4. RbDrop(q, HdrSize) = Cells(msg, HdrSize, b)
  <2>1. RbDrop(Cells(msg, 0, e), HdrSize) = Cells(msg, 0 + Least(HdrSize, e), e - Least(HdrSize, e))
    BY <1>1, CellsTaken
  <2> QED
    BY <1>1, <2>1
<1>5. ~(Len(q) < HdrSize)
  BY <1>1, <1>2
<1> HIDE DEF q
<1>6. IF drops THEN DropLoop(t, call, k, msg.size, Cells(msg, HdrSize, b), <<>>)
               ELSE RecvLoop(t, call, k, msg.size, Cells(msg, HdrSize, b), <<>>)
  <2>1. CASE drops
    BY <1>3, <1>4, <1>5, <2>1 DEF DropHeader, q
  <2>2. CASE ~drops
    BY <1>3, <1>4, <1>5, <2>2 DEF RecvHeader, q
  <2> QED
    BY <2>1, <2>2
<1>7. <<>> = Cells(msg, HdrSize, 0) /\ Cells(msg, HdrSize, b) = Cells(msg, HdrSize + 0, b - 0)
  <2>1. HdrSize + 0 = HdrSize /\ b - 0 = b
    BY <1>1
  <2> QED
    BY <1>1, <2>1, NoCells
<1>8. b - 0 <= BufSize
  BY <1>1
<1> QED
  BY <1>6, <1>7, <1>8, TakesOut

\* Without a header there the reader sleeps.
LEMMA HeaderAwaited ==
  ASSUME TypeOK, NEW t \in Threads, NEW call \in Calls, NEW k \in BOOLEAN, NEW drops \in BOOLEAN,
         files[call.c][k] = <<>>, IF drops THEN DropHeader(t, call, k) ELSE RecvHeader(t, call, k)
  PROVE  /\ Goto(t, Frame(IF drops THEN "drop_hdr" ELSE "recv_hdr", call, k))
         /\ Block(t, call.c, "write") /\ files' = files
<1>1. Len(files[call.c][k]) < HdrSize /\ ~(Len(files[call.c][k]) >= HdrSize)
  BY ChannelAssumption
<1> QED
  BY <1>1 DEF DropHeader, RecvHeader

--------------------------------------------------------------------------------
(* Who acts, and how *)

LEMMA OnScene ==
  ASSUME NEW p, NEW m, NEW turns, Scene(p, m, turns)
  PROVE  /\ TypeOK /\ SchedOK /\ ChanOK /\ FilesOK /\ ThreadsOK /\ HistoryOK
         /\ p \in Threads /\ m \in Threads /\ p # m /\ \A t \in Threads : t = p \/ t = m
         /\ HdrSize \in Nat \ {0} /\ BufSize \in Nat /\ HdrSize < BufSize /\ ~Tsrb
         /\ \A c \in Chans : /\ ~Closed(c) /\ ~Buffered(c)
                             /\ OutFile(p, c) \in BOOLEAN /\ OutFile(m, c) \in BOOLEAN
                             /\ InFile(p, c) = OutFile(m, c) /\ InFile(m, c) = OutFile(p, c)
<1>1. /\ TypeOK /\ SchedOK /\ ChanOK /\ FilesOK /\ ThreadsOK /\ HistoryOK
      /\ Meeting(p, m, turns) /\ Grounded(p, m)
  BY DEF Scene, TypeOK, MeetInv
<1>2. /\ p \in Threads /\ m \in Threads /\ p # m /\ \A t \in Threads : t = p \/ t = m
      /\ HdrSize \in Nat \ {0} /\ BufSize \in Nat /\ HdrSize < BufSize /\ ~Tsrb
  BY <1>1, MeetingPlain
<1>3. ASSUME NEW c \in Chans
      PROVE  /\ ~Closed(c) /\ ~Buffered(c)
             /\ OutFile(p, c) \in BOOLEAN /\ OutFile(m, c) \in BOOLEAN
             /\ InFile(p, c) = OutFile(m, c) /\ InFile(m, c) = OutFile(p, c)
  <2>1. ~Closed(c) /\ ~Buffered(c)
    BY <1>1 DEF Grounded, Closed, Buffered
  <2>2. chan[c].creator = p \/ chan[c].creator = m
    BY <1>1, <1>2 DEF ChanOK
  <2> QED
    BY <1>2, <2>1, <2>2 DEF OutFile, InFile
<1> QED
  BY <1>1, <1>2, <1>3

\* While p can run m does not, and while both can nobody is registered anywhere.
LEMMA Urgent ==
  ASSUME NEW p, NEW m, NEW turns, Scene(p, m, turns), status[p] = "ready"
  PROVE  /\ ~Runs(m)
         /\ status[m] = "ready" => \A c \in Chans, slot \in Slots : blocked[c][slot] = NoThread
<1>1. /\ SchedOK /\ p \in Threads /\ m \in Threads /\ \A t \in Threads : t = p \/ t = m
      /\ WaiterAsleep /\ Prio[p] < Prio[m] /\ Prio[p] \in Nat /\ Prio[m] \in Nat
  BY OnScene, RiotAssumption DEF Scene, Meeting
<1>2. ~Runs(m)
  BY <1>1 DEF Runs
<1>3. ASSUME status[m] = "ready", NEW c \in Chans, NEW slot \in Slots
      PROVE  blocked[c][slot] = NoThread
  BY <1>1, <1>3, RunsAlone DEF SchedOK
<1> QED
  BY <1>2, <1>3

LEMMA Acts ==
  ASSUME NEW p, NEW m, NEW turns, Scene(p, m, turns), NEW t \in Threads, Step(t)
  PROVE  LET pc == th[t].pc
         IN  /\ pc # "asleep" => Runs(t)
             /\ pc = "idle" => Enter(t) \/ Sleep(t) \/ Exit(t) \/ FlagsLoad(t) \/ Make(t)
             /\ pc = "asleep" => Timer(t)
             /\ pc = "flags" => FlagsStore(t)
             /\ pc = "send" => SendSync(t)
             /\ pc = "send_body" => SendSynced(t)
             /\ pc = "send_loop" => SendResume(t)
             /\ pc = "send_sent" => SendSent(t)
             /\ pc = "recv" => RecvSync(t)
             /\ pc = "recv_body" => RecvSynced(t)
             /\ pc = "recv_hdr" => RecvHeaderAgain(t)
             /\ pc = "recv_loop" => RecvResume(t)
             /\ pc = "recv_got" => RecvGot(t)
             /\ pc = "drop" => DropSync(t)
             /\ pc = "drop_body" => DropSynced(t)
             /\ pc = "drop_hdr" => DropHeaderAgain(t)
             /\ pc = "drop_loop" => DropResume(t)
             /\ pc = "drop_dropped" => DropDropped(t)
<1>1. \A call \in NextCalls(t) :
        call.op \in {"sleep", "set_buffered", "make", "send", "recv", "drop"}
  BY CallKinds
<1>2. /\ ~SendMsgCall(t) /\ ~RecvMsgCall(t)
      /\ ~SetOwner(t) /\ ~Go(t) /\ ~Kill(t) /\ ~Spin(t)
  BY <1>1 DEF SendMsgCall, RecvMsgCall, SetOwner, Go, Kill, Spin, Invokes
<1>3. CASE Enter(t) \/ FlagsLoad(t) \/ Make(t) \/ Sleep(t) \/ Exit(t)
  <2>1. th[t].pc = "idle" /\ Runs(t)
    BY <1>3 DEF Enter, FlagsLoad, Make, Sleep, Exit, Invokes
  <2> QED
    BY <1>3, <2>1
<1>4. CASE FlagsStore(t)
  BY <1>4 DEF FlagsStore, At
<1>5. CASE Timer(t)
  BY <1>5 DEF Timer
<1>6. CASE Tries(t)
  <2>1. th[t].pc \in {"try_send", "try_recv"} /\ Runs(t)
    BY <1>6 DEF Tries, TrySend, TryRecv, At
  <2> QED
    BY <2>1
<1>7. CASE Sends(t)
  <2>1. CASE SendSync(t)
    BY <2>1 DEF SendSync, At
  <2>2. CASE SendSynced(t)
    BY <2>2 DEF SendSynced, At
  <2>3. CASE SendHeaderAgain(t)
    BY <2>3 DEF SendHeaderAgain, At
  <2>4. CASE SendResume(t)
    BY <2>4 DEF SendResume, At
  <2>5. CASE SendSent(t)
    BY <2>5 DEF SendSent, At
  <2> QED
    BY <1>2, <1>7, <2>1, <2>2, <2>3, <2>4, <2>5 DEF Sends
<1>8. CASE Recvs(t)
  <2>1. CASE RecvSync(t)
    BY <2>1 DEF RecvSync, At
  <2>2. CASE RecvSynced(t)
    BY <2>2 DEF RecvSynced, At
  <2>3. CASE RecvHeaderAgain(t)
    BY <2>3 DEF RecvHeaderAgain, At
  <2>4. CASE RecvResume(t)
    BY <2>4 DEF RecvResume, At
  <2>5. CASE RecvGot(t)
    BY <2>5 DEF RecvGot, At
  <2> QED
    BY <1>2, <1>8, <2>1, <2>2, <2>3, <2>4, <2>5 DEF Recvs
<1>9. CASE Drops(t)
  <2>1. CASE DropSync(t)
    BY <2>1 DEF DropSync, At
  <2>2. CASE DropSynced(t)
    BY <2>2 DEF DropSynced, At
  <2>3. CASE DropHeaderAgain(t)
    BY <2>3 DEF DropHeaderAgain, At
  <2>4. CASE DropResume(t)
    BY <2>4 DEF DropResume, At
  <2>5. CASE DropDropped(t)
    BY <2>5 DEF DropDropped, At
  <2> QED
    BY <1>9, <2>1, <2>2, <2>3, <2>4, <2>5 DEF Drops
<1> QED
  BY <1>2, <1>3, <1>4, <1>5, <1>6, <1>7, <1>8, <1>9 DEF Step, Manages, Lives

\* A call returns: it is one more in the history, and one more done if it may block.
LEMMA Returning ==
  ASSUME TypeOK, NEW t \in Threads, NEW call \in Calls, call.again = 0, NEW n \in Nat,
         NEW heard \in Int, ReturnHeard(t, call, n, heard)
  PROVE  /\ th'[t] = Idle /\ Alone(t)
         /\ Done(t) \in Nat /\ Done(t)' = Done(t) + (IF call.op \in Blocking THEN 1 ELSE 0)
         /\ \A u \in Threads \ {t} : Done(u)' = Done(u)
         /\ call.op # "make" => /\ \A c, v : Owns(v, c, ret'[t]) <=> Owns(v, c, ret[t])
                               /\ ~OnlyMakes(ret'[t])
<1> DEFINE r == [call |-> call, n |-> n, heard |-> heard]
<1>1. ThreadsOK /\ ret[t] \in Seq(Results) /\ r \in Results /\ r.call = call
  BY DEF TypeOK, ThreadsOK, Results
<1>2. th'[t] = Idle /\ Alone(t)
  BY <1>1, GotoChanges, OthersSame DEF Alone
<1>3. ret'[t] = Append(ret[t], r)
  <2>1. ret' = [ret EXCEPT ![t] = Returned(ret[t], call, n, heard)]
    BY DEF ReturnHeard
  <2>2. Returned(ret[t], call, n, heard) = Append(ret[t], r)
    BY DEF Returned
  <2> QED
    BY <1>1, <2>1, <2>2 DEF ThreadsOK
<1> HIDE DEF r
<1>4. \A u \in Threads : Done(u) = Made(ret[u]) /\ Done(u)' = Made(ret'[u])
  BY DEF Done, Made
<1>5. \A u \in Threads \ {t} : ret'[u] = ret[u]
  BY <1>2 DEF Alone, Same
<1>6. /\ Made(ret[t]) \in Nat
      /\ Made(ret'[t]) = Made(ret[t]) + (IF call.op \in Blocking THEN 1 ELSE 0)
      /\ OnlyMakes(ret'[t]) <=> OnlyMakes(ret[t]) /\ call.op = "make"
      /\ \A v, c : Owns(v, c, ret'[t]) <=> Owns(v, c, ret[t]) \/ (call.op = "make" /\ call.c = c)
  BY <1>1, <1>3, MadeOne
<1>7. \A u \in Threads \ {t} : Done(u)' = Done(u)
  BY <1>4, <1>5
<1>8. Done(t) \in Nat /\ Done(t)' = Done(t) + (IF call.op \in Blocking THEN 1 ELSE 0)
  BY <1>4, <1>6
<1> QED
  BY <1>2, <1>6, <1>7, <1>8

\* Who waits in t's place, under its own name.
Registers(t) ==
  \E c \in Chans, slot \in Slots :
    /\ Block(t, c, slot) /\ blocked[c][slot] = NoThread
    /\ th'[t].pc # "idle" /\ th'[t].call.c = c /\ WaitSlot(t)' = slot

\* A step of a call on a channel keeps the ground.
LEMMA GroundKept ==
  ASSUME NEW p, NEW m, NEW turns, Scene(p, m, turns), NEW t \in Threads, Runs(t),
         Alone(t), chan' = chan,
         \/ ret'[t] = ret[t] /\ th'[t].pc \notin {"idle", "asleep", "flags"} /\ th'[t].call \in NextCalls(t)
         \/ /\ th'[t] = Idle /\ ~OnlyMakes(ret'[t])
            /\ \A c, v : Owns(v, c, ret'[t]) <=> Owns(v, c, ret[t]),
         Undisturbed \/ Registers(t) \/ \E c \in Chans, slot \in Slots : Wake(c, slot)
  PROVE  Grounded(p, m)'
<1>0. /\ TypeOK /\ p \in Threads /\ m \in Threads /\ p # m /\ \A u \in Threads : u = p \/ u = m
      /\ status \in [Threads -> Statuses] /\ NoThread \notin Threads
      /\ blocked \in [Chans -> [Slots -> Threads \cup {NoThread}]]
      /\ status[t] = "ready" /\ Grounded(p, m)
  BY OnScene, RiotAssumption DEF SchedOK, Runs, Scene, MeetInv
<1>1. \A u \in Threads \ {t} : th'[u] = th[u] /\ ret'[u] = ret[u]
  BY DEF Alone, Same
<1>2. /\ status'[t] = "ready" \/ (status'[t] = "sleeping" /\ Registers(t))
      /\ \A u \in Threads \ {t} :
           /\ Gone(u)' <=> Gone(u)
           /\ status'[u] = "sleeping" =>
                /\ status[u] = "sleeping"
                /\ \A d \in Chans, s \in Slots : blocked[d][s] = u => blocked'[d][s] = u
  <2>1. CASE Undisturbed
    BY <1>0, <2>1 DEF Undisturbed, Gone
  <2>2. CASE Registers(t)
    <3>1. PICK c \in Chans, slot \in Slots : Block(t, c, slot) /\ blocked[c][slot] = NoThread
      BY <2>2 DEF Registers
    <3>2. /\ \A u \in Threads : status'[u] = IF u = t THEN "sleeping" ELSE status[u]
          /\ \A d \in Chans, s \in Slots :
               blocked'[d][s] = IF d = c /\ s = slot THEN t ELSE blocked[d][s]
      BY <1>0, <3>1 DEF Block
    <3> QED
      BY <1>0, <2>2, <3>1, <3>2 DEF Gone
  <2>3. ASSUME NEW c \in Chans, NEW slot \in Slots, Wake(c, slot)
        PROVE  /\ status'[t] = "ready"
               /\ \A u \in Threads \ {t} :
                    /\ Gone(u)' <=> Gone(u)
                    /\ status'[u] = "sleeping" =>
                         /\ status[u] = "sleeping"
                         /\ \A d \in Chans, s \in Slots : blocked[d][s] = u => blocked'[d][s] = u
    <3> DEFINE other == blocked[c][slot]
    <3>1. /\ \A v \in Threads : /\ v # other => status'[v] = status[v]
                                /\ status'[v] = status[v] \/ status'[v] = "ready"
          /\ other \in Threads /\ ~Gone(other) => status'[other] = "ready"
          /\ \A d \in Chans, s \in Slots : d # c \/ s # slot => blocked'[d][s] = blocked[d][s]
          /\ other \notin Threads \/ Gone(other) => blocked' = blocked /\ status' = status
      <4>1. other \notin Threads \/ Gone(other) => blocked' = blocked /\ status' = status
        BY <1>0, <2>3 DEF Wake, Undisturbed
      <4> QED
        BY <1>0, <2>3, <4>1, WakesOne
    <3> HIDE DEF other
    <3>2. ASSUME NEW u \in Threads \ {t} PROVE Gone(u)' <=> Gone(u)
      BY <1>0, <3>1, <3>2 DEF Gone
    <3>3. ASSUME NEW u \in Threads \ {t}, status'[u] = "sleeping",
                 NEW d \in Chans, NEW s \in Slots, blocked[d][s] = u
          PROVE  blocked'[d][s] = u
      <4>1. status[u] = "sleeping" /\ ~Gone(u)
        BY <3>1, <3>3 DEF Gone
      <4>2. CASE d = c /\ s = slot
        BY <3>1, <3>3, <4>1, <4>2 DEF other
      <4>3. CASE d # c \/ s # slot
        BY <3>1, <3>3, <4>3
      <4> QED
        BY <4>2, <4>3
    <3> QED
      BY <1>0, <3>1, <3>2, <3>3
  <2> QED
    BY <2>1, <2>2, <2>3
<1>3. ASSUME NEW c \in Chans
      PROVE  chan'[c].flags = {} /\ (Owns(p, c, ret'[p]) => chan'[c].creator = p)
  <2>1. Owns(p, c, ret'[p]) => Owns(p, c, ret[p])
    BY <1>0, <1>1
  <2> QED
    BY <1>0, <2>1 DEF Grounded
<1>4. ~Fresh(p)'
  <2>1. CASE t = p
    BY <2>1, FrameParts DEF Fresh
  <2>2. CASE t = m
    <3>1. status[p] # "ready"
      BY <2>2, Urgent
    <3>2. ~Fresh(p)
      BY <1>0, <3>1 DEF Grounded
    <3> QED
      BY <1>0, <1>1, <1>2, <2>2, <3>2 DEF Fresh
  <2> QED
    BY <1>0, <2>1, <2>2
<1>5. ASSUME NEW u \in Threads PROVE Placed(u)'
  <2>1. CASE u # t
    <3>1. /\ th'[u] = th[u] /\ ret'[u] = ret[u] /\ (Gone(u)' <=> Gone(u))
          /\ status'[u] = "sleeping" =>
                /\ status[u] = "sleeping"
                /\ \A d \in Chans, s \in Slots : blocked[d][s] = u => blocked'[d][s] = u
          /\ Placed(u)
      BY <1>0, <1>1, <1>2, <2>1 DEF Grounded
    <3>2. th[u].pc # "idle" => th[u].call.c \in Chans /\ WaitSlot(u) \in Slots
      BY CallKinds, <3>1 DEF Placed, WaitSlot, Slots
    <3>3. NextCalls(u)' = NextCalls(u) /\ WaitSlot(u)' = WaitSlot(u)
      BY <3>1 DEF NextCalls, WaitSlot
    <3> QED
      BY <3>1, <3>2, <3>3 DEF Placed
  <2>2. CASE u = t /\ th'[t] = Idle
    <3>1. th'[t].pc = "idle"
      BY <2>2, FrameParts
    <3>2. status'[t] = "ready"
      BY <1>2, <3>1 DEF Registers
    <3> QED
      BY <2>2, <3>1, <3>2 DEF Placed, Gone
  <2>3. CASE u = t /\ th'[t] # Idle
    <3>1. ret'[t] = ret[t] /\ th'[t].pc \notin {"idle", "asleep", "flags"} /\ th'[t].call \in NextCalls(t)
      BY <2>3
    <3>2. NextCalls(t)' = NextCalls(t)
      BY <3>1 DEF NextCalls
    <3>3. status'[t] = "sleeping" => blocked'[th'[t].call.c][WaitSlot(t)'] = t
      <4>1. SUFFICES ASSUME Registers(t) PROVE blocked'[th'[t].call.c][WaitSlot(t)'] = t
        BY <1>2
      <4>2. PICK c \in Chans, slot \in Slots :
              Block(t, c, slot) /\ th'[t].call.c = c /\ WaitSlot(t)' = slot
        BY <4>1 DEF Registers
      <4>3. blocked'[c][slot] = t
        BY <1>0, <4>2 DEF Block
      <4> QED
        BY <4>2, <4>3
    <3>4. ~Gone(t)'
      BY <1>2 DEF Gone
    <3> QED
      BY <2>3, <3>1, <3>2, <3>3, <3>4 DEF Placed
  <2> QED
    BY <2>1, <2>2, <2>3
<1> QED
  BY <1>3, <1>4, <1>5 DEF Grounded

\* A message more, and a message taken.
LEMMA OneSent ==
  ASSUME HistoryOK, Integrity, NEW c \in Chans, NEW k \in BOOLEAN, NEW msg \in Messages,
         sent' = Noted(sent, c, k, msg), rcvd' = rcvd
  PROVE  /\ Integrity'
         /\ Len(sent'[c][k]) = Len(sent[c][k]) + 1 /\ sent'[c][k][Len(sent'[c][k])] = msg
         /\ \A d \in Chans, l \in BOOLEAN : d # c \/ l # k => sent'[d][l] = sent[d][l]
<1>1. \A d \in Chans, l \in BOOLEAN :
        /\ sent[d][l] \in Seq(Messages) /\ rcvd[d][l] \in Seq(Seq(CellSet))
        /\ sent'[d][l] = IF d = c /\ l = k THEN Append(sent[d][l], msg) ELSE sent[d][l]
  BY DEF HistoryOK, Noted
<1>2. PICK s \in Seq(Messages) : s = sent[c][k] /\ sent'[c][k] = Append(s, msg)
  BY <1>1
<1>3. /\ Len(s) \in Nat /\ Len(Append(s, msg)) = Len(s) + 1
      /\ Append(s, msg)[Len(s) + 1] = msg
      /\ \A i \in 1..Len(s) : Append(s, msg)[i] = s[i]
  BY AppendProperties, LenProperties
<1>4. Integrity'
  <2>1. ASSUME NEW d \in Chans, NEW l \in BOOLEAN
        PROVE  /\ Len(rcvd[d][l]) <= Len(sent'[d][l])
               /\ \A i \in 1..Len(rcvd[d][l]) : rcvd[d][l][i] = Payload(sent'[d][l][i])
    <3>1. /\ Len(rcvd[d][l]) <= Len(sent[d][l]) /\ Len(rcvd[d][l]) \in Nat
          /\ \A i \in 1..Len(rcvd[d][l]) : rcvd[d][l][i] = Payload(sent[d][l][i])
      BY <1>1, LenProperties DEF Integrity
    <3>2. CASE d = c /\ l = k
      <4>1. PICK r : r = rcvd[c][k] /\ Len(r) <= Len(s) /\ Len(r) \in Nat
                     /\ \A i \in 1..Len(r) : r[i] = Payload(s[i])
        BY <1>2, <3>1, <3>2
      <4>2. Len(r) <= Len(Append(s, msg))
        BY <1>3, <4>1
      <4>3. \A i \in 1..Len(r) : i \in 1..Len(s)
        BY <1>3, <4>1
      <4>4. \A i \in 1..Len(r) : r[i] = Payload(Append(s, msg)[i])
        BY <1>3, <4>1, <4>3
      <4> QED
        BY <1>2, <3>2, <4>1, <4>2, <4>4
    <3>3. CASE ~(d = c /\ l = k)
      BY <1>1, <3>1, <3>3
    <3> QED
      BY <3>2, <3>3
  <2> QED
    BY <2>1 DEF Integrity
<1>5. sent'[c][k][Len(sent'[c][k])] = msg
  BY <1>2, <1>3
<1> QED
  BY <1>1, <1>2, <1>3, <1>4, <1>5

LEMMA OneRcvd ==
  ASSUME HistoryOK, Integrity, NEW c \in Chans, NEW k \in BOOLEAN, NEW msg \in Messages,
         Len(sent[c][k]) = Len(rcvd[c][k]) + 1, sent[c][k][Len(sent[c][k])] = msg,
         rcvd' = Noted(rcvd, c, k, Payload(msg)), sent' = sent
  PROVE  /\ Integrity'
         /\ Len(rcvd'[c][k]) = Len(sent[c][k])
         /\ \A d \in Chans, l \in BOOLEAN : d # c \/ l # k => rcvd'[d][l] = rcvd[d][l]
<1> DEFINE x == Payload(msg)
<1>1. x \in Seq(CellSet)
  BY CellsType, ChannelAssumption DEF Payload, Messages
<1> HIDE DEF x
<1>2. \A d \in Chans, l \in BOOLEAN :
        /\ rcvd[d][l] \in Seq(Seq(CellSet))
        /\ rcvd'[d][l] = IF d = c /\ l = k THEN Append(rcvd[d][l], x) ELSE rcvd[d][l]
  BY DEF HistoryOK, Noted, x
<1>3. /\ Len(rcvd[c][k]) \in Nat
      /\ Len(Append(rcvd[c][k], x)) = Len(rcvd[c][k]) + 1
      /\ Append(rcvd[c][k], x)[Len(rcvd[c][k]) + 1] = x
      /\ \A i \in 1..Len(rcvd[c][k]) : Append(rcvd[c][k], x)[i] = rcvd[c][k][i]
  BY <1>1, <1>2, AppendProperties, LenProperties
<1>4. Integrity'
  <2>1. ASSUME NEW d \in Chans, NEW l \in BOOLEAN
        PROVE  /\ Len(rcvd'[d][l]) <= Len(sent[d][l])
               /\ \A i \in 1..Len(rcvd'[d][l]) : rcvd'[d][l][i] = Payload(sent[d][l][i])
    <3>1. /\ Len(rcvd[d][l]) <= Len(sent[d][l])
          /\ \A i \in 1..Len(rcvd[d][l]) : rcvd[d][l][i] = Payload(sent[d][l][i])
      BY DEF Integrity
    <3>2. CASE d = c /\ l = k
      <4>1. rcvd'[c][k] = Append(rcvd[c][k], x)
        BY <1>2
      <4>2. Len(rcvd'[c][k]) = Len(sent[c][k])
        BY <1>3, <4>1
      <4>3. rcvd'[c][k][Len(sent[c][k])] = Payload(sent[c][k][Len(sent[c][k])])
        BY <1>3, <4>1 DEF x
      <4>4. \A i \in 1..Len(sent[c][k]) : i = Len(sent[c][k]) \/ i \in 1..Len(rcvd[c][k])
        BY <1>3
      <4>5. \A i \in 1..Len(rcvd[c][k]) : rcvd'[c][k][i] = Payload(sent[c][k][i])
        BY <1>3, <3>1, <3>2, <4>1
      <4>6. \A i \in 1..Len(sent[c][k]) : rcvd'[c][k][i] = Payload(sent[c][k][i])
        BY <4>3, <4>4, <4>5
      <4>7. Len(rcvd'[c][k]) <= Len(sent[c][k])
        BY <1>3, <4>2
      <4> QED
        BY <3>2, <4>2, <4>6, <4>7
    <3>3. CASE ~(d = c /\ l = k)
      BY <1>2, <3>1, <3>3
    <3> QED
      BY <3>2, <3>3
  <2> QED
    BY <2>1 DEF Integrity
<1> QED
  BY <1>2, <1>3, <1>4

--------------------------------------------------------------------------------
(* Steps between meetings *)

\* What such a step leaves alone.
Keeps(t) ==
  /\ Alone(t) /\ \A u \in Threads \ {t} : status'[u] = status[u]
  /\ \A c \in Chans : chan'[c].flags = {}

LEMMA RestGround ==
  ASSUME NEW p, NEW m, NEW turns, Scene(p, m, turns), NEW t \in Threads,
         th[t].pc = "asleep" \/ Runs(t), Keeps(t), Placed(t)',
         blocked' = blocked \/ \A u \in Threads \ {t} : status[u] # "sleeping",
         \A c \in Chans : Owns(p, c, ret'[p]) => chan'[c].creator = p,
         t = p /\ Fresh(p)' => status'[p] = "ready" /\ th[m].pc = "idle"
  PROVE  Grounded(p, m)'
<1>0. /\ p \in Threads /\ m \in Threads /\ p # m /\ \A u \in Threads : u = p \/ u = m
      /\ Grounded(p, m)
  BY OnScene DEF Scene, MeetInv
<1>1. \A u \in Threads \ {t} : th'[u] = th[u] /\ ret'[u] = ret[u] /\ status'[u] = status[u]
  BY DEF Keeps, Alone, Same
<1>2. Fresh(p)' => status'[p] = "ready" /\ th'[m].pc = "idle"
  <2>1. CASE t = p
    BY <1>0, <1>1, <2>1
  <2>2. CASE t = m
    <3>1. ~Fresh(p)
      <4>1. CASE th[m].pc = "asleep"
        BY <1>0, <4>1 DEF Grounded
      <4>2. CASE Runs(m)
        BY <1>0, <4>2, Urgent DEF Grounded
      <4> QED
        BY <2>2, <4>1, <4>2
    <3> QED
      BY <1>0, <1>1, <2>2, <3>1 DEF Fresh, Gone
  <2> QED
    BY <1>0, <2>1, <2>2
<1>3. ASSUME NEW u \in Threads \ {t} PROVE Placed(u)'
  <2>1. NextCalls(u)' = NextCalls(u) /\ WaitSlot(u)' = WaitSlot(u) /\ Placed(u)
    BY <1>0, <1>1 DEF NextCalls, WaitSlot, Grounded
  <2> QED
    BY <1>1, <2>1 DEF Placed, Gone
<1> QED
  BY <1>2, <1>3 DEF Grounded, Keeps

LEMMA RestKept ==
  ASSUME NEW p, NEW m, NEW turns, Scene(p, m, turns), NEW t \in Threads, Step(t),
         th[t].pc \in RestPcs
  PROVE  /\ Grounded(p, m)' /\ Integrity' /\ Keeps(t) /\ Loose(t)' /\ Done(t)' = Done(t)
         /\ \/ /\ UNCHANGED <<files, sent, rcvd>>
               /\ \A c \in Chans : chan'[c].creator = chan[c].creator
            \/ t = p /\ th[m].pc = "idle" /\ (Quiet => Quiet')
<1> DEFINE Goal ==
             /\ Grounded(p, m)' /\ Integrity' /\ Keeps(t) /\ Loose(t)' /\ Done(t)' = Done(t)
             /\ \/ /\ UNCHANGED <<files, sent, rcvd>>
                   /\ \A c \in Chans : chan'[c].creator = chan[c].creator
                \/ t = p /\ th[m].pc = "idle" /\ (Quiet => Quiet')
<1>0. /\ TypeOK /\ ThreadsOK /\ FilesOK /\ HistoryOK /\ ChanOK
      /\ p \in Threads /\ m \in Threads /\ p # m /\ \A u \in Threads : u = p \/ u = m
      /\ status \in [Threads -> Statuses] /\ Integrity /\ Grounded(p, m)
      /\ \A c \in Chans : chan[c].flags = {} /\ (Owns(p, c, ret[p]) => chan[c].creator = p)
      /\ th[t].pc # "asleep" => Runs(t) /\ status[t] = "ready"
  BY OnScene, Acts DEF SchedOK, Scene, MeetInv, Grounded, Runs
<1>1. Step(t) => /\ th[t].pc = "idle" => Enter(t) \/ Sleep(t) \/ Exit(t) \/ FlagsLoad(t) \/ Make(t)
                 /\ th[t].pc = "asleep" => Timer(t)
                 /\ th[t].pc = "flags" => FlagsStore(t)
  BY Acts
<1>2. ASSUME NEW call \in NextCalls(t), NEW f, th[t].pc = "idle", Goto(t, f), f.call = call,
             f.pc \in (RestPcs \cup SyncPcs) \ {"idle"},
             f.pc = "flags" => call.op = "set_buffered" /\ f.flags = {},
             f.pc = "asleep" => call.op = "sleep",
             UNCHANGED <<chan, files, sent, rcvd, blocked>>,
             \/ status' = status
             \/ status' = [status EXCEPT ![t] = "sleeping"] /\ f.pc = "asleep"
      PROVE  Goal
  <2>1. th'[t] = f /\ ret' = ret /\ Alone(t)
    BY <1>0, <1>2, GotoChanges, OthersSame DEF Goto, Alone
  <2>2. Keeps(t)
    BY <1>0, <1>2, <2>1 DEF Keeps
  <2>3. Loose(t)' /\ Done(t)' = Done(t) /\ Integrity'
    BY <1>0, <1>2, <2>1 DEF Loose, Done, Integrity
  <2>4. NextCalls(t)' = NextCalls(t)
    BY <2>1 DEF NextCalls
  <2>5. Placed(t)'
    <3>1. ~Gone(t)' /\ (status'[t] = "sleeping" => f.pc = "asleep")
      BY <1>0, <1>2 DEF Gone
    <3> QED
      BY <1>2, <2>1, <2>4, <3>1 DEF Placed
  <2>6. Grounded(p, m)'
    <3>1. \A c \in Chans : Owns(p, c, ret'[p]) => chan'[c].creator = p
      BY <1>0, <1>2, <2>1
    <3>2. ~(t = p /\ Fresh(p)')
      BY <1>2, <2>1 DEF Fresh
    <3> QED
      BY <1>0, <1>2, <2>2, <2>5, <3>1, <3>2, RestGround
  <2> QED
    BY <1>2, <2>2, <2>3, <2>6 DEF OutFile
<1>3. ASSUME NEW call \in Calls, call.again = 0, call.op \notin Blocking, call.op # "make",
             Return(t, call, 0), UNCHANGED <<files, sent, rcvd, blocked>>,
             \A c \in Chans : chan'[c].flags = {} /\ chan'[c].creator = chan[c].creator,
             status' = [status EXCEPT ![t] = "ready"]
      PROVE  Goal
  <2>1. /\ th'[t] = Idle /\ Alone(t) /\ Done(t)' = Done(t)
        /\ \A c, v : Owns(v, c, ret'[t]) <=> Owns(v, c, ret[t])
        /\ ~OnlyMakes(ret'[t])
    <3>1. ReturnHeard(t, call, 0, 0) /\ 0 \in Nat /\ 0 \in Int
      BY <1>3 DEF Return
    <3>2. /\ th'[t] = Idle /\ Alone(t) /\ Done(t) \in Nat
          /\ Done(t)' = Done(t) + (IF call.op \in Blocking THEN 1 ELSE 0)
      BY <1>0, <1>3, <3>1, Returning
    <3>3. (\A c, v : Owns(v, c, ret'[t]) <=> Owns(v, c, ret[t])) /\ ~OnlyMakes(ret'[t])
      BY <1>0, <1>3, <3>1, Returning
    <3> QED
      BY <1>3, <3>2, <3>3
  <2>2. Keeps(t)
    BY <1>0, <1>3, <2>1 DEF Keeps
  <2>3. Loose(t)' /\ Integrity'
    BY <1>0, <1>3, <2>1, FrameParts DEF Loose, RestPcs, Integrity
  <2>4. Placed(t)'
    <3>1. ~Gone(t)' /\ status'[t] # "sleeping"
      BY <1>0, <1>3 DEF Gone
    <3> QED
      BY <2>1, <3>1, FrameParts DEF Placed
  <2>5. Grounded(p, m)'
    <3>1. \A c \in Chans : Owns(p, c, ret'[p]) => chan'[c].creator = p
      BY <1>0, <1>3, <2>1 DEF Alone, Same
    <3>2. ~(t = p /\ Fresh(p)')
      BY <2>1 DEF Fresh
    <3> QED
      BY <1>0, <1>3, <2>2, <2>4, <3>1, <3>2, RestGround
  <2> QED
    BY <1>3, <2>1, <2>2, <2>3, <2>5 DEF OutFile
<1>4. CASE Enter(t)
  <2>1. PICK call \in NextCalls(t) :
          /\ Invokes(t, call, {"send", "try_send", "recv", "try_recv", "drop"})
          /\ IF \/ call.op \in {"send", "try_send"} /\ SendRefused(call)
                \/ call.op \in {"recv", "try_recv", "drop"} /\ RecvRefused(t, call)
             THEN Return(t, call, 0)
             ELSE Goto(t, Frame(call.op, call, InFile(t, call.c)))
          /\ Undisturbed
          /\ UNCHANGED <<chan, files, sent, rcvd>>
    BY <1>4 DEF Enter
  <2>2. /\ call.op \in {"send", "recv", "drop"} /\ th[t].pc = "idle"
        /\ ~Closed(call.c)
    BY <2>1, CallKinds, OnScene DEF Invokes
  <2>3. Goto(t, Frame(call.op, call, InFile(t, call.c)))
    BY <2>1, <2>2 DEF SendRefused, RecvRefused
  <2>4. PICK f : f = Frame(call.op, call, InFile(t, call.c))
    OBVIOUS
  <2>5. f.call = call /\ f.pc \in SyncPcs /\ f.pc \notin {"idle", "asleep", "flags"}
    BY <2>2, <2>4, FrameParts DEF SyncPcs
  <2> QED
    BY <1>2, <2>1, <2>2, <2>3, <2>4, <2>5 DEF Undisturbed
<1>5. CASE Sleep(t)
  <2>1. PICK call \in NextCalls(t) :
          /\ th[t].pc = "idle" /\ status' = [status EXCEPT ![t] = "sleeping"]
          /\ call.op = "sleep" /\ Goto(t, Frame("asleep", call, FALSE))
          /\ UNCHANGED <<chan, blocked, files, sent, rcvd>>
    BY <1>5 DEF Sleep, Invokes
  <2>2. PICK f : f = Frame("asleep", call, FALSE)
    OBVIOUS
  <2>3. f.call = call /\ f.pc = "asleep"
    BY <2>2 DEF Frame
  <2> QED
    BY <1>2, <2>1, <2>2, <2>3 DEF RestPcs
<1>6. CASE FlagsLoad(t)
  <2>1. PICK call \in NextCalls(t) :
          /\ th[t].pc = "idle" /\ call.op \in {"close", "set_buffered"}
          /\ Goto(t, [Frame("flags", call, FALSE) EXCEPT !.flags = chan[call.c].flags])
          /\ Undisturbed
          /\ UNCHANGED <<chan, files, sent, rcvd>>
    BY <1>6 DEF FlagsLoad, Invokes
  <2>2. call.op = "set_buffered" /\ chan[call.c].flags = {}
    BY <1>0, <2>1, CallKinds
  <2>3. PICK f : f = [Frame("flags", call, FALSE) EXCEPT !.flags = chan[call.c].flags]
    OBVIOUS
  <2>4. f.call = call /\ f.pc = "flags" /\ f.flags = {}
    BY <2>2, <2>3 DEF Frame
  <2> QED
    BY <1>2, <2>1, <2>2, <2>3, <2>4 DEF RestPcs, Undisturbed
<1>7. CASE FlagsStore(t)
  <2> DEFINE f == th[t]
  <2>1. /\ chan' = [chan EXCEPT ![f.call.c].flags =
                      f.flags \cup (IF f.call.op = "close" THEN {"closed"} ELSE MadeFlags(f.call.n # 0))]
        /\ Return(t, f.call, 0) /\ UNCHANGED <<status, blocked, files, sent, rcvd>> /\ f.pc = "flags"
    BY <1>7 DEF FlagsStore, At, Undisturbed
  <2>2. f.call.op = "set_buffered" /\ f.flags = {} /\ f.call \in NextCalls(t)
    BY <1>0, <2>1 DEF Grounded, Placed
  <2>3. f.call \in Calls /\ f.call.again = 0 /\ f.call.n = 0 /\ f.call.c \in Chans
    BY <2>2, CallKinds
  <2>4. \A c \in Chans : chan'[c].flags = {} /\ chan'[c].creator = chan[c].creator
    <3>1. chan' = [chan EXCEPT ![f.call.c].flags = {}]
      BY <2>1, <2>2, <2>3 DEF MadeFlags
    <3> QED
      BY <1>0, <3>1 DEF ChanOK
  <2>5. status' = [status EXCEPT ![t] = "ready"]
    BY <1>0, <2>1
  <2> QED
    BY <1>3, <2>1, <2>2, <2>3, <2>4, <2>5 DEF Blocking
<1>8. CASE Timer(t)
  <2>1. /\ th[t].pc = "asleep" /\ Return(t, th[t].call, 0)
        /\ status' = [status EXCEPT ![t] = "ready"]
        /\ UNCHANGED <<chan, blocked, files, sent, rcvd>>
    BY <1>8 DEF Timer
  <2>2. th[t].call \in NextCalls(t) /\ th[t].call.op = "sleep"
    BY <1>0, <2>1 DEF Grounded, Placed
  <2>3. th[t].call \in Calls /\ th[t].call.again = 0
    BY <2>2, CallKinds
  <2> QED
    BY <1>0, <1>3, <2>1, <2>2, <2>3 DEF Blocking
<1>9. CASE Exit(t)
  <2>1. /\ th[t].pc = "idle" /\ status' = [status EXCEPT ![t] = "stopped"]
        /\ UNCHANGED <<chan, blocked, files, th, ret, sent, rcvd>>
    BY <1>9 DEF Exit
  <2>2. Alone(t) /\ Keeps(t) /\ Loose(t)' /\ Done(t)' = Done(t) /\ Integrity'
    BY <1>0, <2>1 DEF Alone, Same, Keeps, Loose, RestPcs, Done, Integrity
  <2>3. Placed(t)' /\ Gone(t)'
    <3>1. NextCalls(t) = {} /\ NextCalls(t)' = NextCalls(t)
      BY <1>9, <2>1 DEF Exit, NextCalls
    <3> QED
      BY <1>0, <2>1, <3>1 DEF Placed, Gone
  <2>4. Grounded(p, m)'
    <3>1. \A c \in Chans : Owns(p, c, ret'[p]) => chan'[c].creator = p
      BY <1>0, <2>1
    <3>2. ~(t = p /\ Fresh(p)')
      BY <2>3 DEF Fresh
    <3> QED
      BY <1>0, <2>1, <2>2, <2>3, <3>1, <3>2, RestGround
  <2> QED
    BY <2>1, <2>2, <2>4 DEF OutFile
<1>10. CASE Make(t)
  <2>1. PICK call \in NextCalls(t) :
          /\ call.op = "make" /\ th[t].pc = "idle"
          /\ chan' = [chan EXCEPT ![call.c] = [creator |-> t, flags |-> MadeFlags(call.n # 0)]]
          /\ files' = [files EXCEPT ![call.c] = NewFiles]
          /\ sent' = [sent EXCEPT ![call.c] = NewFiles] /\ rcvd' = [rcvd EXCEPT ![call.c] = NewFiles]
          /\ Return(t, call, 0) /\ status' = status
    BY <1>10 DEF Make, Invokes
  <2>2. /\ call \in Calls /\ call.c \in Chans /\ call.n = 0 /\ call.again = 0
        /\ t = p /\ OnlyMakes(ret[p])
    BY <2>1, CallKinds
  <2>3. status[p] = "ready" /\ th[m].pc = "idle" /\ status[m] # "sleeping"
    <3>1. status[p] = "ready"
      BY <1>0, <2>1, <2>2
    <3>2. Fresh(p)
      BY <2>1, <2>2, <3>1 DEF Fresh, Gone
    <3> QED
      BY <1>0, <3>1, <3>2 DEF Grounded, Placed
  <2>4. th'[p] = Idle /\ Alone(p) /\ Done(p)' = Done(p)
    <3>1. ReturnHeard(p, call, 0, 0) /\ call.op \notin Blocking
      BY <2>1, <2>2 DEF Return, Blocking
    <3> QED
      BY <1>0, <2>2, <3>1, Returning
  <2>5. \A c \in Chans : Owns(p, c, ret'[p]) => Owns(p, c, ret[p]) \/ c = call.c
    <3>1. ret'[p] = Append(ret[p], [call |-> call, n |-> 0, heard |-> 0])
      BY <1>0, <2>1, <2>2 DEF Return, ReturnHeard, Returned, ThreadsOK
    <3>2. PICK r \in Results : r.call = call /\ ret'[p] = Append(ret[p], r)
      BY <2>2, <3>1 DEF Results
    <3>3. ret[p] \in Seq(Results)
      BY <1>0 DEF ThreadsOK
    <3> QED
      BY <3>2, <3>3, MadeOne
  <2>6. \A c \in Chans : chan'[c] = IF c = call.c THEN [creator |-> p, flags |-> {}] ELSE chan[c]
    BY <1>0, <2>1, <2>2 DEF ChanOK, MadeFlags
  <2>7. Keeps(p) /\ \A c \in Chans : Owns(p, c, ret'[p]) => chan'[c].creator = p
    BY <1>0, <2>1, <2>4, <2>5, <2>6 DEF Keeps
  <2>8. Placed(p)'
    BY <2>1, <2>3, <2>4, FrameParts DEF Placed, Gone
  <2>9. Grounded(p, m)'
    <3>1. \A u \in Threads \ {p} : status[u] # "sleeping"
      BY <1>0, <2>3
    <3>2. Fresh(p)' => status'[p] = "ready" /\ th[m].pc = "idle"
      BY <2>1, <2>3
    <3>3. Runs(p)
      BY <1>0, <2>1, <2>2
    <3> QED
      BY <1>0, <2>7, <2>8, <3>1, <3>2, <3>3, RestGround
  <2>10. ASSUME NEW c \in Chans, NEW k \in BOOLEAN
         PROVE  /\ files'[c][k] = IF c = call.c THEN <<>> ELSE files[c][k]
                /\ sent'[c][k] = IF c = call.c THEN <<>> ELSE sent[c][k]
                /\ rcvd'[c][k] = IF c = call.c THEN <<>> ELSE rcvd[c][k]
    BY <1>0, <2>1, <2>2 DEF FilesOK, HistoryOK, NewFiles
  <2>11. Integrity'
    <3> SUFFICES ASSUME NEW c \in Chans, NEW k \in BOOLEAN
                 PROVE  /\ Len(rcvd'[c][k]) <= Len(sent'[c][k])
                        /\ \A i \in 1..Len(rcvd'[c][k]) : rcvd'[c][k][i] = Payload(sent'[c][k][i])
      BY DEF Integrity
    <3>1. CASE c = call.c
      BY <2>10, <3>1
    <3>2. CASE c # call.c
      BY <1>0, <2>10, <3>2 DEF Integrity
    <3> QED
      BY <3>1, <3>2
  <2>12. Quiet => Quiet'
    <3> SUFFICES ASSUME Quiet, NEW c \in Chans, NEW k \in BOOLEAN
                 PROVE  files'[c][k] = <<>> /\ Len(sent'[c][k]) = Len(rcvd'[c][k])
      BY DEF Quiet, QuietFile
    <3>1. CASE c = call.c
      BY <2>10, <3>1
    <3>2. CASE c # call.c
      <4>1. files[c][k] = <<>> /\ Len(sent[c][k]) = Len(rcvd[c][k])
        BY DEF Quiet, QuietFile
      <4>2. files'[c][k] = files[c][k] /\ sent'[c][k] = sent[c][k] /\ rcvd'[c][k] = rcvd[c][k]
        BY <2>10, <3>2
      <4> QED
        BY <4>1, <4>2
    <3> QED
      BY <3>1, <3>2
  <2>13. Loose(p)'
    BY <2>4, FrameParts DEF Loose, RestPcs
  <2> QED
    BY <2>2, <2>3, <2>4, <2>7, <2>9, <2>11, <2>12, <2>13
<1> QED
  BY <1>1, <1>4, <1>5, <1>6, <1>7, <1>8, <1>9, <1>10 DEF RestPcs

LEMMA RestStage ==
  ASSUME NEW p, NEW m, NEW turns, Scene(p, m, turns), NEW t \in Threads, Step(t),
         th[t].pc \in RestPcs
  PROVE  Stage(p, m)'
<1>0. /\ p \in Threads /\ m \in Threads /\ p # m /\ \A u \in Threads : u = p \/ u = m
      /\ Stage(p, m)
  BY OnScene DEF Scene, MeetInv
<1>1. /\ Keeps(t) /\ Loose(t)' /\ Done(t)' = Done(t)
      /\ \/ /\ UNCHANGED <<files, sent, rcvd>>
            /\ \A c \in Chans : chan'[c].creator = chan[c].creator
         \/ t = p /\ th[m].pc = "idle" /\ (Quiet => Quiet')
  BY RestKept
<1>2. ASSUME NEW u \in Threads \ {t}
      PROVE  /\ th'[u] = th[u] /\ status'[u] = status[u] /\ Done(u)' = Done(u)
             /\ (Loose(u)' <=> Loose(u)) /\ (Asks(u)' <=> Asks(u))
  BY <1>1 DEF Keeps, Alone, Same, Done, Loose, Asks
<1>3. ~Asks(t)'
  BY <1>1 DEF Loose, Asks, RestPcs, SyncPcs, Bodies
<1>4. CASE Apart(p, m)
  <2>1. Quiet'
    BY <1>1, <1>4 DEF Apart, Quiet, QuietFile
  <2>2. \A u \in {p, m} : Loose(u)' \/ Asks(u)'
    BY <1>0, <1>1, <1>2, <1>4 DEF Apart
  <2>3. Done(p)' = Done(m)' /\ ~(Asks(p)' /\ Asks(m)')
    BY <1>0, <1>1, <1>2, <1>3, <1>4 DEF Apart
  <2>4. Apart(p, m)'
    BY <2>1, <2>2, <2>3 DEF Apart
  <2> QED
    BY <2>4 DEF Stage
<1>5. CASE Ahead(p, m)
  <2> DEFINE f == th[m]
             c == f.call.c
  <2>1. t = p
    BY <1>0, <1>5 DEF Ahead, RestPcs, Bodies
  <2>2. /\ th'[m] = f /\ status'[m] = "ready" /\ Done(p)' = Done(m)' + 1 /\ Loose(p)'
    BY <1>0, <1>1, <1>2, <1>5, <2>1 DEF Ahead
  <2>3. f.pc # "idle"
    BY <1>5 DEF Ahead, Bodies
  <2>4. /\ UNCHANGED <<files, sent, rcvd>>
        /\ \A d \in Chans : chan'[d].creator = chan[d].creator
    BY <1>1, <2>3
  <2>5. c \in Chans
    BY <1>0, <2>3, PlaceKinds DEF Calls
  <2>6. InFile(m, c)' = InFile(m, c)
    BY <2>2, <2>4, <2>5 DEF InFile
  <2>7. Quiet => Quiet'
    BY <2>4 DEF Quiet, QuietFile
  <2>8. \A k, msg, b : Carries(c, k, m, msg, b) => Carries(c, k, m, msg, b)'
    BY <2>2, <2>4 DEF Carries, QuietFile, Held
  <2>9. Ahead(p, m)'
    BY <1>5, <2>2, <2>4, <2>6, <2>7, <2>8 DEF Ahead
  <2> QED
    BY <2>9 DEF Stage
<1>6. ~Met(p, m) /\ ~Due(p, m) /\ ~Draws(p, m) /\ ~Pours(p, m)
  <2>1. CASE t = p
    BY <2>1 DEF Met, Due, Draws, Pours, Came, RestPcs, Bodies
  <2>2. CASE t = m
    BY <2>2 DEF Met, Due, Draws, Pours, Came, RestPcs, Bodies
  <2> QED
    BY <1>0, <2>1, <2>2
<1> QED
  BY <1>0, <1>4, <1>5, <1>6 DEF Stage

--------------------------------------------------------------------------------
(* Coming to a meeting *)

\* Who drops is p, on a channel of its own.
LEMMA DropsOwn ==
  ASSUME NEW p, NEW m, NEW turns, Scene(p, m, turns), NEW t \in Threads, NEW call \in NextCalls(t),
         call.op = "drop"
  PROVE  t = p /\ OutFile(p, call.c)
<1>1. call.c \in Chans /\ t = p /\ Owns(p, call.c, ret[t])
  BY CallKinds DEF SyncPcs, Plays
<1> QED
  BY <1>1 DEF Scene, MeetInv, Grounded, OutFile

LEMMA SyncDoes ==
  ASSUME NEW p, NEW m, NEW turns, Scene(p, m, turns), NEW t \in Threads, Step(t),
         th[t].pc \in SyncPcs
  PROVE  LET call == th[t].call
             sender == call.op = "send"
         IN  /\ Runs(t) /\ call \in NextCalls(t) /\ call.op \in SyncPcs /\ call.c \in Chans
             /\ Meet(t, call.c, sender) /\ WaitSlot(t)' = MySlot(sender)
             /\ th'[t].pc \in Bodies /\ th'[t].call = call /\ ret' = ret
             /\ Alone(t) /\ UNCHANGED <<chan, files, sent, rcvd>>
<1> DEFINE call == th[t].call
           sender == call.op = "send"
<1>1. /\ Runs(t) /\ ThreadsOK /\ \A c \in Chans : ~Buffered(c)
      /\ th[t].pc = "send" => SendSync(t)
      /\ th[t].pc = "recv" => RecvSync(t)
      /\ th[t].pc = "drop" => DropSync(t)
  BY Acts, OnScene DEF SyncPcs
<1>2. /\ call \in NextCalls(t) /\ call.op = th[t].pc
      /\ call \in Calls /\ call.c \in Chans
  BY PlaceKinds DEF SyncPcs, SendPcs, RecvPcs, DropPcs, Calls
<1>3. \E pc \in Bodies : /\ Synchronize(t, call, sender, pc)
                         /\ pc \in SendPcs <=> sender
  <2>1. CASE call.op = "send"
    BY <1>1, <1>2, <2>1 DEF SendSync, SendBody, Bodies, SendPcs
  <2>2. CASE call.op = "recv"
    BY <1>1, <1>2, <2>2 DEF RecvSync, RecvBody, Bodies, SendPcs
  <2>3. CASE call.op = "drop"
    <3>1. t = p /\ OutFile(t, call.c)
      BY <1>2, <2>3, DropsOwn
    <3> QED
      BY <1>1, <1>2, <2>3, <3>1 DEF DropSync, Bodies, SendPcs
  <2> QED
    BY <1>2, <2>1, <2>2, <2>3 DEF SyncPcs
<1>4. PICK pc \in Bodies : Synchronize(t, call, sender, pc) /\ (pc \in SendPcs <=> sender)
  BY <1>3
<1>5. /\ Meet(t, call.c, sender) /\ Goto(t, Frame(pc, call, FALSE))
      /\ UNCHANGED <<chan, files, sent, rcvd>>
  BY <1>4 DEF Synchronize
<1>6. th'[t] = Frame(pc, call, FALSE) /\ ret' = ret
  BY <1>1, <1>5, GotoChanges DEF Goto
<1> HIDE DEF call
<1>8. Alone(t)
  BY <1>1, <1>5, OthersSame DEF Goto, Alone
<1>9. th'[t].pc = pc /\ th'[t].call = call
  BY <1>6 DEF Frame
<1>7. WaitSlot(t)' = MySlot(sender)
  BY <1>4, <1>9 DEF WaitSlot, MySlot
<1> QED
  BY <1>1, <1>2, <1>4, <1>5, <1>6, <1>7, <1>8, <1>9 DEF call

LEMMA SyncKept ==
  ASSUME NEW p, NEW m, NEW turns, Scene(p, m, turns), NEW t \in Threads, Step(t),
         th[t].pc \in SyncPcs
  PROVE  MeetInv(p, m)'
<1> DEFINE call == th[t].call
           sender == call.op = "send"
           c == call.c
<1>1. /\ Runs(t) /\ call \in NextCalls(t) /\ call.op \in SyncPcs /\ c \in Chans
      /\ Meet(t, c, sender) /\ WaitSlot(t)' = MySlot(sender)
      /\ th'[t].pc \in Bodies /\ th'[t].call = call /\ ret' = ret
      /\ Alone(t) /\ UNCHANGED <<chan, files, sent, rcvd>>
  BY SyncDoes
<1>2. /\ p \in Threads /\ m \in Threads /\ p # m /\ \A u \in Threads : u = p \/ u = m
      /\ Stage(p, m) /\ Integrity /\ WaiterAsleep /\ Grounded(p, m) /\ SchedOK
      /\ NoThread \notin Threads
  BY OnScene, RiotAssumption DEF Scene, MeetInv
<1>3. PICK u \in Threads : u # t /\ ((t = p /\ u = m) \/ (t = m /\ u = p))
  <2>1. CASE t = p
    BY <1>2, <2>1
  <2>2. CASE t = m
    BY <1>2, <2>2
  <2> QED
    BY <1>2, <2>1, <2>2
<1>4. /\ status \in [Threads -> Statuses] /\ status[t] = "ready"
      /\ blocked \in [Chans -> [Slots -> Threads \cup {NoThread}]]
      /\ th'[u] = th[u] /\ \A v \in Threads : Done(v)' = Done(v)
      /\ MySlot(sender) \in Slots /\ PeerSlot(sender) \in Slots
  BY <1>1, <1>2, <1>3 DEF SchedOK, Runs, Alone, Same, Done, MySlot, PeerSlot, Slots
<1>5. Integrity' /\ (Quiet => Quiet')
  <2>1. files' = files /\ sent' = sent /\ rcvd' = rcvd
    BY <1>1
  <2>2. Integrity'
    BY <1>2, <2>1 DEF Integrity
  <2>3. Quiet => Quiet'
    BY <2>1 DEF Quiet, QuietFile
  <2> QED
    BY <2>2, <2>3
<1>6. SUFFICES Stage(p, m)' /\ (Registers(t) \/ \E d \in Chans, s \in Slots : Wake(d, s))
  <2>1. ASSUME Registers(t) \/ \E d \in Chans, s \in Slots : Wake(d, s) PROVE Grounded(p, m)'
    <3>1. th'[t].pc \notin {"idle", "asleep", "flags"} /\ th'[t].call \in NextCalls(t)
      BY <1>1 DEF Bodies
    <3> QED
      BY <1>1, <2>1, <3>1, GroundKept
  <2> QED
    BY <1>5, <2>1 DEF MeetInv
<1> HIDE DEF sender, c
<1>7. ASSUME \A d \in Chans, s \in Slots : blocked[d][s] = NoThread
      PROVE  Registers(t) /\ Asks(t)' /\ status'[u] = status[u]
  <2>1. Block(t, c, MySlot(sender))
    BY <1>1, <1>4, <1>7 DEF Meet
  <2>2. status'[t] = "sleeping" /\ status'[u] = status[u]
    BY <1>3, <1>4, <2>1 DEF Block
  <2> QED
    BY <1>1, <1>4, <1>7, <2>1, <2>2 DEF Registers, Asks, Bodies, c
<1>8. CASE Apart(p, m) /\ Asks(u)
  <2>1. th[u].pc # "idle" /\ status[u] = "sleeping" /\ th[u].pc # "asleep"
    BY <1>8 DEF Asks, Bodies
  <2>2. /\ th[u].call \in NextCalls(u) /\ blocked[th[u].call.c][WaitSlot(u)] = u
        /\ th[u].call.op \in SyncPcs /\ (th[u].pc \in SendPcs <=> th[u].call.op = "send")
    <3>1. th[u].call \in NextCalls(u) /\ blocked[th[u].call.c][WaitSlot(u)] = u
      BY <1>2, <2>1 DEF Grounded, Placed
    <3>2. /\ th[u].pc \in SendPcs <=> th[u].call.op = "send"
          /\ th[u].pc \in RecvPcs <=> th[u].call.op = "recv"
          /\ th[u].pc \in DropPcs <=> th[u].call.op = "drop"
      BY <2>1, PlaceKinds
    <3> QED
      BY <1>8, <3>1, <3>2 DEF Asks, Bodies, SendPcs, RecvPcs, DropPcs, SyncPcs
  <2>3. th[u].call.c = c /\ (sender <=> th[u].call.op # "send")
    <3>1. Done(p) = Done(m)
      BY <1>8 DEF Apart
    <3>2. CASE t = p /\ u = m
      BY <1>1, <2>2, <3>1, <3>2, Partners DEF c, sender
    <3>3. CASE t = m /\ u = p
      <4>1. /\ th[u].call.c = call.c
            /\ th[u].call.op = "send" <=> call.op # "send"
        BY <1>1, <2>2, <3>1, <3>3, Partners
      <4> QED
        BY <4>1 DEF c, sender
    <3> QED
      BY <1>3, <3>2, <3>3
  <2>4. WaitSlot(u) = PeerSlot(sender)
    BY <2>2, <2>3 DEF WaitSlot, PeerSlot
  <2>5. blocked[c][PeerSlot(sender)] = u /\ u # NoThread /\ ~Gone(u)
    BY <1>2, <2>1, <2>2, <2>3, <2>4 DEF Gone
  <2>6. Wake(c, PeerSlot(sender)) /\ status' = [status EXCEPT ![u] = "ready"]
    BY <1>1, <2>5 DEF Meet, Wake, c
  <2>7. status'[t] = "ready" /\ status'[u] = "ready"
    BY <1>3, <1>4, <2>6
  <2>8. Came(t)' /\ Came(u)'
    BY <1>1, <1>4, <1>8, <2>7 DEF Came, Asks
  <2>9. Met(p, m)'
    BY <1>2, <1>3, <1>4, <1>5, <1>8, <2>8 DEF Met, Apart
  <2> QED
    BY <1>1, <1>4, <2>6, <2>9 DEF Stage, c
<1>9. CASE Apart(p, m) /\ ~Asks(u)
  <2>1. ASSUME NEW d \in Chans, NEW s \in Slots PROVE blocked[d][s] = NoThread
    <3>1. ASSUME blocked[d][s] # NoThread PROVE FALSE
      <4>1. PICK v \in Threads : v = blocked[d][s]
        BY <1>4, <3>1
      <4>2. status[v] = "sleeping" /\ th[v].pc \in WaitsAt(s)
        BY <1>2, <3>1, <4>1 DEF WaiterAsleep
      <4>3. v = u
        BY <1>2, <1>3, <1>4, <4>2
      <4>4. Loose(u)
        BY <1>2, <1>3, <1>9 DEF Apart
      <4> QED
        BY <4>2, <4>3, <4>4 DEF WaitsAt, Loose, RestPcs, SyncPcs
    <3> QED
      BY <3>1
  <2>2. Registers(t) /\ Asks(t)' /\ status'[u] = status[u]
    BY <1>7, <2>1
  <2>3. Loose(u)' /\ ~Asks(u)'
    BY <1>2, <1>3, <1>4, <1>9, <2>2 DEF Loose, Asks, Apart
  <2>4. Apart(p, m)'
    BY <1>2, <1>3, <1>4, <1>5, <1>9, <2>2, <2>3 DEF Apart
  <2> QED
    BY <2>2, <2>4 DEF Stage
<1>10. CASE Ahead(p, m)
  <2>1. t = p /\ u = m /\ status[p] = "ready" /\ status[m] = "ready"
    BY <1>3, <1>4, <1>10 DEF Ahead, SyncPcs, Bodies
  <2>2. \A d \in Chans, s \in Slots : blocked[d][s] = NoThread
    BY <2>1, Urgent
  <2>3. Registers(p) /\ Asks(p)' /\ status'[m] = "ready"
    BY <1>7, <2>1, <2>2
  <2>4. /\ Done(p)' = Done(m)' + 1 /\ th'[m] = th[m]
        /\ \A d, k, msg, b : Carries(d, k, m, msg, b) => Carries(d, k, m, msg, b)'
    <3>1. th'[m] = th[m] /\ Held(m)' = Held(m)
      BY <1>4, <2>1 DEF Held
    <3>2. Done(p)' = Done(m)' + 1
      BY <1>2, <1>4, <1>10 DEF Ahead
    <3>3. files' = files /\ sent' = sent /\ rcvd' = rcvd
      BY <1>1
    <3>4. \A d, k, msg, b : Carries(d, k, m, msg, b) => Carries(d, k, m, msg, b)'
      BY <3>1, <3>3 DEF Carries, QuietFile
    <3> QED
      BY <3>1, <3>2, <3>4
  <2>5. InFile(m, th[m].call.c)' = InFile(m, th[m].call.c)
    BY <1>1, <2>4 DEF InFile
  <2>6. Ahead(p, m)'
    BY <1>1, <1>5, <1>10, <2>3, <2>4, <2>5 DEF Ahead
  <2> QED
    BY <2>1, <2>3, <2>6 DEF Stage
<1>11. ~Met(p, m) /\ ~Due(p, m) /\ ~Draws(p, m) /\ ~Pours(p, m)
  BY <1>2, <1>3 DEF Met, Due, Draws, Pours, Came, SyncPcs, Bodies
<1> QED
  BY <1>2, <1>8, <1>9, <1>10, <1>11 DEF Stage

--------------------------------------------------------------------------------
(* At a meeting *)

\* A wake-up reaches exactly those who sleep in a call on that channel for that side.
LEMMA WakesHere ==
  ASSUME NEW p, NEW m, NEW turns, Scene(p, m, turns), NEW c \in Chans, NEW slot \in Slots,
         Wake(c, slot)
  PROVE  \A v \in Threads :
           LET here == /\ status[v] = "sleeping" /\ th[v].pc # "asleep"
                       /\ th[v].call.c = c /\ WaitSlot(v) = slot
           IN  /\ here => status'[v] = "ready"
               /\ ~here => status'[v] = status[v]
<1>1. /\ TypeOK /\ SchedOK /\ WaiterAsleep /\ Grounded(p, m) /\ NoThread \notin Threads
  BY OnScene, RiotAssumption DEF Scene, MeetInv
<1>2. /\ \A v \in Threads : v # blocked[c][slot] => status'[v] = status[v]
      /\ \A v \in Threads : v = blocked[c][slot] /\ ~Gone(v) => status'[v] = "ready"
  BY <1>1, WakesOne
<1>3. SUFFICES ASSUME NEW v \in Threads
               PROVE  LET here == /\ status[v] = "sleeping" /\ th[v].pc # "asleep"
                                  /\ th[v].call.c = c /\ WaitSlot(v) = slot
                      IN  /\ here => status'[v] = "ready"
                          /\ ~here => status'[v] = status[v]
  OBVIOUS
<1>4. /\ status[v] = "sleeping" /\ th[v].pc # "asleep" => blocked[th[v].call.c][WaitSlot(v)] = v
      /\ status[v] = "sleeping" => th[v].pc # "idle"
  BY <1>1 DEF Grounded, Placed
<1>5. CASE blocked[c][slot] = v
  <2>1. /\ status[v] = "sleeping" /\ th[v].pc \in WaitsAt(slot) /\ th[v].call.c = c
        /\ \A d \in Chans, s \in Slots : blocked[d][s] = v => d = c /\ s = slot
    BY <1>1, <1>5 DEF WaiterAsleep
  <2>2. th[v].pc # "asleep" /\ ~Gone(v) /\ WaitSlot(v) \in Slots
    BY <2>1 DEF WaitsAt, Gone, WaitSlot, Slots
  <2>3. WaitSlot(v) = slot
    BY <1>4, <2>1, <2>2
  <2> QED
    BY <1>2, <1>5, <2>1, <2>2, <2>3
<1>6. CASE blocked[c][slot] # v
  BY <1>2, <1>4, <1>6
<1> QED
  BY <1>5, <1>6

\* Where both can run a wake-up reaches nobody.
LEMMA WakesNone ==
  ASSUME NEW p, NEW m, NEW turns, Scene(p, m, turns), NEW c \in Chans, NEW slot \in Slots,
         Wake(c, slot), status[p] = "ready", status[m] = "ready"
  PROVE  status'[p] = "ready" /\ status'[m] = "ready"
<1>1. p \in Threads /\ m \in Threads
  BY OnScene
<1> QED
  BY <1>1, WakesHere

\* A blocking call returns.
LEMMA CallEnds ==
  ASSUME NEW p, NEW m, NEW turns, Scene(p, m, turns), NEW t \in Threads, Runs(t),
         NEW call \in NextCalls(t), call.op \in SyncPcs, NEW n \in Nat, NEW heard \in Int,
         ReturnHeard(t, call, n, heard), Undisturbed, chan' = chan
  PROVE  /\ Grounded(p, m)' /\ Alone(t) /\ Loose(t)' /\ ~Asks(t)' /\ status' = status
         /\ Done(t)' = Done(t) + 1 /\ Done(t) \in Nat
         /\ \A u \in Threads \ {t} : Done(u)' = Done(u) /\ (Loose(u)' <=> Loose(u)) /\ (Asks(u)' <=> Asks(u))
<1>1. TypeOK /\ call \in Calls /\ call.again = 0 /\ call.op # "make" /\ call.op \in Blocking
  BY OnScene, CallKinds DEF SyncPcs, Blocking
<1>2. /\ th'[t] = Idle /\ Alone(t)
      /\ Done(t) \in Nat /\ Done(t)' = Done(t) + (IF call.op \in Blocking THEN 1 ELSE 0)
      /\ \A u \in Threads \ {t} : Done(u)' = Done(u)
  BY <1>1, Returning
<1>3. (\A c, v : Owns(v, c, ret'[t]) <=> Owns(v, c, ret[t])) /\ ~OnlyMakes(ret'[t])
  BY <1>1, Returning
<1>4. Grounded(p, m)'
  BY <1>2, <1>3, GroundKept
<1>5. Loose(t)' /\ ~Asks(t)'
  BY <1>2, FrameParts DEF Loose, Asks, RestPcs, Bodies
<1>6. status' = status /\ Done(t)' = Done(t) + 1
  BY <1>1, <1>2 DEF Undisturbed
<1>7. \A u \in Threads \ {t} : (Loose(u)' <=> Loose(u)) /\ (Asks(u)' <=> Asks(u))
  BY <1>2, <1>6 DEF Loose, Asks, Alone, Same
<1> QED
  BY <1>2, <1>4, <1>5, <1>6, <1>7

\* The first step after channel_synchronize.
LEMMA BodyDoes ==
  ASSUME NEW p, NEW m, NEW turns, Scene(p, m, turns), NEW t \in Threads, Step(t),
         th[t].pc \in Bodies
  PROVE  LET call == th[t].call
         IN  /\ Runs(t) /\ call \in NextCalls(t) /\ call \in Calls /\ call.op \in SyncPcs
             /\ call.c \in Chans /\ chan' = chan
             /\ th[t].pc = "send_body" <=> call.op = "send"
             /\ th[t].pc = "recv_body" <=> call.op = "recv"
             /\ \/ /\ call.n = 0 /\ call.op # "drop" /\ ReturnHeard(t, call, 0, 0)
                   /\ Undisturbed /\ UNCHANGED <<files, sent, rcvd>>
                \/ /\ call.op = "send" /\ call.n # 0
                   /\ SendHeader(t, call, OutFile(t, call.c)) /\ rcvd' = rcvd
                \/ /\ call.op = "recv" /\ call.n # 0
                   /\ RecvHeader(t, call, InFile(t, call.c)) /\ sent' = sent /\ rcvd' = rcvd
                \/ /\ call.op = "drop"
                   /\ DropHeader(t, call, InFile(t, call.c)) /\ sent' = sent /\ rcvd' = rcvd
<1> DEFINE call == th[t].call
<1>1. /\ Runs(t)
      /\ th[t].pc = "send_body" => SendSynced(t)
      /\ th[t].pc = "recv_body" => RecvSynced(t)
      /\ th[t].pc = "drop_body" => DropSynced(t)
  BY Acts DEF Bodies
<1>2. /\ call \in NextCalls(t) /\ call \in Calls /\ call.op \in SyncPcs /\ call.c \in Chans
      /\ th[t].pc = "send_body" <=> call.op = "send"
      /\ th[t].pc = "recv_body" <=> call.op = "recv"
      /\ th[t].pc = "drop_body" <=> call.op = "drop"
  BY PlaceKinds DEF Bodies, SyncPcs, SendPcs, RecvPcs, DropPcs, Calls
<1>3. CASE SendSynced(t)
  <2>1. SendBody(t, call) /\ UNCHANGED <<chan, rcvd>> /\ th[t].pc = "send_body"
    BY <1>3 DEF SendSynced, At
  <2> QED
    BY <1>1, <1>2, <2>1 DEF SendBody, Return
<1>4. CASE RecvSynced(t)
  <2>1. RecvBody(t, call) /\ UNCHANGED <<chan, sent, rcvd>> /\ th[t].pc = "recv_body"
    BY <1>4 DEF RecvSynced, At
  <2> QED
    BY <1>1, <1>2, <2>1 DEF RecvBody, Return
<1>5. CASE DropSynced(t)
  <2>1. DropHeader(t, call, InFile(t, call.c)) /\ UNCHANGED <<chan, sent, rcvd>> /\ th[t].pc = "drop_body"
    BY <1>5 DEF DropSynced, At
  <2> QED
    BY <1>1, <1>2, <2>1
<1> QED
  BY <1>1, <1>3, <1>4, <1>5 DEF Bodies

\* A step inside a call keeps the ground.
LEMMA MoveGround ==
  ASSUME NEW p, NEW m, NEW turns, Scene(p, m, turns), NEW t \in Threads, Runs(t),
         NEW frame, th'[t] = frame, ret' = ret, Alone(t), chan' = chan,
         frame.pc \notin {"idle", "asleep", "flags"}, frame.call \in NextCalls(t),
         \/ Undisturbed
         \/ \E c \in Chans, slot \in Slots : Wake(c, slot)
         \/ \E slot \in Slots : /\ Block(t, frame.call.c, slot)
                                /\ blocked[frame.call.c][slot] = NoThread
                                /\ slot = IF frame.pc \in SendPcs THEN "read" ELSE "write"
  PROVE  /\ Grounded(p, m)'
         /\ \A u \in Threads : Done(u)' = Done(u)
         /\ \A u \in Threads \ {t} : th'[u] = th[u] /\ Held(u)' = Held(u)
         /\ \A u \in Threads : \A call : Message(u, call)' = Message(u, call)
         /\ \A u, c : OutFile(u, c)' = OutFile(u, c) /\ InFile(u, c)' = InFile(u, c)
<1>1. frame.call.c \in Chans
  BY CallKinds
<1>2. ASSUME NEW slot \in Slots, Block(t, frame.call.c, slot),
             blocked[frame.call.c][slot] = NoThread,
             slot = IF frame.pc \in SendPcs THEN "read" ELSE "write"
      PROVE  Registers(t)
  BY <1>1, <1>2 DEF Registers, WaitSlot
<1>3. Grounded(p, m)'
  <2>1. ret'[t] = ret[t]
    OBVIOUS
  <2>2. Undisturbed \/ Registers(t) \/ \E c \in Chans, slot \in Slots : Wake(c, slot)
    BY <1>2
  <2> QED
    BY <2>1, <2>2, GroundKept
<1>4. \A u \in Threads : Done(u)' = Done(u)
  BY DEF Done
<1>5. \A u \in Threads \ {t} : th'[u] = th[u] /\ Held(u)' = Held(u)
  BY DEF Alone, Same, Held
<1>6. \A u \in Threads : \A call : Message(u, call)' = Message(u, call)
  BY DEF Message
<1>7. \A u, c : OutFile(u, c)' = OutFile(u, c) /\ InFile(u, c)' = InFile(u, c)
  BY DEF OutFile, InFile
<1> QED
  BY <1>3, <1>4, <1>5, <1>6, <1>7

\* On an empty file the data loop sleeps.
LEMMA LoopWaits ==
  ASSUME NEW p, NEW m, NEW turns, Scene(p, m, turns), NEW t \in Threads, NEW call \in Calls,
         NEW k \in BOOLEAN, NEW size \in Nat, NEW out \in Seq(CellSet), Len(out) <= size,
         RecvLoop(t, call, k, size, <<>>, out)
  PROVE  /\ Block(t, call.c, "write")
         /\ Moves(t, call.c, k, <<>>, RecvFrame("recv_loop", call, k, size, out))
<1>1. TypeOK /\ call.c \in Chans /\ ~Closed(call.c)
  BY OnScene DEF Calls
<1>2. ~GivesUp(t, call.c, k, <<>>, size)
  BY <1>1 DEF GivesUp
<1>3. RbGet(<<>>, size - Len(out)) = <<>>
  <2>1. size - Len(out) \in Nat /\ <<>> \in Seq(CellSet) /\ Len(<<>>) = 0
    BY LenProperties
  <2>2. /\ RbGet(<<>>, size - Len(out)) \in Seq(CellSet)
        /\ Len(RbGet(<<>>, size - Len(out))) = Least(size - Len(out), 0)
    BY <2>1, GetAndDrop
  <2>3. Least(size - Len(out), 0) = 0
    BY <2>1 DEF Least
  <2> QED
    BY <2>2, <2>3, EmptySeq
<1>4. /\ Put(call.c, k, <<>>) /\ Block(t, call.c, "write")
      /\ Goto(t, RecvFrame("recv_loop", call, k, size, out))
  BY <1>2, <1>3 DEF RecvLoop
<1> QED
  BY <1>1, <1>4, PutMoves

\* The file of a message that goes in, and the others.
LEMMA BeginCarries ==
  ASSUME HistoryOK, Integrity, Quiet, NEW c \in Chans, NEW k \in BOOLEAN, NEW t \in Threads,
         NEW msg \in Messages, sent' = Noted(sent, c, k, msg), rcvd' = rcvd,
         NEW b \in 1..msg.size, files'[c][k] = Cells(msg, 0, HdrSize + b),
         \A d \in Chans, l \in BOOLEAN : d # c \/ l # k => files'[d][l] = files[d][l],
         Held(t)' = 0, th'[t].pc \in HdrPcs
  PROVE  Integrity' /\ Carries(c, k, t, msg, b)'
<1>1. /\ Integrity'
      /\ Len(sent'[c][k]) = Len(sent[c][k]) + 1 /\ sent'[c][k][Len(sent'[c][k])] = msg
      /\ \A d \in Chans, l \in BOOLEAN : d # c \/ l # k => sent'[d][l] = sent[d][l]
  BY OneSent
<1>2. \A d \in Chans, l \in BOOLEAN : d # c \/ l # k => QuietFile(d, l)'
  BY <1>1 DEF Quiet, QuietFile
<1>3. Len(sent'[c][k]) = Len(rcvd'[c][k]) + 1
  BY <1>1 DEF Quiet, QuietFile
<1>4. HdrSize + b - 0 = HdrSize + b
  BY ChannelAssumption
<1> QED
  BY <1>1, <1>2, <1>3, <1>4 DEF Carries

LEMMA MetKept ==
  ASSUME NEW p, NEW m, NEW turns, Scene(p, m, turns), NEW t \in Threads, Step(t), Met(p, m)
  PROVE  MeetInv(p, m)'
<1>1. /\ TypeOK /\ HistoryOK /\ ThreadsOK /\ Integrity /\ Quiet
      /\ p \in Threads /\ m \in Threads /\ p # m /\ \A u \in Threads : u = p \/ u = m
      /\ status[p] = "ready" /\ status[m] = "ready" /\ Done(p) = Done(m)
      /\ th[p].pc \in Bodies /\ th[m].pc \in Bodies
      /\ \A d \in Chans : /\ ~Closed(d) /\ OutFile(p, d) \in BOOLEAN /\ OutFile(m, d) \in BOOLEAN
                          /\ InFile(p, d) = OutFile(m, d) /\ InFile(m, d) = OutFile(p, d)
      /\ HdrSize < BufSize /\ ~Tsrb
  BY OnScene DEF Met, Came, Scene, MeetInv
<1>2. t = p /\ \A d \in Chans, s \in Slots : blocked[d][s] = NoThread
  <2>1. ~Runs(m) /\ \A d \in Chans, s \in Slots : blocked[d][s] = NoThread
    BY <1>1, Urgent
  <2>2. t # m
    BY <1>1, <2>1, Acts DEF Bodies
  <2> QED
    BY <1>1, <2>1, <2>2
<1>3. PICK a, b, c : a = th[p].call /\ b = th[m].call /\ c = a.c
  OBVIOUS
<1>4. /\ Runs(p) /\ a \in NextCalls(p) /\ a \in Calls /\ a.op \in SyncPcs /\ c \in Chans /\ chan' = chan
      /\ \/ /\ a.n = 0 /\ a.op # "drop" /\ ReturnHeard(p, a, 0, 0)
            /\ Undisturbed /\ UNCHANGED <<files, sent, rcvd>>
         \/ /\ a.op = "send" /\ a.n # 0
            /\ SendHeader(p, a, OutFile(p, c)) /\ rcvd' = rcvd
         \/ /\ a.op = "recv" /\ a.n # 0
            /\ RecvHeader(p, a, InFile(p, c)) /\ sent' = sent /\ rcvd' = rcvd
         \/ /\ a.op = "drop"
            /\ DropHeader(p, a, InFile(p, c)) /\ sent' = sent /\ rcvd' = rcvd
  BY <1>1, <1>2, <1>3, BodyDoes
<1>5. /\ b \in NextCalls(m) /\ b \in Calls /\ b.op \in SyncPcs
      /\ th[m].pc = "send_body" <=> b.op = "send"
      /\ th[m].pc = "recv_body" <=> b.op = "recv"
  BY <1>1, <1>3, PlaceKinds DEF Bodies, SyncPcs, SendPcs, RecvPcs, DropPcs
<1>6. /\ c = b.c /\ b.op # "drop"
      /\ a.op = "send" <=> b.op # "send"
      /\ a.op = "drop" => b.n # 0
      /\ a.op # "drop" => (a.n = 0 <=> b.n = 0)
  BY <1>1, <1>3, <1>4, <1>5, Partners
<1>7. CASE /\ a.n = 0 /\ a.op # "drop" /\ ReturnHeard(p, a, 0, 0)
           /\ Undisturbed /\ UNCHANGED <<files, sent, rcvd>>
  <2>1. /\ Grounded(p, m)' /\ Alone(p) /\ Loose(p)' /\ status' = status
        /\ Done(p)' = Done(p) + 1 /\ \A u \in Threads \ {p} : Done(u)' = Done(u)
    BY <1>1, <1>4, <1>7, CallEnds
  <2>2. Quiet' /\ Integrity'
    BY <1>1, <1>7 DEF Quiet, QuietFile, Integrity
  <2>3. th'[m] = th[m] /\ Done(m)' = Done(m)
    BY <1>1, <2>1 DEF Alone, Same
  <2>4. Ahead(p, m)'
    <3>1. th[m].call.n = 0
      BY <1>3, <1>6, <1>7
    <3> QED
      BY <1>1, <2>1, <2>2, <2>3, <3>1 DEF Ahead
  <2> QED
    BY <2>1, <2>2, <2>4 DEF MeetInv, Stage
<1>8. CASE a.op = "send" /\ a.n # 0 /\ SendHeader(p, a, OutFile(p, c)) /\ rcvd' = rcvd
  <2>1. PICK k, msg : k = OutFile(p, c) /\ msg = Message(p, a)
    OBVIOUS
  <2>2. /\ k \in BOOLEAN /\ files[c][k] = <<>> /\ ~Closed(c)
        /\ msg \in Messages /\ msg.size = a.n
    BY <1>1, <1>4, <2>1, MessageType DEF Quiet, QuietFile
  <2>3. /\ sent' = Noted(sent, c, k, msg)
        /\ \E x \in 1..a.n : /\ Moves(p, c, k, Cells(msg, 0, HdrSize + x), SendFrame("send_sent", a, k, x))
                             /\ Wake(c, "write")
    BY <1>1, <1>3, <1>4, <1>8, <2>1, <2>2, HeaderIn
  <2>4. PICK x \in 1..a.n : /\ Moves(p, c, k, Cells(msg, 0, HdrSize + x), SendFrame("send_sent", a, k, x))
                            /\ Wake(c, "write")
    BY <2>3
  <2>5. PICK f : f = SendFrame("send_sent", a, k, x)
    OBVIOUS
  <2>6. f.pc = "send_sent" /\ f.call = a /\ f.rb = k /\ f.bytes = x
    BY <2>5, FrameParts
  <2>7. th'[p] = f /\ ret' = ret /\ Alone(p)
    BY <2>4, <2>5 DEF Moves
  <2>8. /\ Grounded(p, m)'
        /\ \A u \in Threads : Done(u)' = Done(u)
        /\ \A u \in Threads \ {p} : th'[u] = th[u] /\ Held(u)' = Held(u)
        /\ \A u \in Threads : \A call : Message(u, call)' = Message(u, call)
        /\ \A u, d : OutFile(u, d)' = OutFile(u, d) /\ InFile(u, d)' = InFile(u, d)
    <3>1. "write" \in Slots /\ f.pc \notin {"idle", "asleep", "flags"} /\ f.call \in NextCalls(p)
      BY <1>4, <2>6 DEF Slots
    <3>2. \E d \in Chans, slot \in Slots : Wake(d, slot)
      BY <1>4, <2>4, <3>1
    <3> QED
      BY <1>1, <1>4, <2>7, <3>1, <3>2, MoveGround
  <2>9. status'[p] = "ready" /\ status'[m] = "ready"
    BY <1>1, <1>4, <2>4, WakesNone DEF Slots
  <2>10. th[m].pc = "recv_body" /\ th'[m] = th[m] /\ Held(m)' = 0
    BY <1>1, <1>5, <1>6, <1>8, <2>8 DEF Held, HdrPcs, SyncPcs
  <2>11. Integrity' /\ Carries(c, k, m, msg, x)'
    <3>1. /\ files'[c][k] = Cells(msg, 0, HdrSize + x)
          /\ \A d \in Chans, l \in BOOLEAN : d # c \/ l # k => files'[d][l] = files[d][l]
      BY <2>4 DEF Moves
    <3>2. th'[m].pc \in HdrPcs /\ x \in 1..msg.size
      BY <2>2, <2>10 DEF HdrPcs
    <3> QED
      BY <1>1, <1>4, <1>8, <2>2, <2>3, <2>10, <3>1, <3>2, BeginCarries
  <2>12. Pours(p, m)'
    <3>1. th'[p].call = a /\ th'[p].rb = k /\ th'[p].bytes = x /\ th'[p].pc = "send_sent"
      BY <2>6, <2>7
    <3>2. /\ OutFile(p, c)' = k /\ Message(p, a)' = msg /\ (Done(p) = Done(m))'
          /\ th'[m].pc \in {"recv_body", "recv_got"}
      BY <1>1, <2>1, <2>8, <2>10
    <3> QED
      BY <1>3, <2>9, <2>11, <3>1, <3>2 DEF Pours
  <2> QED
    BY <2>8, <2>11, <2>12 DEF MeetInv, Stage
<1>9. CASE /\ a.op \in {"recv", "drop"} /\ (a.op = "recv" => a.n # 0)
           /\ IF a.op = "drop" THEN DropHeader(p, a, InFile(p, c)) ELSE RecvHeader(p, a, InFile(p, c))
           /\ sent' = sent /\ rcvd' = rcvd
  <2>1. PICK k, drops, f : /\ k = InFile(p, c) /\ drops = (a.op = "drop")
                           /\ f = Frame(IF drops THEN "drop_hdr" ELSE "recv_hdr", a, k)
    OBVIOUS
  <2>2. k \in BOOLEAN /\ drops \in BOOLEAN /\ files[c][k] = <<>>
    BY <1>1, <1>4, <2>1 DEF Quiet, QuietFile
  <2>3. f.pc \in {"recv_hdr", "drop_hdr"} /\ f.call = a /\ f.rb = k
    BY <2>1, FrameParts
  <2>4. Goto(p, f) /\ Block(p, c, "write") /\ files' = files
    BY <1>1, <1>3, <1>4, <1>9, <2>1, <2>2, HeaderAwaited
  <2>5. th'[p] = f /\ ret' = ret /\ Alone(p)
    BY <1>1, <2>4, GotoChanges, OthersSame DEF Goto, Alone
  <2>6. /\ Grounded(p, m)'
        /\ \A u \in Threads : Done(u)' = Done(u)
        /\ \A u \in Threads \ {p} : th'[u] = th[u] /\ Held(u)' = Held(u)
        /\ \A u, d : OutFile(u, d)' = OutFile(u, d) /\ InFile(u, d)' = InFile(u, d)
    <3>1. /\ "write" \in Slots /\ f.pc \notin {"idle", "asleep", "flags"} /\ f.call \in NextCalls(p)
          /\ f.pc \notin SendPcs
      BY <1>4, <2>3 DEF Slots, SendPcs
    <3>2. \E slot \in Slots : /\ Block(p, f.call.c, slot)
                               /\ blocked[f.call.c][slot] = NoThread
                               /\ slot = IF f.pc \in SendPcs THEN "read" ELSE "write"
      BY <1>2, <1>3, <1>4, <2>3, <2>4, <3>1
    <3> QED
      BY <1>1, <1>4, <2>5, <3>1, <3>2, MoveGround
  <2>7. status'[p] = "sleeping" /\ status'[m] = "ready"
    BY <1>1, <2>4 DEF Block, TypeOK, SchedOK
  <2>8. Quiet' /\ Integrity'
    BY <1>1, <1>9, <2>4 DEF Quiet, QuietFile, Integrity
  <2>9. Due(p, m)'
    <3>1. th'[m] = th[m] /\ th[m].pc = "send_body" /\ th[m].call.n # 0
      BY <1>1, <1>3, <1>5, <1>6, <1>9, <2>6
    <3>2. th'[p].call.c = c /\ th'[p].rb = InFile(p, c)' /\ th'[p].pc \in {"recv_hdr", "drop_hdr"}
      BY <1>3, <2>1, <2>3, <2>5, <2>6
    <3> QED
      BY <1>1, <2>6, <2>7, <2>8, <3>1, <3>2 DEF Due
  <2> QED
    BY <2>6, <2>8, <2>9 DEF MeetInv, Stage
<1> QED
  BY <1>4, <1>7, <1>8, <1>9

\* A step of the data loops keeps the ground.
LEMMA LoopGround ==
  ASSUME NEW p, NEW m, NEW turns, Scene(p, m, turns), NEW t \in Threads, Runs(t),
         NEW c \in Chans, NEW k \in BOOLEAN, NEW q, NEW frame, Moves(t, c, k, q, frame), chan' = chan,
         frame.pc \in {"send_loop", "send_sent", "recv_loop", "recv_got", "drop_loop", "drop_dropped"},
         frame.call \in NextCalls(t), frame.call.c = c,
         \/ Wake(c, "read") \/ Wake(c, "write")
         \/ /\ Block(t, c, IF frame.pc \in SendPcs THEN "read" ELSE "write")
            /\ blocked[c][IF frame.pc \in SendPcs THEN "read" ELSE "write"] = NoThread
  PROVE  /\ Grounded(p, m)'
         /\ th'[t] = frame /\ Held(t)' = HdrSize + Len(frame.out)
         /\ \A u \in Threads : Done(u)' = Done(u)
         /\ \A u \in Threads \ {t} : th'[u] = th[u] /\ Held(u)' = Held(u)
         /\ \A u \in Threads : \A call : Message(u, call)' = Message(u, call)
         /\ \A u, d : OutFile(u, d)' = OutFile(u, d) /\ InFile(u, d)' = InFile(u, d)
<1>1. th'[t] = frame /\ ret' = ret /\ Alone(t)
  BY DEF Moves
<1>2. /\ "read" \in Slots /\ "write" \in Slots
      /\ frame.pc \notin {"idle", "asleep", "flags"} /\ frame.pc \notin HdrPcs
  BY DEF Slots, HdrPcs
<1>3. \/ \E d \in Chans, slot \in Slots : Wake(d, slot)
      \/ \E slot \in Slots : /\ Block(t, frame.call.c, slot)
                             /\ blocked[frame.call.c][slot] = NoThread
                             /\ slot = IF frame.pc \in SendPcs THEN "read" ELSE "write"
  BY <1>2
<1>4. /\ Grounded(p, m)'
      /\ \A u \in Threads : Done(u)' = Done(u)
      /\ \A u \in Threads \ {t} : th'[u] = th[u] /\ Held(u)' = Held(u)
      /\ \A u \in Threads : \A call : Message(u, call)' = Message(u, call)
      /\ \A u, d : OutFile(u, d)' = OutFile(u, d) /\ InFile(u, d)' = InFile(u, d)
  BY <1>1, <1>2, <1>3, MoveGround
<1>5. Held(t)' = HdrSize + Len(frame.out)
  BY <1>1, <1>2 DEF Held
<1> QED
  BY <1>1, <1>4, <1>5

\* A message goes on being carried.
LEMMA StillCarries ==
  ASSUME NEW c \in Chans, NEW k \in BOOLEAN, NEW t, NEW msg, NEW b, Carries(c, k, t, msg, b),
         sent' = sent, rcvd' = rcvd, NEW w \in 1..msg.size,
         \A d \in Chans, l \in BOOLEAN : d # c \/ l # k => files'[d][l] = files[d][l],
         files'[c][k] = Cells(msg, Held(t)', HdrSize + w - Held(t)'),
         th'[t].pc \notin HdrPcs =>
           /\ th'[t].rb = k /\ th'[t].size = msg.size
           /\ Len(th'[t].out) <= w /\ th'[t].out = Cells(msg, HdrSize, Len(th'[t].out))
  PROVE  Carries(c, k, t, msg, w)' /\ (Integrity => Integrity')
<1>1. Carries(c, k, t, msg, w)'
  BY DEF Carries, QuietFile
<1>2. (Integrity => Integrity')
  BY DEF Integrity
<1> QED
  BY <1>1, <1>2

\* m comes with the header.
LEMMA DueKept ==
  ASSUME NEW p, NEW m, NEW turns, Scene(p, m, turns), NEW t \in Threads, Step(t), Due(p, m)
  PROVE  MeetInv(p, m)'
<1>1. /\ TypeOK /\ HistoryOK /\ ThreadsOK /\ Integrity /\ Quiet
      /\ p \in Threads /\ m \in Threads /\ p # m /\ \A u \in Threads : u = p \/ u = m
      /\ status[p] = "sleeping" /\ status[m] = "ready" /\ Done(p) = Done(m)
      /\ th[p].pc \in {"recv_hdr", "drop_hdr"} /\ th[m].pc = "send_body"
      /\ \A d \in Chans : /\ ~Closed(d) /\ OutFile(m, d) \in BOOLEAN /\ InFile(p, d) = OutFile(m, d)
      /\ HdrSize < BufSize /\ ~Tsrb /\ HdrSize \in Nat \ {0}
  BY OnScene DEF Due, Scene, MeetInv
<1>2. t = m
  <2>1. t = p => FALSE
    BY <1>1, Acts DEF Runs
  <2> QED
    BY <1>1, <2>1
<1>3. PICK a, b, c, k, msg : /\ a = th[p].call /\ b = th[m].call /\ c = b.c
                             /\ k = OutFile(m, c) /\ msg = Message(m, b)
  OBVIOUS
<1>4. /\ Runs(m) /\ b \in NextCalls(m) /\ b \in Calls /\ b.op = "send" /\ c \in Chans /\ chan' = chan
      /\ b.n # 0 /\ SendHeader(m, b, k) /\ rcvd' = rcvd
  <2>1. /\ Runs(m) /\ b \in NextCalls(m) /\ b \in Calls /\ b.op = "send" /\ c \in Chans /\ chan' = chan
        /\ \/ b.n = 0
           \/ b.n # 0 /\ SendHeader(m, b, OutFile(m, c)) /\ rcvd' = rcvd
    BY <1>1, <1>2, <1>3, BodyDoes DEF Bodies
  <2>2. b.n # 0
    BY <1>3 DEF Due
  <2> QED
    BY <1>3, <2>1, <2>2
<1>5. a \in NextCalls(p) /\ a.op \in SyncPcs
  BY <1>1, <1>3, PlaceKinds DEF SyncPcs, RecvPcs, DropPcs
<1>6. a.c = c /\ th[p].rb = k
  <2>1. a.c = c
    BY <1>1, <1>3, <1>4, <1>5, Partners DEF SyncPcs
  <2> QED
    BY <1>1, <1>3, <1>4, <2>1 DEF Due
<1>7. k \in BOOLEAN /\ files[c][k] = <<>> /\ msg \in Messages /\ msg.size = b.n
  BY <1>1, <1>3, <1>4, MessageType DEF Quiet, QuietFile
<1>8. /\ sent' = Noted(sent, c, k, msg)
      /\ \E x \in 1..b.n : /\ Moves(m, c, k, Cells(msg, 0, HdrSize + x), SendFrame("send_sent", b, k, x))
                           /\ Wake(c, "write")
  BY <1>1, <1>3, <1>4, <1>7, HeaderIn
<1>9. PICK x \in 1..b.n : /\ Moves(m, c, k, Cells(msg, 0, HdrSize + x), SendFrame("send_sent", b, k, x))
                          /\ Wake(c, "write")
  BY <1>8
<1>10. PICK f : f = SendFrame("send_sent", b, k, x)
  OBVIOUS
<1>11. f.pc = "send_sent" /\ f.call = b /\ f.rb = k /\ f.bytes = x
  BY <1>10, FrameParts
<1>12. /\ Grounded(p, m)' /\ th'[m] = f
       /\ \A u \in Threads : Done(u)' = Done(u)
       /\ \A u \in Threads \ {m} : th'[u] = th[u] /\ Held(u)' = Held(u)
       /\ \A u \in Threads : \A call : Message(u, call)' = Message(u, call)
       /\ \A u, d : OutFile(u, d)' = OutFile(u, d) /\ InFile(u, d)' = InFile(u, d)
  BY <1>1, <1>3, <1>4, <1>7, <1>9, <1>10, <1>11, LoopGround
<1>13. status'[p] = "ready" /\ status'[m] = "ready"
  <2>1. th[p].pc # "asleep" /\ WaitSlot(p) = "write" /\ "write" \in Slots /\ th[p].call.c = c
    BY <1>1, <1>3, <1>6 DEF WaitSlot, SendPcs, Slots
  <2>2. status'[p] = "ready"
    BY <1>1, <1>4, <1>9, <2>1, WakesHere
  <2>3. status'[m] = "ready"
    BY <1>1, <1>4, <1>9, <2>1, WakesHere
  <2> QED
    BY <2>2, <2>3
<1>14. th'[p] = th[p] /\ Held(p)' = 0 /\ th'[p].pc \in HdrPcs
  BY <1>1, <1>12 DEF Held, HdrPcs
<1>15. /\ files'[c][k] = Cells(msg, 0, HdrSize + x)
       /\ \A d \in Chans, l \in BOOLEAN : d # c \/ l # k => files'[d][l] = files[d][l]
  BY <1>9 DEF Moves
<1>16. Integrity' /\ Carries(c, k, p, msg, x)'
  BY <1>1, <1>4, <1>7, <1>8, <1>14, <1>15, BeginCarries
<1>17. files'[c][k] # <<>>
  <2>1. 0 \in Nat /\ HdrSize + x \in Nat /\ HdrSize + x # 0
    BY <1>1, <1>7 DEF Messages
  <2>2. Len(Cells(msg, 0, HdrSize + x)) = HdrSize + x
    BY <1>7, <2>1, CellsType
  <2> QED
    BY <1>15, <2>1, <2>2, EmptySeq
<1>18. Draws(p, m)'
  <2>1. /\ th'[m].call = b /\ th'[m].rb = k /\ th'[m].bytes = x /\ th'[m].pc = "send_sent"
        /\ th'[p].rb = k /\ th'[p].pc \in {"recv_hdr", "drop_hdr", "recv_loop", "drop_loop"}
    BY <1>1, <1>6, <1>11, <1>12, <1>14
  <2>2. OutFile(m, c)' = k /\ Message(m, b)' = msg /\ (Done(p) = Done(m))'
    BY <1>1, <1>3, <1>12
  <2> QED
    BY <1>3, <1>13, <1>16, <1>17, <2>1, <2>2 DEF Draws
<1> QED
  BY <1>12, <1>16, <1>18 DEF MeetInv, Stage

\* p takes what m sends.
LEMMA DrawsKept ==
  ASSUME NEW p, NEW m, NEW turns, Scene(p, m, turns), NEW t \in Threads, Step(t), Draws(p, m)
  PROVE  MeetInv(p, m)'
<1>1. /\ TypeOK /\ FilesOK /\ HistoryOK /\ ThreadsOK /\ SchedOK /\ Integrity
      /\ p \in Threads /\ m \in Threads /\ p # m /\ \A u \in Threads : u = p \/ u = m
      /\ \A d \in Chans : ~Closed(d) /\ OutFile(m, d) \in BOOLEAN
      /\ HdrSize < BufSize /\ ~Tsrb /\ HdrSize \in Nat \ {0} /\ BufSize \in Nat
  BY OnScene DEF Scene, MeetInv
<1>2. PICK f, g, a, b, c, k, msg : /\ f = th[m] /\ g = th[p] /\ a = g.call /\ b = f.call /\ c = b.c
                                   /\ k = OutFile(m, c) /\ msg = Message(m, b)
  OBVIOUS
<1>3. /\ Done(p) = Done(m)
      /\ f.pc = "send_sent" /\ status[m] = "ready" /\ f.rb = k /\ g.rb = k
      /\ Carries(c, k, p, msg, f.bytes)
      /\ \/ /\ g.pc \in {"recv_hdr", "drop_hdr", "recv_loop", "drop_loop"}
            /\ status[p] = "ready" /\ files[c][k] # <<>>
         \/ g.pc \in {"recv_got", "drop_dropped"} /\ status[p] = "ready" /\ Len(g.out) = f.bytes
         \/ /\ g.pc \in {"recv_loop", "drop_loop"} /\ status[p] = "sleeping"
            /\ Len(g.out) = f.bytes /\ f.bytes < b.n
  BY <1>2 DEF Draws
<1>4. /\ a \in NextCalls(p) /\ a \in Calls /\ a.op \in {"recv", "drop"} /\ g.pc \in PcsOf(a.op)
      /\ b \in NextCalls(m) /\ b \in Calls /\ b.op = "send" /\ b.n \in Nat /\ c \in Chans
  <2>1. g.pc # "idle" /\ f.pc # "idle"
    BY <1>3
  <2>2. a \in NextCalls(p) /\ b \in NextCalls(m) /\ a \in Calls /\ b \in Calls
    BY <1>1, <1>2, <2>1, PlaceKinds
  <2>3. b.op = "send"
    BY <1>1, <1>2, <1>3, PlaceKinds DEF SendPcs
  <2>4. a.op \in {"recv", "drop"}
    BY <1>1, <1>2, <1>3, PlaceKinds DEF RecvPcs, DropPcs
  <2>5. g.pc \in PcsOf(a.op)
    BY <1>1, <1>2, <2>1 DEF Scene, InProgram
  <2> QED
    BY <1>2, <2>2, <2>3, <2>4, <2>5 DEF Calls
<1>5. a.c = c
  BY <1>2, <1>3, <1>4, Partners DEF SyncPcs
<1>6. k \in BOOLEAN /\ msg \in Messages /\ msg.size = b.n /\ files[c][k] \in Rings
  BY <1>1, <1>2, <1>4, MessageType DEF FilesOK
<1>7. PICK w : w = f.bytes
  OBVIOUS
<1>8. /\ \A d \in Chans, l \in BOOLEAN : d # c \/ l # k => QuietFile(d, l)
      /\ Len(sent[c][k]) = Len(rcvd[c][k]) + 1 /\ sent[c][k][Len(sent[c][k])] = msg
      /\ w \in 1..b.n /\ w \in Nat /\ files[c][k] = Cells(msg, Held(p), HdrSize + w - Held(p))
      /\ g.pc \notin HdrPcs =>
           /\ g.size = msg.size /\ Len(g.out) <= w /\ g.out = Cells(msg, HdrSize, Len(g.out))
  <2>1. Carries(c, k, p, msg, w) /\ g = th[p]
    BY <1>2, <1>3, <1>7
  <2>2. w \in 1..b.n
    BY <1>6, <2>1 DEF Carries
  <2>3. w \in Nat
    BY <1>4, <2>2
  <2> QED
    BY <2>1, <2>2, <2>3 DEF Carries
<1>9. g.out \in Seq(CellSet) /\ Len(g.out) \in Nat
  BY <1>1, <1>2, LenProperties DEF ThreadsOK, Frames
\* What the taking of everything that is there makes of the stage.
<1>10. ASSUME NEW drops \in BOOLEAN, Runs(p), chan' = chan, sent' = sent, rcvd' = rcvd,
              status[p] = "ready",
              Moves(p, c, k, <<>>, RecvFrame(IF drops THEN "drop_dropped" ELSE "recv_got",
                                             a, k, msg.size, Cells(msg, HdrSize, w))),
              Wake(c, "read")
       PROVE  MeetInv(p, m)'
  <2>1. PICK h : h = RecvFrame(IF drops THEN "drop_dropped" ELSE "recv_got",
                               a, k, msg.size, Cells(msg, HdrSize, w))
    OBVIOUS
  <2>2. /\ h.pc \in {"recv_got", "drop_dropped"} /\ h.call = a /\ h.rb = k /\ h.size = msg.size
        /\ h.out = Cells(msg, HdrSize, w)
    BY <2>1, FrameParts
  <2>3. Len(h.out) = w
    BY <1>1, <1>6, <1>8, <2>2, CellsType
  <2>4. /\ Grounded(p, m)' /\ th'[p] = h /\ Held(p)' = HdrSize + Len(h.out)
        /\ \A u \in Threads : Done(u)' = Done(u)
        /\ \A u \in Threads \ {p} : th'[u] = th[u]
        /\ \A u \in Threads : \A call : Message(u, call)' = Message(u, call)
        /\ \A u, d : OutFile(u, d)' = OutFile(u, d)
    BY <1>1, <1>4, <1>5, <1>6, <1>10, <2>1, <2>2, LoopGround
  <2>5. status'[p] = "ready" /\ status'[m] = "ready"
    BY <1>3, <1>4, <1>10, WakesNone DEF Slots
  <2>6. files'[c][k] = Cells(msg, Held(p)', HdrSize + w - Held(p)')
    <3>1. HdrSize + w - (HdrSize + w) = 0 /\ HdrSize + w \in Nat
      BY <1>1, <1>8
    <3>2. files'[c][k] = <<>>
      BY <1>10 DEF Moves
    <3> QED
      BY <1>6, <2>3, <2>4, <3>1, <3>2, NoCells
  <2>7. Carries(c, k, p, msg, w)' /\ Integrity'
    <3>1. /\ \A d \in Chans, l \in BOOLEAN : d # c \/ l # k => files'[d][l] = files[d][l]
          /\ w \in 1..msg.size /\ Carries(c, k, p, msg, w)
      BY <1>3, <1>6, <1>7, <1>8, <1>10 DEF Moves
    <3>2. /\ th'[p].rb = k /\ th'[p].size = msg.size
          /\ Len(th'[p].out) <= w /\ th'[p].out = Cells(msg, HdrSize, Len(th'[p].out))
      BY <1>8, <2>2, <2>3, <2>4
    <3> QED
      BY <1>1, <1>4, <1>6, <1>10, <2>6, <3>1, <3>2, StillCarries
  <2>8. Draws(p, m)'
    <3>1. /\ th'[m] = f /\ f.call = b /\ b.c = c /\ f.bytes = w
          /\ th'[p].rb = k /\ th'[p].pc \in {"recv_got", "drop_dropped"} /\ Len(th'[p].out) = w
      BY <1>1, <1>2, <1>7, <2>2, <2>3, <2>4
    <3>2. OutFile(m, c)' = k /\ Message(m, b)' = msg /\ (Done(p) = Done(m))'
      BY <1>1, <1>2, <1>3, <2>4
    <3> QED
      BY <1>3, <2>5, <2>7, <3>1, <3>2 DEF Draws
  <2> QED
    BY <2>4, <2>7, <2>8 DEF MeetInv, Stage

<1>11. ASSUME status[p] = "ready" PROVE t = p /\ Runs(p)
  <2>1. t = m => FALSE
    BY <1>2, <1>3, <1>11, Urgent, Acts
  <2>2. t = p
    BY <1>1, <2>1
  <2>3. th[p].pc # "asleep"
    BY <1>2, <1>3
  <2> QED
    BY <1>1, <2>2, <2>3, Acts
<1>12. CASE g.pc \in {"recv_hdr", "drop_hdr"} /\ status[p] = "ready"
  <2>1. PICK drops \in BOOLEAN : drops <=> g.pc = "drop_hdr"
    OBVIOUS
  <2>2. /\ UNCHANGED <<chan, sent, rcvd>>
        /\ IF drops THEN DropHeader(p, a, k) ELSE RecvHeader(p, a, k)
    <3>1. th[p] = g /\ t = p /\ Runs(p)
      BY <1>2, <1>11, <1>12
    <3>2. CASE g.pc = "drop_hdr"
      <4>1. DropHeaderAgain(p)
        BY <1>1, <3>1, <3>2, Acts
      <4> QED
        BY <1>2, <1>3, <2>1, <3>2, <4>1 DEF DropHeaderAgain
    <3>3. CASE g.pc = "recv_hdr"
      <4>1. RecvHeaderAgain(p)
        BY <1>1, <3>1, <3>3, Acts
      <4> QED
        BY <1>2, <1>3, <2>1, <3>3, <4>1 DEF RecvHeaderAgain
    <3> QED
      BY <1>12, <3>2, <3>3
  <2>3. Held(p) = 0
    BY <1>2, <1>12 DEF Held, HdrPcs
  <2>4. files[c][k] = Cells(msg, 0, HdrSize + w)
    <3>1. HdrSize + w - 0 = HdrSize + w
      BY <1>1, <1>8
    <3> QED
      BY <1>8, <2>3, <3>1
  <2>5. 0 < w /\ w <= msg.size /\ HdrSize + w <= BufSize
    <3>1. HdrSize + w \in Nat /\ 0 \in Nat
      BY <1>1, <1>8
    <3>2. Len(files[c][k]) = HdrSize + w
      BY <1>6, <2>4, <3>1, CellsType
    <3> QED
      BY <1>4, <1>6, <1>8, <3>2 DEF Rings
  <2>6. /\ Moves(p, c, k, <<>>, RecvFrame(IF drops THEN "drop_dropped" ELSE "recv_got",
                                          a, k, msg.size, Cells(msg, HdrSize, w)))
        /\ Wake(c, "read")
    BY <1>1, <1>4, <1>5, <1>6, <1>8, <2>2, <2>4, <2>5, HeaderOut
  <2> QED
    BY <1>10, <1>11, <1>12, <2>2, <2>6
<1>13. CASE g.pc \in {"recv_loop", "drop_loop"} /\ status[p] = "ready"
  <2>1. PICK drops \in BOOLEAN : drops <=> g.pc = "drop_loop"
    OBVIOUS
  <2>2. PICK l, q, out : l = Len(g.out) /\ q = files[c][k] /\ out = g.out
    OBVIOUS
  <2>3. g.pc \notin HdrPcs /\ Held(p) = HdrSize + l
    BY <1>2, <1>13, <2>2 DEF Held, HdrPcs
  <2>4. g.size = msg.size /\ l <= w /\ out = Cells(msg, HdrSize, l) /\ l \in Nat
    BY <1>8, <1>9, <2>2, <2>3
  <2>5. q = Cells(msg, HdrSize + l, w - l)
    <3>1. HdrSize + w - (HdrSize + l) = w - l
      BY <1>1, <1>8, <2>4
    <3> QED
      BY <1>8, <2>2, <2>3, <3>1
  <2>6. l < w /\ w <= msg.size /\ w - l <= BufSize
    <3>1. w - l \in Nat /\ HdrSize + l \in Nat
      BY <1>1, <1>8, <2>4
    <3>2. Len(q) = w - l
      BY <1>6, <2>5, <3>1, CellsType
    <3>3. Len(q) # 0
      BY <1>3, <1>6, <1>13, <2>2, EmptySeq DEF Rings
    <3> QED
      BY <1>4, <1>6, <1>8, <2>2, <2>4, <3>2, <3>3 DEF Rings
  <2>7. /\ UNCHANGED <<chan, sent, rcvd>>
        /\ IF drops THEN DropLoop(p, a, k, msg.size, q, out) ELSE RecvLoop(p, a, k, msg.size, q, out)
    <3>1. th[p] = g /\ t = p /\ Runs(p)
      BY <1>2, <1>11, <1>13
    <3>2. CASE g.pc = "drop_loop"
      <4>1. DropResume(p)
        BY <1>1, <3>1, <3>2, Acts
      <4> QED
        BY <1>2, <1>3, <1>5, <2>1, <2>2, <2>4, <3>2, <4>1 DEF DropResume
    <3>3. CASE g.pc = "recv_loop"
      <4>1. RecvResume(p)
        BY <1>1, <3>1, <3>3, Acts
      <4> QED
        BY <1>2, <1>3, <1>5, <2>1, <2>2, <2>4, <3>3, <4>1 DEF RecvResume
    <3> QED
      BY <1>13, <3>2, <3>3
  <2>8. /\ Moves(p, c, k, <<>>, RecvFrame(IF drops THEN "drop_dropped" ELSE "recv_got",
                                          a, k, msg.size, Cells(msg, HdrSize, w)))
        /\ Wake(c, "read")
    BY <1>1, <1>4, <1>5, <1>6, <1>8, <2>4, <2>5, <2>6, <2>7, TakesOut
  <2> QED
    BY <1>10, <1>11, <1>13, <2>7, <2>8

<1>14. CASE g.pc \in {"recv_got", "drop_dropped"} /\ status[p] = "ready"
  <2>1. Len(g.out) = w /\ g.size = msg.size /\ g.out = Cells(msg, HdrSize, w) /\ Held(p) = HdrSize + w
    BY <1>2, <1>3, <1>7, <1>8, <1>14 DEF Held, HdrPcs
  <2>2. files[c][k] = <<>>
    <3>1. HdrSize + w - (HdrSize + w) = 0 /\ HdrSize + w \in Nat
      BY <1>1, <1>8
    <3> QED
      BY <1>6, <1>8, <2>1, <3>1, NoCells
  <2>3. /\ chan' = chan /\ sent' = sent
        /\ IF Complete(g) THEN Taken(p, g)
           ELSE /\ rcvd' = rcvd
                /\ IF g.pc = "drop_dropped" THEN DropWait(p, g, <<>>)
                                            ELSE RecvLoop(p, a, k, msg.size, <<>>, g.out)
    <3>1. th[p] = g /\ t = p /\ Runs(p)
      BY <1>2, <1>11, <1>14
    <3>2. CASE g.pc = "drop_dropped"
      <4>1. DropDropped(p)
        BY <1>1, <3>1, <3>2, Acts
      <4> QED
        BY <1>2, <1>3, <1>5, <2>2, <3>1, <3>2, <4>1 DEF DropDropped
    <3>3. CASE g.pc = "recv_got"
      <4>1. RecvGot(p)
        BY <1>1, <3>1, <3>3, Acts
      <4> QED
        BY <1>2, <1>3, <1>5, <2>1, <2>2, <3>1, <3>3, <4>1 DEF RecvGot
    <3> QED
      BY <1>14, <3>2, <3>3
  <2>4. CASE Complete(g)
    <3>1. w = b.n /\ g.out = Payload(msg)
      BY <1>6, <2>1, <2>4 DEF Complete, Payload
    <3>2. /\ rcvd' = Noted(rcvd, c, k, Payload(msg)) /\ ReturnHeard(p, a, Len(g.out), Heard(g.out))
          /\ Undisturbed /\ files' = files
      BY <1>2, <1>3, <1>5, <2>3, <2>4, <3>1 DEF Taken
    <3>3. Len(g.out) \in Nat /\ Heard(g.out) \in Int /\ a.op \in SyncPcs
      BY <1>4, <1>9, HeardType DEF SyncPcs
    <3>4. /\ Grounded(p, m)' /\ Alone(p) /\ Loose(p)' /\ status' = status
          /\ Done(p)' = Done(p) + 1 /\ \A u \in Threads \ {p} : Done(u)' = Done(u)
      BY <1>1, <1>4, <1>11, <1>14, <2>3, <3>2, <3>3, CallEnds
    <3>5. /\ Integrity' /\ Len(rcvd'[c][k]) = Len(sent[c][k])
          /\ \A d \in Chans, l \in BOOLEAN : d # c \/ l # k => rcvd'[d][l] = rcvd[d][l]
      BY <1>1, <1>4, <1>6, <1>8, <2>3, <3>2, OneRcvd
    <3>6. Quiet'
      BY <1>8, <2>2, <2>3, <3>2, <3>5 DEF Quiet, QuietFile
    <3>7. th'[m] = th[m] /\ Done(m)' = Done(m)
      BY <1>1, <3>4 DEF Alone, Same
    <3>8. Ahead(p, m)'
      BY <1>2, <1>3, <1>7, <3>1, <3>4, <3>6, <3>7 DEF Ahead
    <3> QED
      BY <3>4, <3>5, <3>8 DEF MeetInv, Stage
  <2>5. CASE ~Complete(g)
    <3>1. w < b.n
      BY <1>4, <1>6, <1>8, <2>1, <2>5 DEF Complete
    <3>2. blocked[c]["write"] = NoThread
      BY <1>3, <1>4, <1>14, Urgent DEF Slots
    <3>3. PICK h : h = IF g.pc = "drop_dropped" THEN [g EXCEPT !.pc = "drop_loop"]
                                                ELSE RecvFrame("recv_loop", a, k, msg.size, g.out)
      OBVIOUS
    <3>4. /\ h.pc \in {"recv_loop", "drop_loop"} /\ h.call = a /\ h.rb = k /\ h.size = msg.size
          /\ h.out = g.out
      <4>1. CASE g.pc = "drop_dropped"
        <5>1. g \in Frames
          BY <1>1, <1>2 DEF ThreadsOK
        <5> QED
          BY <1>2, <1>3, <2>1, <3>3, <4>1, <5>1 DEF Frames
      <4>2. CASE g.pc # "drop_dropped"
        BY <3>3, <4>2, FrameParts
      <4> QED
        BY <4>1, <4>2
    <3>5. Block(p, c, "write") /\ Moves(p, c, k, <<>>, h)
      <4>1. CASE g.pc = "drop_dropped"
        <5>1. Put(c, k, <<>>) /\ Block(p, c, "write") /\ Goto(p, h)
          BY <1>2, <1>3, <1>5, <2>3, <2>5, <3>2, <3>3, <4>1 DEF DropWait
        <5> QED
          BY <1>1, <1>4, <1>6, <5>1, PutMoves
      <4>2. CASE g.pc # "drop_dropped"
        <5>1. RecvLoop(p, a, k, msg.size, <<>>, g.out) /\ msg.size \in Nat /\ Len(g.out) <= msg.size
          BY <1>4, <1>6, <1>8, <2>1, <2>3, <2>5, <4>2
        <5>2. Block(p, a.c, "write") /\ Moves(p, a.c, k, <<>>, RecvFrame("recv_loop", a, k, msg.size, g.out))
          BY <1>1, <1>4, <1>6, <1>9, <5>1, LoopWaits
        <5> QED
          BY <1>5, <3>3, <4>2, <5>2
      <4> QED
        BY <4>1, <4>2
    <3>6. /\ Grounded(p, m)' /\ th'[p] = h /\ Held(p)' = HdrSize + Len(h.out)
          /\ \A u \in Threads : Done(u)' = Done(u)
          /\ \A u \in Threads \ {p} : th'[u] = th[u]
          /\ \A u \in Threads : \A call : Message(u, call)' = Message(u, call)
          /\ \A u, d : OutFile(u, d)' = OutFile(u, d)
      <4>1. h.pc \notin SendPcs
        BY <3>4 DEF SendPcs
      <4> QED
        BY <1>1, <1>4, <1>5, <1>6, <1>11, <1>14, <2>3, <3>2, <3>4, <3>5, <4>1, LoopGround
    <3>7. status'[p] = "sleeping" /\ status'[m] = "ready"
      BY <1>1, <1>3, <3>5 DEF Block, SchedOK
    <3>8. Carries(c, k, p, msg, w)' /\ Integrity'
      <4>1. /\ \A d \in Chans, l \in BOOLEAN : d # c \/ l # k => files'[d][l] = files[d][l]
            /\ w \in 1..msg.size /\ Carries(c, k, p, msg, w) /\ files'[c][k] = files[c][k]
        BY <1>3, <1>6, <1>7, <1>8, <2>2, <3>5 DEF Moves
      <4>2. files'[c][k] = Cells(msg, Held(p)', HdrSize + w - Held(p)')
        BY <1>8, <2>1, <3>4, <3>6, <4>1
      <4>3. /\ th'[p].rb = k /\ th'[p].size = msg.size
            /\ Len(th'[p].out) <= w /\ th'[p].out = Cells(msg, HdrSize, Len(th'[p].out))
        BY <1>8, <2>1, <3>4, <3>6
      <4> QED
        BY <1>1, <1>4, <1>6, <2>3, <2>5, <4>1, <4>2, <4>3, StillCarries
    <3>9. Draws(p, m)'
      <4>1. /\ th'[m] = f /\ f.call = b /\ b.c = c /\ f.bytes = w
            /\ th'[p].rb = k /\ th'[p].pc \in {"recv_loop", "drop_loop"} /\ Len(th'[p].out) = w
        BY <1>1, <1>2, <1>7, <2>1, <3>4, <3>6
      <4>2. OutFile(m, c)' = k /\ Message(m, b)' = msg /\ (Done(p) = Done(m))'
        BY <1>1, <1>2, <1>3, <3>6
      <4> QED
        BY <1>3, <3>1, <3>7, <3>8, <4>1, <4>2 DEF Draws
    <3> QED
      BY <3>6, <3>8, <3>9 DEF MeetInv, Stage
  <2> QED
    BY <2>4, <2>5
<1>15. CASE g.pc \in {"recv_loop", "drop_loop"} /\ status[p] = "sleeping"
  <2>1. Len(g.out) = w /\ w < b.n /\ Held(p) = HdrSize + w /\ g.pc \notin HdrPcs
    BY <1>2, <1>3, <1>7, <1>15 DEF Held, HdrPcs
  <2>2. t = m /\ Runs(m)
    <3>1. t = p => FALSE
      BY <1>1, <1>2, <1>15, Acts DEF Runs
    <3>2. t = m
      BY <1>1, <3>1
    <3> QED
      BY <1>1, <1>2, <1>3, <3>2, Acts
  <2>3. SendLoop(m, b, k, Cells(Message(m, b), HdrSize + w, HdrSize + w - (HdrSize + w)), w)
        /\ UNCHANGED <<chan, sent, rcvd>>
    <3>1. SendSent(m)
      <4>1. Step(m) /\ th[m].pc = "send_sent"
        BY <1>2, <1>3, <2>2
      <4> QED
        BY <1>1, <4>1, Acts
    <3>2. w # b.n
      BY <1>4, <1>8, <2>1
    <3>3. SendLoop(m, b, k, files[c][k], w) /\ UNCHANGED <<chan, sent, rcvd>>
      BY <1>2, <1>3, <1>7, <3>1, <3>2 DEF SendSent
    <3> QED
      BY <1>2, <1>8, <2>1, <3>3
  <2>4. HdrSize + w \in Nat /\ HdrSize + w - (HdrSize + w) <= BufSize /\ HdrSize + w - (HdrSize + w) # BufSize
        /\ HdrSize + w <= HdrSize + w
    BY <1>1, <1>8
  <2>5. \E x \in w + 1..b.n :
          /\ Moves(m, c, k, Cells(msg, HdrSize + w, HdrSize + x - (HdrSize + w)), SendFrame("send_sent", b, k, x))
          /\ Wake(c, "write")
    <3>1. /\ SendLoop(m, b, k, Cells(Message(m, b), HdrSize + w, HdrSize + w - (HdrSize + w)), w)
          /\ ~Closed(b.c) /\ TypeOK /\ ~Tsrb /\ m \in Threads /\ b \in Calls /\ k \in BOOLEAN
          /\ w \in Nat /\ w < b.n /\ HdrSize + w \in Nat /\ HdrSize + w <= HdrSize + w
          /\ HdrSize + w - (HdrSize + w) <= BufSize
      BY <1>1, <1>2, <1>4, <1>6, <1>8, <2>1, <2>3, <2>4
    <3>2. \/ \E x \in w + 1..b.n :
               /\ Moves(m, b.c, k, Cells(Message(m, b), HdrSize + w, HdrSize + x - (HdrSize + w)),
                        SendFrame("send_sent", b, k, x))
               /\ Wake(b.c, "write")
          \/ HdrSize + w - (HdrSize + w) = BufSize
      BY <3>1, PutsIn
    <3> QED
      BY <1>2, <2>4, <3>2
  <2>6. PICK x \in w + 1..b.n :
          /\ Moves(m, c, k, Cells(msg, HdrSize + w, HdrSize + x - (HdrSize + w)), SendFrame("send_sent", b, k, x))
          /\ Wake(c, "write")
    BY <2>5
  <2>7. PICK h : h = SendFrame("send_sent", b, k, x)
    OBVIOUS
  <2>8. h.pc = "send_sent" /\ h.call = b /\ h.rb = k /\ h.bytes = x
    BY <2>7, FrameParts
  <2>9. /\ Grounded(p, m)' /\ th'[m] = h
        /\ \A u \in Threads : Done(u)' = Done(u)
        /\ \A u \in Threads \ {m} : th'[u] = th[u] /\ Held(u)' = Held(u)
        /\ \A u \in Threads : \A call : Message(u, call)' = Message(u, call)
        /\ \A u, d : OutFile(u, d)' = OutFile(u, d)
    BY <1>1, <1>2, <1>4, <1>6, <2>2, <2>3, <2>6, <2>7, <2>8, LoopGround
  <2>10. status'[p] = "ready" /\ status'[m] = "ready"
    <3>1. th[p].pc # "asleep" /\ WaitSlot(p) = "write" /\ "write" \in Slots /\ th[p].call.c = c
      BY <1>2, <1>5, <1>15 DEF WaitSlot, SendPcs, Slots
    <3>2. status'[p] = "ready"
      BY <1>1, <1>4, <1>15, <2>6, <3>1, WakesHere
    <3>3. status'[m] = "ready"
      BY <1>1, <1>3, <1>4, <2>6, <3>1, WakesHere
    <3> QED
      BY <3>2, <3>3
  <2>11. x \in 1..msg.size /\ x \in Nat /\ w <= x /\ w < x
    BY <1>4, <1>6, <1>8
  <2>12. th'[p] = g /\ Held(p)' = HdrSize + w
    BY <1>1, <1>2, <2>1, <2>9
  <2>13. Carries(c, k, p, msg, x)' /\ Integrity'
    <3>1. /\ \A d \in Chans, l \in BOOLEAN : d # c \/ l # k => files'[d][l] = files[d][l]
          /\ Carries(c, k, p, msg, w) /\ files'[c][k] = Cells(msg, Held(p)', HdrSize + x - Held(p)')
      BY <1>3, <1>7, <2>6, <2>12 DEF Moves
    <3>2. /\ th'[p].rb = k /\ th'[p].size = msg.size
          /\ Len(th'[p].out) <= x /\ th'[p].out = Cells(msg, HdrSize, Len(th'[p].out))
      BY <1>3, <1>8, <2>1, <2>11, <2>12
    <3> QED
      BY <1>1, <1>4, <1>6, <2>3, <2>11, <3>1, <3>2, StillCarries
  <2>14. files'[c][k] # <<>>
    <3>1. HdrSize + x - (HdrSize + w) = x - w /\ x - w \in Nat /\ x - w # 0 /\ HdrSize + w \in Nat
      BY <1>1, <1>8, <2>11
    <3>2. files'[c][k] = Cells(msg, HdrSize + w, x - w)
      BY <2>6, <3>1 DEF Moves
    <3>3. Len(files'[c][k]) = x - w
      BY <1>6, <3>1, <3>2, CellsType
    <3> QED
      BY <3>1, <3>3, EmptySeq
  <2>15. Draws(p, m)'
    <3>1. /\ th'[m].call = b /\ th'[m].rb = k /\ th'[m].bytes = x /\ th'[m].pc = "send_sent"
          /\ th'[p].rb = k /\ th'[p].pc \in {"recv_hdr", "drop_hdr", "recv_loop", "drop_loop"}
      BY <1>3, <1>15, <2>8, <2>9, <2>12
    <3>2. OutFile(m, c)' = k /\ Message(m, b)' = msg /\ (Done(p) = Done(m))'
      BY <1>1, <1>2, <1>3, <2>9
    <3> QED
      BY <1>2, <2>10, <2>13, <2>14, <3>1, <3>2 DEF Draws
  <2> QED
    BY <2>9, <2>13, <2>15 DEF MeetInv, Stage
<1> QED
  BY <1>3, <1>12, <1>13, <1>14, <1>15

\* m takes what p sends.
LEMMA PoursKept ==
  ASSUME NEW p, NEW m, NEW turns, Scene(p, m, turns), NEW t \in Threads, Step(t), Pours(p, m)
  PROVE  MeetInv(p, m)'
<1>1. /\ TypeOK /\ FilesOK /\ HistoryOK /\ ThreadsOK /\ SchedOK /\ Integrity
      /\ p \in Threads /\ m \in Threads /\ p # m /\ \A u \in Threads : u = p \/ u = m
      /\ \A d \in Chans : ~Closed(d) /\ OutFile(p, d) \in BOOLEAN /\ InFile(m, d) = OutFile(p, d)
      /\ HdrSize < BufSize /\ ~Tsrb /\ HdrSize \in Nat \ {0} /\ BufSize \in Nat
  BY OnScene DEF Scene, MeetInv
<1>2. PICK f, g, a, b, c, k, msg, w, e :
         /\ f = th[p] /\ g = th[m] /\ a = f.call /\ b = g.call /\ c = a.c
         /\ k = OutFile(p, c) /\ msg = Message(p, a) /\ w = f.bytes /\ e = Held(m)
  OBVIOUS
<1>3. /\ Done(p) = Done(m)
      /\ g.pc \in {"recv_body", "recv_got"} /\ status[m] = "ready" /\ f.rb = k
      /\ Carries(c, k, m, msg, w)
      /\ \/ f.pc = "send_sent" /\ status[p] = "ready"
         \/ f.pc = "send_loop" /\ w < a.n /\ status[p] = "ready"
         \/ f.pc = "send_loop" /\ w < a.n /\ status[p] = "sleeping" /\ files[c][k] # <<>>
  BY <1>2 DEF Pours
<1>4. /\ a \in NextCalls(p) /\ a \in Calls /\ a.op = "send" /\ a.n \in Nat /\ c \in Chans
      /\ b \in NextCalls(m) /\ b \in Calls /\ b.op = "recv"
  <2>1. g.pc # "idle" /\ f.pc # "idle"
    BY <1>3
  <2>2. a \in NextCalls(p) /\ b \in NextCalls(m) /\ a \in Calls /\ b \in Calls
    BY <1>1, <1>2, <2>1, PlaceKinds
  <2>3. a.op = "send" /\ b.op = "recv"
    BY <1>1, <1>2, <1>3, PlaceKinds DEF SendPcs, RecvPcs
  <2> QED
    BY <1>2, <2>2, <2>3 DEF Calls
<1>5. b.c = c /\ (a.n = 0 <=> b.n = 0)
  BY <1>2, <1>3, <1>4, Partners DEF SyncPcs
<1>6. k \in BOOLEAN /\ msg \in Messages /\ msg.size = a.n /\ files[c][k] \in Rings
  BY <1>1, <1>2, <1>4, MessageType DEF FilesOK
<1>7. /\ \A d \in Chans, l \in BOOLEAN : d # c \/ l # k => QuietFile(d, l)
      /\ Len(sent[c][k]) = Len(rcvd[c][k]) + 1 /\ sent[c][k][Len(sent[c][k])] = msg
      /\ w \in 1..a.n /\ files[c][k] = Cells(msg, e, HdrSize + w - e)
      /\ g.pc \notin HdrPcs =>
           /\ g.rb = k /\ g.size = msg.size /\ Len(g.out) <= w /\ g.out = Cells(msg, HdrSize, Len(g.out))
  BY <1>2, <1>3, <1>6 DEF Carries
<1>8. /\ g.out \in Seq(CellSet) /\ Len(g.out) \in Nat /\ w \in Nat /\ w # 0 /\ w <= a.n
      /\ e = IF g.pc = "recv_body" THEN 0 ELSE HdrSize + Len(g.out)
  <2>1. g.out \in Seq(CellSet) /\ Len(g.out) \in Nat
    BY <1>1, <1>2, LenProperties DEF ThreadsOK, Frames
  <2>2. w \in Nat /\ w # 0 /\ w <= a.n
    BY <1>4, <1>7
  <2>3. e = IF g.pc = "recv_body" THEN 0 ELSE HdrSize + Len(g.out)
    BY <1>2, <1>3 DEF Held, HdrPcs
  <2> QED
    BY <2>1, <2>2, <2>3
<1>9. e \in Nat /\ e <= HdrSize + w /\ HdrSize + w - e \in Nat /\ HdrSize + w - e <= BufSize
  <2>1. e \in Nat /\ e <= HdrSize + w /\ HdrSize + w - e \in Nat
    <3>1. CASE g.pc = "recv_body"
      BY <1>1, <1>8, <3>1
    <3>2. CASE g.pc # "recv_body"
      <4>1. e = HdrSize + Len(g.out) /\ Len(g.out) <= w
        BY <1>3, <1>7, <1>8, <3>2 DEF HdrPcs
      <4> QED
        BY <1>1, <1>8, <4>1
    <3> QED
      BY <3>1, <3>2
  <2>2. Len(files[c][k]) = HdrSize + w - e
    BY <1>6, <1>7, <2>1, CellsType
  <2> QED
    BY <1>6, <2>1, <2>2 DEF Rings
<1>10. ASSUME status[p] = "ready" PROVE t = p /\ Runs(p)
  <2>1. t = m => FALSE
    BY <1>2, <1>3, <1>10, Urgent, Acts
  <2>2. t = p
    BY <1>1, <2>1
  <2>3. th[p].pc # "asleep"
    BY <1>2, <1>3
  <2> QED
    BY <1>1, <2>2, <2>3, Acts
\* More of the message goes in, or p sleeps on a full file.
<1>11. ASSUME status[p] = "ready", w < a.n, UNCHANGED <<chan, sent, rcvd>>,
              SendLoop(p, a, k, files[c][k], w)
       PROVE  MeetInv(p, m)'
  <2>1. Runs(p) /\ blocked[c]["read"] = NoThread
    BY <1>3, <1>4, <1>10, <1>11, Urgent DEF Slots
  <2>2. ASSUME NEW h, NEW x \in Nat, w <= x, x <= a.n,
               Moves(p, c, k, Cells(msg, e, HdrSize + x - e), h),
               h.call = a, h.rb = k, h.bytes = x,
               \/ h.pc = "send_sent" /\ Wake(c, "write")
               \/ h.pc = "send_loop" /\ Block(p, c, "read") /\ x = w /\ HdrSize + x - e = BufSize
        PROVE  MeetInv(p, m)'
    <3>1. /\ Grounded(p, m)' /\ th'[p] = h
          /\ \A u \in Threads : Done(u)' = Done(u)
          /\ \A u \in Threads \ {p} : th'[u] = th[u] /\ Held(u)' = Held(u)
          /\ \A u \in Threads : \A call : Message(u, call)' = Message(u, call)
          /\ \A u, d : OutFile(u, d)' = OutFile(u, d)
      <4>1. h.pc \in {"send_loop", "send_sent"} /\ h.pc \in SendPcs
        BY <2>2 DEF SendPcs
      <4> QED
        BY <1>1, <1>2, <1>4, <1>6, <1>11, <2>1, <2>2, <4>1, LoopGround
    <3>2. th'[m] = g /\ Held(m)' = e
      BY <1>1, <1>2, <3>1
    <3>3. Carries(c, k, m, msg, x)' /\ Integrity'
      <4>1. /\ \A d \in Chans, l \in BOOLEAN : d # c \/ l # k => files'[d][l] = files[d][l]
            /\ Carries(c, k, m, msg, w) /\ files'[c][k] = Cells(msg, Held(m)', HdrSize + x - Held(m)')
        BY <1>3, <2>2, <3>2 DEF Moves
      <4>2. x \in 1..msg.size
        BY <1>4, <1>6, <1>8, <2>2
      <4>3. th'[m].pc \notin HdrPcs =>
              /\ th'[m].rb = k /\ th'[m].size = msg.size
              /\ Len(th'[m].out) <= x /\ th'[m].out = Cells(msg, HdrSize, Len(th'[m].out))
        <5>1. ASSUME g.pc \notin HdrPcs
              PROVE  g.rb = k /\ g.size = msg.size /\ Len(g.out) <= x /\ g.out = Cells(msg, HdrSize, Len(g.out))
          <6>1. /\ g.rb = k /\ g.size = msg.size /\ Len(g.out) <= w
                /\ g.out = Cells(msg, HdrSize, Len(g.out))
            BY <1>7, <5>1
          <6>2. Len(g.out) <= x
            BY <1>8, <2>2, <6>1
          <6> QED
            BY <6>1, <6>2
        <5> QED
          BY <3>2, <5>1
      <4>4. sent' = sent /\ rcvd' = rcvd
        BY <1>11
      <4> QED
        BY <1>1, <1>4, <1>6, <4>1, <4>2, <4>3, <4>4, StillCarries
    <3>4. /\ th'[p].call = a /\ th'[p].rb = k /\ th'[p].bytes = x /\ th'[p].pc = h.pc
          /\ th'[m].pc \in {"recv_body", "recv_got"}
          /\ OutFile(p, c)' = k /\ Message(p, a)' = msg /\ (Done(p) = Done(m))'
      BY <1>1, <1>2, <1>3, <2>2, <3>1, <3>2
    <3>5. status'[m] = "ready" /\ \/ h.pc = "send_sent" /\ status'[p] = "ready"
                                  \/ /\ h.pc = "send_loop" /\ x < a.n /\ status'[p] = "sleeping"
                                     /\ files'[c][k] # <<>>
      <4>1. CASE h.pc = "send_sent" /\ Wake(c, "write")
        BY <1>3, <1>4, <1>11, <4>1, WakesNone DEF Slots
      <4>2. CASE h.pc = "send_loop" /\ Block(p, c, "read") /\ x = w /\ HdrSize + x - e = BufSize
        <5>1. status'[p] = "sleeping" /\ status'[m] = "ready"
          BY <1>1, <1>3, <4>2 DEF Block, SchedOK
        <5>2. files'[c][k] = Cells(msg, e, BufSize) /\ BufSize # 0
          BY <1>1, <2>2, <4>2 DEF Moves
        <5>3. Len(files'[c][k]) = BufSize
          BY <1>1, <1>6, <1>9, <5>2, CellsType
        <5> QED
          BY <1>11, <4>2, <5>1, <5>2, <5>3, EmptySeq
      <4> QED
        BY <2>2, <4>1, <4>2
    <3>6. Pours(p, m)'
      BY <1>2, <3>3, <3>4, <3>5 DEF Pours
    <3> QED
      BY <3>1, <3>3, <3>6 DEF MeetInv, Stage
  <2>3. \/ \E x \in w + 1..a.n :
             /\ Moves(p, c, k, Cells(msg, e, HdrSize + x - e), SendFrame("send_sent", a, k, x))
             /\ Wake(c, "write")
        \/ /\ HdrSize + w - e = BufSize
           /\ Moves(p, c, k, Cells(msg, e, HdrSize + w - e), SendFrame("send_loop", a, k, w))
           /\ Block(p, c, "read")
    <3>1. /\ SendLoop(p, a, k, Cells(Message(p, a), e, HdrSize + w - e), w) /\ ~Closed(a.c)
          /\ TypeOK /\ ~Tsrb /\ p \in Threads /\ a \in Calls /\ k \in BOOLEAN /\ w \in Nat /\ w < a.n
          /\ e \in Nat /\ e <= HdrSize + w /\ HdrSize + w - e <= BufSize
      BY <1>1, <1>2, <1>4, <1>6, <1>7, <1>8, <1>9, <1>11
    <3>2. \/ \E x \in w + 1..a.n :
               /\ Moves(p, a.c, k, Cells(Message(p, a), e, HdrSize + x - e), SendFrame("send_sent", a, k, x))
               /\ Wake(a.c, "write")
          \/ /\ HdrSize + w - e = BufSize
             /\ Moves(p, a.c, k, Cells(Message(p, a), e, HdrSize + w - e), SendFrame("send_loop", a, k, w))
             /\ Block(p, a.c, "read")
      BY <3>1, PutsIn
    <3> QED
      BY <1>2, <3>2
  <2>4. CASE \E x \in w + 1..a.n :
               /\ Moves(p, c, k, Cells(msg, e, HdrSize + x - e), SendFrame("send_sent", a, k, x))
               /\ Wake(c, "write")
    <3>1. PICK x \in w + 1..a.n :
                 /\ Moves(p, c, k, Cells(msg, e, HdrSize + x - e), SendFrame("send_sent", a, k, x))
                 /\ Wake(c, "write")
      BY <2>4
    <3>2. PICK h : h = SendFrame("send_sent", a, k, x)
      OBVIOUS
    <3>3. h.pc = "send_sent" /\ h.call = a /\ h.rb = k /\ h.bytes = x
      BY <3>2, FrameParts
    <3>4. x \in Nat /\ w <= x /\ x <= a.n
      BY <1>4, <1>8
    <3> QED
      BY <2>2, <3>1, <3>2, <3>3, <3>4
  <2>5. CASE /\ HdrSize + w - e = BufSize
             /\ Moves(p, c, k, Cells(msg, e, HdrSize + w - e), SendFrame("send_loop", a, k, w))
             /\ Block(p, c, "read")
    <3>1. PICK h : h = SendFrame("send_loop", a, k, w)
      OBVIOUS
    <3>2. h.pc = "send_loop" /\ h.call = a /\ h.rb = k /\ h.bytes = w
      BY <3>1, FrameParts
    <3>3. w <= w
      BY <1>8
    <3> QED
      BY <1>8, <2>2, <2>5, <3>1, <3>2, <3>3
  <2> QED
    BY <2>3, <2>4, <2>5
<1>12. CASE f.pc = "send_sent" /\ status[p] = "ready"
  <2>1. SendSent(p)
    <3>1. Step(p) /\ th[p].pc = "send_sent"
      BY <1>2, <1>10, <1>12
    <3> QED
      BY <1>1, <3>1, Acts
  <2>2. CASE w = a.n
    <3>1. ReturnHeard(p, a, w, 0) /\ Undisturbed /\ UNCHANGED <<chan, files, sent, rcvd>>
      BY <1>2, <2>1, <2>2 DEF SendSent, Return
    <3>2. /\ Grounded(p, m)' /\ Alone(p) /\ Loose(p)' /\ status' = status
          /\ Done(p)' = Done(p) + 1 /\ \A u \in Threads \ {p} : Done(u)' = Done(u)
      <4>1. a.op \in SyncPcs /\ 0 \in Int /\ Runs(p)
        BY <1>4, <1>10, <1>12 DEF SyncPcs
      <4> QED
        BY <1>1, <1>4, <1>8, <3>1, <4>1, CallEnds
    <3>3. th'[m] = g /\ Held(m)' = Held(m) /\ Done(m)' = Done(m)
      BY <1>1, <1>2, <3>2 DEF Alone, Same, Held
    <3>4. Carries(c, k, m, msg, w)' /\ Integrity'
      <4>1. files' = files /\ sent' = sent /\ rcvd' = rcvd /\ th'[m] = th[m]
        BY <1>2, <3>1, <3>3
      <4> QED
        BY <1>1, <1>3, <3>3, <4>1 DEF Carries, QuietFile, Integrity
    <3>5. InFile(m, c)' = k
      BY <1>1, <1>2, <1>4, <3>1 DEF InFile
    <3>6. /\ th'[m].call = b /\ b.c = c /\ b.n # 0 /\ sent'[c][k][Len(sent'[c][k])] = msg /\ msg.size = w
      BY <1>2, <1>4, <1>5, <1>6, <1>7, <1>8, <2>2, <3>1, <3>3
    <3>7. Ahead(p, m)'
      BY <1>3, <3>2, <3>3, <3>4, <3>5, <3>6 DEF Ahead
    <3> QED
      BY <3>2, <3>4, <3>7 DEF MeetInv, Stage
  <2>3. CASE w # a.n
    <3>1. SendLoop(p, a, k, files[c][k], w) /\ UNCHANGED <<chan, sent, rcvd>>
      BY <1>2, <1>3, <2>1, <2>3 DEF SendSent
    <3>2. w < a.n
      BY <1>4, <1>8, <2>3
    <3> QED
      BY <1>11, <1>12, <3>1, <3>2
  <2> QED
    BY <2>2, <2>3
<1>13. CASE f.pc = "send_loop" /\ w < a.n /\ status[p] = "ready"
  <2>1. SendResume(p)
    <3>1. Step(p) /\ th[p].pc = "send_loop"
      BY <1>2, <1>10, <1>13
    <3> QED
      BY <1>1, <3>1, Acts
  <2>2. SendLoop(p, a, k, files[c][k], w) /\ UNCHANGED <<chan, sent, rcvd>>
    BY <1>2, <1>3, <2>1 DEF SendResume
  <2> QED
    BY <1>11, <1>13, <2>2
<1>14. CASE f.pc = "send_loop" /\ w < a.n /\ status[p] = "sleeping" /\ files[c][k] # <<>>
  <2>1. t = m /\ Runs(m)
    <3>1. t = p => FALSE
      BY <1>1, <1>2, <1>14, Acts DEF Runs
    <3>2. t = m
      BY <1>1, <3>1
    <3> QED
      BY <1>1, <1>2, <1>3, <3>2, Acts
  <2>2. e < HdrSize + w
    <3>1. e # HdrSize + w
      <4>1. HdrSize + w - e = 0 => files[c][k] = <<>>
        BY <1>6, <1>7, <1>9, NoCells
      <4> QED
        BY <1>1, <1>8, <1>9, <1>14, <4>1
    <3> QED
      BY <1>1, <1>8, <1>9, <3>1
  <2>3. /\ UNCHANGED <<chan, sent, rcvd>>
        /\ Moves(m, c, k, <<>>, RecvFrame("recv_got", b, k, msg.size, Cells(msg, HdrSize, w)))
        /\ Wake(c, "read")
    <3>0. PICK drops \in BOOLEAN : ~drops
      OBVIOUS
    <3>1. CASE g.pc = "recv_body"
      <4>1. RecvHeader(m, b, k) /\ UNCHANGED <<chan, sent, rcvd>>
        <5>1. b.n # 0
          BY <1>5, <1>8, <1>4
        <5>2. th[m].pc \in Bodies /\ Step(m) /\ th[m].call = b
          BY <1>2, <2>1, <3>1 DEF Bodies
        <5>3. /\ chan' = chan /\ sent' = sent /\ rcvd' = rcvd
              /\ RecvHeader(m, b, InFile(m, b.c))
          BY <1>1, <1>4, <5>1, <5>2, BodyDoes
        <5> QED
          BY <1>1, <1>2, <1>4, <1>5, <5>3
      <4>2. files[c][k] = Cells(msg, 0, HdrSize + w) /\ 0 < w /\ HdrSize + w <= BufSize
        <5>1. e = 0 /\ HdrSize + w - 0 = HdrSize + w /\ 0 < w
          BY <1>1, <1>8, <3>1
        <5> QED
          BY <1>7, <1>9, <5>1
      <4>3. /\ Moves(m, b.c, k, <<>>, RecvFrame(IF drops THEN "drop_dropped" ELSE "recv_got",
                                               b, k, msg.size, Cells(msg, HdrSize, w)))
            /\ Wake(b.c, "read")
        <5>1. /\ IF drops THEN DropHeader(m, b, k) ELSE RecvHeader(m, b, k)
              /\ files[b.c][k] = Cells(msg, 0, HdrSize + w) /\ ~Closed(b.c) /\ w <= msg.size
          BY <1>1, <1>4, <1>5, <1>6, <1>8, <3>0, <4>1, <4>2
        <5> QED
          BY <1>1, <1>4, <1>6, <1>8, <4>2, <5>1, HeaderOut
      <4> QED
        BY <1>5, <3>0, <4>1, <4>3
    <3>2. CASE g.pc = "recv_got"
      <4>1. PICK l, q, out : l = Len(g.out) /\ q = files[c][k] /\ out = g.out
        OBVIOUS
      <4>2. /\ e = HdrSize + l /\ g.rb = k /\ g.size = msg.size /\ l <= w /\ l \in Nat
            /\ out = Cells(msg, HdrSize, l)
        BY <1>7, <1>8, <3>2, <4>1 DEF HdrPcs
      <4>3. l < w /\ q = Cells(msg, HdrSize + l, w - l) /\ w - l <= BufSize
        <5>1. HdrSize + w - e = w - l /\ l < w
          BY <1>1, <1>8, <2>2, <4>2
        <5> QED
          BY <1>7, <1>9, <4>1, <4>2, <5>1
      <4>4. ~Complete(g)
        <5>1. l # msg.size
          BY <1>4, <1>6, <1>8, <4>2, <4>3
        <5> QED
          BY <4>1, <4>2, <5>1 DEF Complete
      <4>5. RecvLoop(m, b, k, msg.size, q, out) /\ UNCHANGED <<chan, sent, rcvd>>
        <5>1. Step(m) /\ th[m].pc = "recv_got"
          BY <1>2, <2>1, <3>2
        <5>2. RecvGot(m)
          BY <1>1, <5>1, Acts
        <5> QED
          BY <1>2, <1>5, <4>1, <4>2, <4>4, <5>2 DEF RecvGot
      <4>6. /\ Moves(m, b.c, k, <<>>, RecvFrame(IF drops THEN "drop_dropped" ELSE "recv_got",
                                               b, k, msg.size, Cells(msg, HdrSize, w)))
            /\ Wake(b.c, "read")
        <5>1. /\ IF drops THEN DropLoop(m, b, k, msg.size, q, out)
                          ELSE RecvLoop(m, b, k, msg.size, q, out)
              /\ ~Closed(b.c) /\ w <= msg.size
          BY <1>1, <1>4, <1>5, <1>6, <1>8, <3>0, <4>5
        <5> QED
          BY <1>1, <1>4, <1>6, <1>8, <4>2, <4>3, <5>1, TakesOut
      <4> QED
        BY <1>5, <3>0, <4>5, <4>6
    <3> QED
      BY <1>3, <3>1, <3>2
  <2>4. PICK h : h = RecvFrame("recv_got", b, k, msg.size, Cells(msg, HdrSize, w))
    OBVIOUS
  <2>5. /\ h.pc = "recv_got" /\ h.call = b /\ h.rb = k /\ h.size = msg.size
        /\ h.out = Cells(msg, HdrSize, w)
    BY <2>4, FrameParts
  <2>6. Len(h.out) = w
    BY <1>1, <1>6, <1>8, <2>5, CellsType
  <2>7. /\ Grounded(p, m)' /\ th'[m] = h /\ Held(m)' = HdrSize + Len(h.out)
        /\ \A u \in Threads : Done(u)' = Done(u)
        /\ \A u \in Threads \ {m} : th'[u] = th[u]
        /\ \A u \in Threads : \A call : Message(u, call)' = Message(u, call)
        /\ \A u, d : OutFile(u, d)' = OutFile(u, d)
    BY <1>1, <1>4, <1>5, <1>6, <2>1, <2>3, <2>4, <2>5, LoopGround
  <2>8. status'[p] = "ready" /\ status'[m] = "ready"
    <3>1. th[p].pc # "asleep" /\ WaitSlot(p) = "read" /\ "read" \in Slots /\ th[p].call.c = c
      BY <1>2, <1>14 DEF WaitSlot, SendPcs, Slots
    <3>2. status'[p] = "ready"
      BY <1>1, <1>4, <1>14, <2>3, <3>1, WakesHere
    <3>3. status'[m] = "ready"
      BY <1>1, <1>3, <1>4, <2>3, <3>1, WakesHere
    <3> QED
      BY <3>2, <3>3
  <2>9. Carries(c, k, m, msg, w)' /\ Integrity'
    <3>1. /\ \A d \in Chans, l \in BOOLEAN : d # c \/ l # k => files'[d][l] = files[d][l]
          /\ w \in 1..msg.size /\ files'[c][k] = <<>>
      BY <1>6, <1>7, <2>3 DEF Moves
    <3>2. files'[c][k] = Cells(msg, Held(m)', HdrSize + w - Held(m)')
      <4>1. HdrSize + w - (HdrSize + w) = 0 /\ HdrSize + w \in Nat
        BY <1>1, <1>8
      <4> QED
        BY <1>6, <2>6, <2>7, <3>1, <4>1, NoCells
    <3>3. /\ th'[m].rb = k /\ th'[m].size = msg.size
          /\ Len(th'[m].out) <= w /\ th'[m].out = Cells(msg, HdrSize, Len(th'[m].out))
      BY <1>8, <2>5, <2>6, <2>7
    <3> QED
      BY <1>1, <1>3, <1>4, <1>6, <2>3, <3>1, <3>2, <3>3, StillCarries
  <2>10. Pours(p, m)'
    <3>1. /\ th'[p] = f /\ f.call = a /\ a.c = c /\ f.rb = k /\ f.bytes = w
          /\ th'[m].pc \in {"recv_body", "recv_got"}
      BY <1>1, <1>2, <1>3, <2>5, <2>7
    <3>2. OutFile(p, c)' = k /\ Message(p, a)' = msg /\ (Done(p) = Done(m))'
      BY <1>1, <1>2, <1>3, <2>7
    <3> QED
      BY <1>14, <2>8, <2>9, <3>1, <3>2 DEF Pours
  <2> QED
    BY <2>7, <2>9, <2>10 DEF MeetInv, Stage
<1> QED
  BY <1>3, <1>12, <1>13, <1>14

\* After a message p does not wait for a reader where m still takes it.
LEMMA Unwaited ==
  ASSUME NEW p, NEW m, NEW turns, Scene(p, m, turns), Done(p) = Done(m) + 1,
         NEW a \in NextCalls(p), NEW b \in NextCalls(m), a.op = "send", b.op = "recv", b.n # 0
  PROVE  a.c # b.c
<1>1. p \in Threads /\ m \in Threads /\ p # m /\ \A u \in Threads : u = p \/ u = m
  BY OnScene
<1>2. PICK i \in Nat, j \in Nat : i = Made(ret[m]) + 1 /\ j = Made(ret[p]) + 1
  <2>1. Made(ret[m]) \in Nat /\ Made(ret[p]) \in Nat
    BY <1>1, OnScene, MadeType DEF ThreadsOK
  <2> QED
    BY <2>1
<1>3. j = i + 1
  <2>1. Made(ret[p]) = Made(ret[m]) + 1
    BY DEF Done, Made
  <2> QED
    BY <1>2, <2>1
<1>4. /\ Plays(p, p, ret[p], a, turns[j]) /\ Plays(p, m, ret[m], b, turns[i])
      /\ Made(ret[p]) < Len(turns) /\ Made(ret[m]) < Len(turns)
  BY <1>1, <1>2, CallKinds DEF SyncPcs
<1>5. /\ turns \in Seq(Encounters) /\ Len(turns) \in Nat /\ i \in 1..Len(turns) /\ j \in 1..Len(turns)
      /\ j > 1 /\ j - 1 = i /\ i >= 1
  <2>1. turns \in Seq(Encounters) /\ Len(turns) \in Nat
    BY LenProperties DEF Scene, Meeting
  <2>2. Made(ret[m]) \in Nat /\ Made(ret[p]) \in Nat
    BY <1>1, OnScene, MadeType DEF ThreadsOK
  <2> QED
    BY <1>2, <1>3, <1>4, <2>1, <2>2
<1>6. turns[i] \in Encounters /\ turns[j] \in Encounters
  BY <1>5, ElementOfSeq
<1>7. turns[j].from = p /\ turns[j].c = a.c
  BY <1>4 DEF Plays
<1>8. turns[i].from = p /\ turns[i].data /\ turns[i].c = b.c
  BY <1>1, <1>4, <1>6 DEF Plays, Encounters
<1>9. Unhurried(p, turns)
  BY DEF Scene, Meeting
<1>10. turns[j].c # turns[i].c
  BY <1>5, <1>7, <1>8, <1>9 DEF Unhurried
<1> QED
  BY <1>7, <1>8, <1>10

\* p is through: m returns from the meeting.
LEMMA AheadKept ==
  ASSUME NEW p, NEW m, NEW turns, Scene(p, m, turns), NEW t \in Threads, Step(t), Ahead(p, m),
         th[t].pc \notin RestPcs, th[t].pc \notin SyncPcs
  PROVE  MeetInv(p, m)'
<1>1. /\ TypeOK /\ FilesOK /\ HistoryOK /\ ThreadsOK /\ SchedOK /\ Integrity
      /\ p \in Threads /\ m \in Threads /\ p # m /\ \A u \in Threads : u = p \/ u = m
      /\ \A d \in Chans : ~Closed(d) /\ InFile(m, d) \in BOOLEAN
      /\ HdrSize < BufSize /\ HdrSize \in Nat \ {0} /\ BufSize \in Nat
  BY OnScene DEF Scene, MeetInv
<1>2. PICK f, b, c, k, msg, e :
         /\ f = th[m] /\ b = f.call /\ c = b.c /\ k = InFile(m, c)
         /\ msg = sent[c][k][Len(sent[c][k])] /\ e = Held(m)
  OBVIOUS
<1>3. /\ Done(p) = Done(m) + 1 /\ status[m] = "ready" /\ (Loose(p) \/ Asks(p))
      /\ \/ f.pc \in Bodies /\ b.n = 0 /\ Quiet
         \/ f.pc = "send_sent" /\ f.bytes = b.n /\ Quiet
         \/ f.pc \in {"recv_body", "recv_got"} /\ b.n # 0 /\ Carries(c, k, m, msg, msg.size)
  BY <1>2 DEF Ahead
<1>4. t = m /\ Runs(m)
  <2>1. t = p => FALSE
    BY <1>3, Acts DEF Loose, Asks, Bodies, RestPcs, SyncPcs, Runs
  <2>2. t = m
    BY <1>1, <2>1
  <2> QED
    BY <1>1, <1>2, <1>3, <2>2, Acts DEF Bodies
<1>5. /\ b \in NextCalls(m) /\ b \in Calls /\ b.op \in SyncPcs /\ b.op # "drop" /\ c \in Chans
      /\ f.pc = "send_sent" => b.op = "send"
      /\ f.pc \in {"recv_body", "recv_got"} => b.op = "recv"
  <2>1. f.pc # "idle"
    BY <1>3 DEF Bodies
  <2>2. /\ b \in NextCalls(m) /\ b \in Calls
        /\ f.pc \in SendPcs <=> b.op = "send"
        /\ f.pc \in RecvPcs <=> b.op = "recv"
        /\ f.pc \in DropPcs <=> b.op = "drop"
    BY <1>1, <1>2, <2>1, PlaceKinds
  <2>3. b.op # "drop"
    BY <1>1, <2>2, DropsOwn
  <2> QED
    BY <1>2, <1>3, <2>2, <2>3 DEF Bodies, SyncPcs, SendPcs, RecvPcs, DropPcs, Calls
\* The call is over and nothing is left.
<1>6. ASSUME NEW n \in Nat, NEW heard \in Int, ReturnHeard(m, b, n, heard), Undisturbed, chan' = chan,
             Quiet', Integrity'
      PROVE  MeetInv(p, m)'
  <2>1. /\ Grounded(p, m)' /\ Loose(m)' /\ ~Asks(m)'
        /\ Done(m)' = Done(m) + 1
        /\ \A u \in Threads \ {m} : Done(u)' = Done(u) /\ (Loose(u)' <=> Loose(u)) /\ (Asks(u)' <=> Asks(u))
    BY <1>1, <1>4, <1>5, <1>6, CallEnds
  <2>2. Apart(p, m)'
    BY <1>1, <1>3, <1>6, <2>1 DEF Apart
  <2> QED
    BY <1>6, <2>1, <2>2 DEF MeetInv, Stage
<1>7. Quiet /\ UNCHANGED <<files, sent, rcvd>> => Quiet' /\ Integrity'
  BY <1>1 DEF Quiet, QuietFile, Integrity
<1>8. CASE f.pc \in Bodies /\ b.n = 0 /\ Quiet
  <2>1. /\ ReturnHeard(m, b, 0, 0) /\ Undisturbed /\ UNCHANGED <<chan, files, sent, rcvd>>
    BY <1>1, <1>2, <1>4, <1>5, <1>8, BodyDoes
  <2> QED
    BY <1>6, <1>7, <1>8, <2>1
<1>9. CASE f.pc = "send_sent" /\ f.bytes = b.n /\ Quiet
  <2>1. SendSent(m)
    <3>1. Step(m) /\ th[m].pc = "send_sent"
      BY <1>2, <1>4, <1>9
    <3> QED
      BY <1>1, <3>1, Acts
  <2>2. ReturnHeard(m, b, b.n, 0) /\ Undisturbed /\ UNCHANGED <<chan, files, sent, rcvd>>
    BY <1>2, <1>9, <2>1 DEF SendSent, Return
  <2>3. b.n \in Nat
    BY <1>5 DEF Calls
  <2> QED
    BY <1>6, <1>7, <1>9, <2>2, <2>3
<1>10. CASE f.pc \in {"recv_body", "recv_got"} /\ b.n # 0 /\ Carries(c, k, m, msg, msg.size)
  <2>1. PICK w : w = msg.size
    OBVIOUS
  <2>2. /\ k \in BOOLEAN /\ sent[c][k] \in Seq(Messages) /\ files[c][k] \in Rings
        /\ Len(rcvd[c][k]) \in Nat
    BY <1>1, <1>2, <1>5, LenProperties DEF HistoryOK, FilesOK
  <2>3. /\ \A d \in Chans, l \in BOOLEAN : d # c \/ l # k => QuietFile(d, l)
        /\ Len(sent[c][k]) = Len(rcvd[c][k]) + 1 /\ sent[c][k][Len(sent[c][k])] = msg
        /\ w \in 1..msg.size /\ files[c][k] = Cells(msg, e, HdrSize + w - e)
        /\ f.pc \notin HdrPcs =>
             /\ f.rb = k /\ f.size = w /\ Len(f.out) <= w /\ f.out = Cells(msg, HdrSize, Len(f.out))
    BY <1>2, <1>10, <2>1 DEF Carries
  <2>4. msg \in Messages /\ w \in Nat /\ w # 0 /\ w <= msg.size
    <3>1. Len(sent[c][k]) \in 1..Len(sent[c][k])
      BY <2>2, <2>3
    <3>2. msg \in Messages
      BY <2>2, <2>3, <3>1, ElementOfSeq
    <3>3. msg.size \in Nat
      BY <3>2 DEF Messages
    <3> QED
      BY <2>1, <2>3, <3>2, <3>3
  <2>5. b.op = "recv"
    BY <1>5, <1>10
  <2>6. ASSUME f.pc = "recv_got"
        PROVE  /\ f.out \in Seq(CellSet) /\ Len(f.out) \in Nat /\ e = HdrSize + Len(f.out)
               /\ f.rb = k /\ f.size = w /\ Len(f.out) <= w /\ f.out = Cells(msg, HdrSize, Len(f.out))
               /\ files[c][k] = Cells(msg, HdrSize + Len(f.out), w - Len(f.out))
    <3>1. f.out \in Seq(CellSet) /\ Len(f.out) \in Nat
      BY <1>1, <1>2, LenProperties DEF ThreadsOK, Frames
    <3>2. f.pc \notin HdrPcs /\ e = HdrSize + Len(f.out)
      BY <1>2, <2>6 DEF Held, HdrPcs
    <3>3. HdrSize + w - e = w - Len(f.out)
      BY <1>1, <2>4, <3>1, <3>2
    <3> QED
      BY <2>3, <3>1, <3>2, <3>3
  <2>7. CASE f.pc = "recv_got" /\ Complete(f)
    <3>1. Len(f.out) = w /\ f.out = Payload(msg)
      BY <2>1, <2>6, <2>7 DEF Complete, Payload
    <3>2. files[c][k] = <<>>
      <4>1. w - w = 0 /\ HdrSize + w \in Nat
        BY <1>1, <2>4
      <4> QED
        BY <2>4, <2>6, <2>7, <3>1, <4>1, NoCells
    <3>3. Taken(m, f) /\ chan' = chan /\ sent' = sent
      <4>1. RecvGot(m)
        <5>1. Step(m) /\ th[m].pc = "recv_got"
          BY <1>2, <1>4, <2>7
        <5> QED
          BY <1>1, <5>1, Acts
      <4> QED
        BY <1>2, <2>7, <4>1 DEF RecvGot
    <3>4. /\ rcvd' = Noted(rcvd, c, k, Payload(msg)) /\ ReturnHeard(m, b, Len(f.out), Heard(f.out))
          /\ Undisturbed /\ files' = files
      BY <1>2, <2>6, <2>7, <3>1, <3>3 DEF Taken
    <3>5. Heard(f.out) \in Int
      BY <2>6, <2>7, HeardType
    <3>6. /\ Integrity' /\ Len(rcvd'[c][k]) = Len(sent[c][k])
          /\ \A d \in Chans, l \in BOOLEAN : d # c \/ l # k => rcvd'[d][l] = rcvd[d][l]
      BY <1>1, <1>5, <2>2, <2>3, <2>4, <3>3, <3>4, OneRcvd
    <3>7. Quiet'
      BY <2>3, <3>2, <3>3, <3>4, <3>6 DEF Quiet, QuietFile
    <3> QED
      BY <1>6, <2>6, <2>7, <3>3, <3>4, <3>5, <3>6, <3>7
  <2>8. CASE ~(f.pc = "recv_got" /\ Complete(f))
    <3>1. /\ UNCHANGED <<chan, sent, rcvd>>
          /\ Moves(m, c, k, <<>>, RecvFrame("recv_got", b, k, w, Cells(msg, HdrSize, w)))
          /\ Wake(c, "read")
      <4>0. PICK drops \in BOOLEAN : ~drops
        OBVIOUS
      <4>1. CASE f.pc = "recv_body"
        <5>1. RecvHeader(m, b, k) /\ UNCHANGED <<chan, sent, rcvd>>
          <6>1. th[m].pc \in Bodies /\ Step(m) /\ th[m].call = b
            BY <1>2, <1>4, <4>1 DEF Bodies
          <6> QED
            BY <1>1, <1>2, <1>10, <2>5, <6>1, BodyDoes
        <5>2. files[c][k] = Cells(msg, 0, HdrSize + w) /\ 0 < w /\ HdrSize + w <= BufSize
          <6>1. e = 0 /\ HdrSize + w - 0 = HdrSize + w /\ 0 < w /\ HdrSize + w \in Nat /\ 0 \in Nat
            BY <1>1, <1>2, <2>4, <4>1 DEF Held, HdrPcs
          <6>2. files[c][k] = Cells(msg, 0, HdrSize + w)
            BY <2>3, <6>1
          <6>3. Len(files[c][k]) = HdrSize + w
            BY <2>4, <6>1, <6>2, CellsType
          <6> QED
            BY <2>2, <6>1, <6>2, <6>3 DEF Rings
        <5>3. /\ Moves(m, b.c, k, <<>>, RecvFrame(IF drops THEN "drop_dropped" ELSE "recv_got",
                                                 b, k, msg.size, Cells(msg, HdrSize, w)))
              /\ Wake(b.c, "read")
          <6>1. /\ IF drops THEN DropHeader(m, b, k) ELSE RecvHeader(m, b, k)
                /\ files[b.c][k] = Cells(msg, 0, HdrSize + w) /\ ~Closed(b.c)
            BY <1>1, <1>2, <1>5, <4>0, <5>1, <5>2
          <6> QED
            BY <1>1, <1>5, <2>2, <2>4, <5>2, <6>1, HeaderOut
        <5> QED
          BY <1>2, <2>1, <4>0, <5>1, <5>3
      <4>2. CASE f.pc = "recv_got"
        <5>1. PICK l, q, out : l = Len(f.out) /\ q = files[c][k] /\ out = f.out
          OBVIOUS
        <5>2. /\ l < w /\ l \in Nat /\ out = Cells(msg, HdrSize, l)
              /\ q = Cells(msg, HdrSize + l, w - l)
          BY <2>4, <2>6, <2>8, <4>2, <5>1 DEF Complete
        <5>3. w - l <= BufSize
          <6>1. w - l \in Nat /\ HdrSize + l \in Nat
            BY <1>1, <2>4, <5>2
          <6>2. Len(q) = w - l
            BY <2>4, <5>2, <6>1, CellsType
          <6> QED
            BY <2>2, <5>1, <6>2 DEF Rings
        <5>4. RecvLoop(m, b, k, msg.size, q, out) /\ UNCHANGED <<chan, sent, rcvd>>
          <6>1. Step(m) /\ th[m].pc = "recv_got"
            BY <1>2, <1>4, <4>2
          <6>2. RecvGot(m)
            BY <1>1, <6>1, Acts
          <6> QED
            BY <1>2, <2>1, <2>6, <2>8, <4>2, <5>1, <6>2 DEF RecvGot
        <5>5. /\ Moves(m, b.c, k, <<>>, RecvFrame(IF drops THEN "drop_dropped" ELSE "recv_got",
                                                 b, k, msg.size, Cells(msg, HdrSize, w)))
              /\ Wake(b.c, "read")
          <6>1. /\ IF drops THEN DropLoop(m, b, k, msg.size, q, out)
                            ELSE RecvLoop(m, b, k, msg.size, q, out)
                /\ ~Closed(b.c)
            BY <1>1, <1>2, <1>5, <4>0, <5>4
          <6> QED
            BY <1>1, <1>5, <2>2, <2>4, <5>2, <5>3, <6>1, TakesOut
        <5> QED
          BY <1>2, <2>1, <4>0, <5>4, <5>5
      <4> QED
        BY <1>10, <4>1, <4>2
    <3>2. PICK h : h = RecvFrame("recv_got", b, k, w, Cells(msg, HdrSize, w))
      OBVIOUS
    <3>3. /\ h.pc = "recv_got" /\ h.call = b /\ h.rb = k /\ h.size = w
          /\ h.out = Cells(msg, HdrSize, w)
      BY <3>2, FrameParts
    <3>4. Len(h.out) = w
      BY <1>1, <2>4, <3>3, CellsType
    <3>5. /\ Grounded(p, m)' /\ th'[m] = h /\ Held(m)' = HdrSize + Len(h.out)
          /\ \A u \in Threads : Done(u)' = Done(u)
          /\ \A u \in Threads \ {m} : th'[u] = th[u]
          /\ \A u, d : InFile(u, d)' = InFile(u, d)
      <4>1. /\ Runs(m) /\ m \in Threads /\ c \in Chans /\ k \in BOOLEAN /\ chan' = chan
            /\ Moves(m, c, k, <<>>, h) /\ Wake(c, "read")
            /\ h.pc = "recv_got" /\ h.call \in NextCalls(m) /\ h.call.c = c
        BY <1>1, <1>2, <1>4, <1>5, <2>2, <3>1, <3>2, <3>3
      <4> QED
        BY <4>1, LoopGround
    <3>6. status'[p] = status[p] /\ status'[m] = "ready"
      <4>1. ASSUME status[p] = "sleeping", th[p].pc # "asleep", th[p].call.c = c, WaitSlot(p) = "read"
            PROVE  FALSE
        <5>1. th[p].pc \in SendPcs
          BY <4>1 DEF WaitSlot
        <5>2. th[p].pc # "idle"
          BY <5>1 DEF SendPcs
        <5>3. th[p].call \in NextCalls(p) /\ th[p].call.op = "send"
          BY <1>1, <5>1, <5>2, PlaceKinds
        <5> QED
          BY <1>2, <1>3, <1>5, <1>10, <2>5, <4>1, <5>3, Unwaited
      <4>2. "read" \in Slots
        BY DEF Slots
      <4>3. status'[p] = status[p]
        BY <1>1, <1>5, <3>1, <4>1, <4>2, WakesHere
      <4>4. status'[m] = "ready"
        BY <1>1, <1>3, <1>5, <3>1, <4>2, WakesHere
      <4> QED
        BY <4>3, <4>4
    <3>7. Carries(c, k, m, msg, w)' /\ Integrity'
      <4>1. /\ \A d \in Chans, l \in BOOLEAN : d # c \/ l # k => files'[d][l] = files[d][l]
            /\ files'[c][k] = <<>> /\ sent' = sent /\ rcvd' = rcvd
        BY <3>1 DEF Moves
      <4>2. files'[c][k] = Cells(msg, Held(m)', HdrSize + w - Held(m)')
        <5>1. HdrSize + w - (HdrSize + w) = 0 /\ HdrSize + w \in Nat
          BY <1>1, <2>4
        <5> QED
          BY <2>4, <3>4, <3>5, <4>1, <5>1, NoCells
      <4>3. /\ th'[m].rb = k /\ th'[m].size = msg.size
            /\ Len(th'[m].out) <= w /\ th'[m].out = Cells(msg, HdrSize, Len(th'[m].out))
        BY <2>1, <2>4, <3>3, <3>4, <3>5
      <4>4. Carries(c, k, m, msg, w)
        BY <1>10, <2>1
      <4> QED
        BY <1>1, <1>5, <2>2, <2>3, <4>1, <4>2, <4>3, <4>4, StillCarries
    <3>8. Ahead(p, m)'
      <4>1. /\ th'[m].pc = "recv_got" /\ th'[m].call = b /\ b.c = c /\ b.n # 0
            /\ sent'[c][k][Len(sent'[c][k])] = msg /\ msg.size = w
        BY <1>2, <1>10, <2>1, <3>1, <3>3, <3>5
      <4>2. /\ InFile(m, c)' = k /\ (Done(p) = Done(m) + 1)' /\ (Loose(p) \/ Asks(p))'
        <5>1. th'[p] = th[p]
          BY <1>1, <3>5
        <5>2. (Loose(p) \/ Asks(p))'
          BY <1>3, <3>6, <5>1 DEF Loose, Asks
        <5>3. InFile(m, c)' = k /\ (Done(p) = Done(m) + 1)'
          BY <1>1, <1>2, <1>3, <3>5
        <5> QED
          BY <5>2, <5>3
      <4> QED
        BY <3>6, <3>7, <4>1, <4>2 DEF Ahead
    <3> QED
      BY <3>5, <3>7, <3>8 DEF MeetInv, Stage
  <2> QED
    BY <2>7, <2>8
<1> QED
  BY <1>3, <1>8, <1>9, <1>10

--------------------------------------------------------------------------------
(* The program is followed *)

\* No call, or one more that the program lets t make.
GoesOn(t) ==
  \/ ret' = ret
  \/ \E call \in NextCalls(t) : \E n, heard : ReturnHeard(t, call, n, heard)

LEMMA FollowsOn ==
  ASSUME NEW t \in Threads, NEW h \in Seq(Results), Follows(t, h),
         NEW r, r.call \in Code(t, h)
  PROVE  Follows(t, Append(h, r))
<1> DEFINE g == Append(h, r)
           S == Results \cup {r}
<1>1. /\ Len(h) \in Nat /\ Len(g) = Len(h) + 1 /\ g[Len(h) + 1] = r /\ g \in Seq(S)
      /\ \A i \in 1..Len(h) : g[i] = h[i]
  <2>1. h \in Seq(S) /\ r \in S
    <3>1. h \in [1..Len(h) -> S] /\ Len(h) \in Nat
      BY LenProperties, ElementOfSeq
    <3> QED
      BY <3>1
  <2> QED
    BY <2>1, AppendProperties, LenProperties
<1>2. SUFFICES ASSUME NEW i \in 1..Len(g) PROVE g[i].call \in Code(t, SubSeq(g, 1, i - 1))
  BY DEF Follows
<1>3. i - 1 \in 0..Len(h)
  BY <1>1, <1>2
<1>4. SubSeq(g, 1, i - 1) = SubSeq(h, 1, i - 1)
  BY <1>1, <1>3, SubSeqProperties
<1>5. CASE i \in 1..Len(h)
  BY <1>1, <1>4, <1>5 DEF Follows
<1>6. CASE i = Len(h) + 1
  <2>1. SubSeq(h, 1, Len(h)) = h /\ i - 1 = Len(h)
    BY <1>1, <1>6, SubSeqProperties
  <2>2. SubSeq(g, 1, i - 1) = h
    BY <1>4, <2>1
  <2> HIDE DEF g
  <2> QED
    BY <1>1, <1>6, <2>2
<1> HIDE DEF g
<1> QED
  BY <1>1, <1>2, <1>5, <1>6

\* However a loop goes on, its thread stays in the call or returns from it.
LEMMA LoopsGoOn ==
  ASSUME NEW t \in Threads, NEW call \in NextCalls(t)
  PROVE  /\ \A k, q, bytes : SendLoop(t, call, k, q, bytes) => GoesOn(t)
         /\ \A k, size, q, out : RecvLoop(t, call, k, size, q, out) => GoesOn(t)
         /\ \A k, size, q, out : DropLoop(t, call, k, size, q, out) => GoesOn(t)
         /\ \A frame, q : frame.call = call /\ DropWait(t, frame, q) => GoesOn(t)
         /\ \A f : f.call = call /\ Taken(t, f) => GoesOn(t)
<1>1. /\ \A f : Goto(t, f) => GoesOn(t)
      /\ \A n, heard : ReturnHeard(t, call, n, heard) => GoesOn(t)
      /\ \A n : Return(t, call, n) => GoesOn(t)
  BY DEF Goto, Return, GoesOn
<1>2. \A k, q, bytes : SendLoop(t, call, k, q, bytes) => GoesOn(t)
  BY <1>1 DEF SendLoop
<1>3. \A k, size, q, out : RecvLoop(t, call, k, size, q, out) => GoesOn(t)
  BY <1>1 DEF RecvLoop
<1>4. \A frame, q : frame.call = call /\ DropWait(t, frame, q) => GoesOn(t)
  BY <1>1 DEF DropWait
<1>5. \A k, size, q, out : DropLoop(t, call, k, size, q, out) => GoesOn(t)
  <2> SUFFICES ASSUME NEW k, NEW size, NEW q, NEW out, DropLoop(t, call, k, size, q, out)
               PROVE  GoesOn(t)
    OBVIOUS
  <2> DEFINE chunk == RbGet(q, size - Len(out))
             frame == RecvFrame("drop_dropped", call, k, size, out \o chunk)
  <2>1. frame.call = call
    BY FrameParts
  <2>2. \/ ReturnHeard(t, call, IF Len(out) = size THEN size ELSE 0, Heard(out))
        \/ Goto(t, frame)
        \/ DropWait(t, frame, RbDrop(q, Len(chunk)))
    BY DEF DropLoop
  <2> HIDE DEF frame, chunk
  <2> QED
    BY <1>1, <1>4, <2>1, <2>2
<1>6. \A f : f.call = call /\ Taken(t, f) => GoesOn(t)
  BY <1>1 DEF Taken
<1> QED
  BY <1>2, <1>3, <1>4, <1>5, <1>6

LEMMA HeadersGoOn ==
  ASSUME NEW t \in Threads, NEW call \in NextCalls(t)
  PROVE  /\ \A k : SendHeader(t, call, k) => GoesOn(t)
         /\ \A k : RecvHeader(t, call, k) => GoesOn(t)
         /\ \A k : DropHeader(t, call, k) => GoesOn(t)
         /\ SendBody(t, call) => GoesOn(t)
         /\ RecvBody(t, call) => GoesOn(t)
         /\ \A sender, pc : Synchronize(t, call, sender, pc) => GoesOn(t)
<1>1. /\ \A f : Goto(t, f) => GoesOn(t)
      /\ \A n : Return(t, call, n) => GoesOn(t)
  BY DEF Goto, Return, GoesOn
<1>2. \A k : SendHeader(t, call, k) => GoesOn(t)
  BY <1>1, LoopsGoOn DEF SendHeader
<1>3. \A k : RecvHeader(t, call, k) => GoesOn(t)
  BY <1>1, LoopsGoOn DEF RecvHeader
<1>4. \A k : DropHeader(t, call, k) => GoesOn(t)
  BY <1>1, LoopsGoOn DEF DropHeader
<1>5. SendBody(t, call) => GoesOn(t)
  BY <1>1, <1>2 DEF SendBody
<1>6. RecvBody(t, call) => GoesOn(t)
  BY <1>1, <1>3 DEF RecvBody
<1>7. \A sender, pc : Synchronize(t, call, sender, pc) => GoesOn(t)
  BY <1>1 DEF Synchronize
<1> QED
  BY <1>2, <1>3, <1>4, <1>5, <1>6, <1>7

\* Whatever t does, what it has called is what its program let it call.

LEMMA StepGoesOn ==
  ASSUME NEW p, NEW m, NEW turns, Scene(p, m, turns), NEW t \in Threads, Step(t)
  PROVE  GoesOn(t)
<1> DEFINE call == th[t].call
<1>1. /\ \A f : Goto(t, f) => GoesOn(t)
      /\ \A own \in NextCalls(t) : \A n : Return(t, own, n) => GoesOn(t)
      /\ \A own \in NextCalls(t) : \A n, heard : ReturnHeard(t, own, n, heard) => GoesOn(t)
  BY DEF Goto, Return, GoesOn
<1>2. CASE th[t].pc = "idle"
  <2>1. Enter(t) \/ Sleep(t) \/ Exit(t) \/ FlagsLoad(t) \/ Make(t)
    BY <1>2, Acts
  <2>2. Exit(t) => GoesOn(t)
    BY DEF Exit, GoesOn
  <2>3. Enter(t) => GoesOn(t)
    BY <1>1 DEF Enter
  <2> QED
    BY <1>1, <2>1, <2>2, <2>3 DEF Sleep, FlagsLoad, Make
<1>3. CASE th[t].pc # "idle"
  <2>1. call \in NextCalls(t)
    BY <1>3, PlaceKinds
  <2>2. CASE Sends(t)
    <3>1. SendSync(t) \/ SendSynced(t) => GoesOn(t)
      BY <2>1, HeadersGoOn DEF SendSync, SendSynced
    <3>2. SendHeaderAgain(t) => GoesOn(t)
      BY <2>1, HeadersGoOn DEF SendHeaderAgain
    <3>3. SendResume(t) => GoesOn(t)
      BY <2>1, LoopsGoOn DEF SendResume
    <3>4. SendSent(t) => GoesOn(t)
      BY <1>1, <2>1, LoopsGoOn DEF SendSent
    <3>5. ~SendMsgCall(t)
      BY <1>3 DEF SendMsgCall, Invokes
    <3> QED
      BY <2>2, <3>1, <3>2, <3>3, <3>4, <3>5 DEF Sends
  <2>3. CASE Recvs(t)
    <3>1. RecvSync(t) \/ RecvSynced(t) => GoesOn(t)
      BY <2>1, HeadersGoOn DEF RecvSync, RecvSynced
    <3>2. RecvHeaderAgain(t) => GoesOn(t)
      BY <2>1, HeadersGoOn DEF RecvHeaderAgain
    <3>3. RecvResume(t) => GoesOn(t)
      BY <2>1, LoopsGoOn DEF RecvResume
    <3>4. RecvGot(t) => GoesOn(t)
      BY <2>1, LoopsGoOn DEF RecvGot
    <3>5. ~RecvMsgCall(t)
      BY <1>3 DEF RecvMsgCall, Invokes
    <3> QED
      BY <2>3, <3>1, <3>2, <3>3, <3>4, <3>5 DEF Recvs
  <2>4. CASE Drops(t)
    <3>1. DropSync(t) \/ DropSynced(t) => GoesOn(t)
      BY <2>1, HeadersGoOn DEF DropSync, DropSynced
    <3>2. DropHeaderAgain(t) => GoesOn(t)
      BY <2>1, HeadersGoOn DEF DropHeaderAgain
    <3>3. DropResume(t) => GoesOn(t)
      BY <2>1, LoopsGoOn DEF DropResume
    <3>4. DropDropped(t) => GoesOn(t)
      BY <2>1, LoopsGoOn DEF DropDropped
    <3> QED
      BY <2>4, <3>1, <3>2, <3>3, <3>4 DEF Drops
  <2>5. CASE Tries(t)
    BY <1>1, <2>1, <2>5 DEF Tries, TrySend, TryRecv
  <2>6. CASE FlagsStore(t) \/ Timer(t)
    BY <1>1, <2>1, <2>6 DEF FlagsStore, Timer
  <2>7. /\ ~Enter(t) /\ ~FlagsLoad(t) /\ ~SetOwner(t) /\ ~Make(t)
        /\ ~Go(t) /\ ~Kill(t) /\ ~Sleep(t) /\ ~Spin(t) /\ ~Exit(t)
    BY <1>3 DEF Enter, FlagsLoad, SetOwner, Make, Go, Kill, Sleep, Spin, Exit, Invokes
  <2> QED
    BY <2>2, <2>3, <2>4, <2>5, <2>6, <2>7 DEF Step, Manages, Lives
<1> QED
  BY <1>2, <1>3

LEMMA FollowingKept ==
  ASSUME NEW p, NEW m, NEW turns, Scene(p, m, turns), NEW t \in Threads, Step(t)
  PROVE  Following'
<1>1. GoesOn(t) /\ ThreadsOK /\ Following
  BY StepGoesOn, OnScene DEF Scene
<1>2. CASE ret' = ret
  BY <1>1, <1>2 DEF Following
<1>3. ASSUME NEW call \in NextCalls(t), NEW n, NEW heard, ReturnHeard(t, call, n, heard)
      PROVE  Following'
  <2>1. call.again = 0 /\ call \in Code(t, ret[t])
    BY CallKinds DEF NextCalls
  <2>2. PICK r : r = [call |-> call, n |-> n, heard |-> heard]
    OBVIOUS
  <2>3. ret' = [ret EXCEPT ![t] = Append(ret[t], r)]
    BY <1>3, <2>1, <2>2 DEF ReturnHeard, Returned
  <2>4. Follows(t, Append(ret[t], r))
    <3>1. ret[t] \in Seq(Results) /\ Follows(t, ret[t]) /\ r.call = call
      BY <1>1, <2>2 DEF ThreadsOK, Following
    <3> QED
      BY <2>1, <3>1, FollowsOn
  <2> QED
    BY <1>1, <2>3, <2>4 DEF Following, ThreadsOK
<1> QED
  BY <1>1, <1>2, <1>3 DEF GoesOn

--------------------------------------------------------------------------------
(* The invariant holds *)

LEMMA StepMeets ==
  ASSUME NEW p, NEW m, NEW turns, Scene(p, m, turns), NEW t \in Threads, Step(t)
  PROVE  MeetInv(p, m)' /\ Following'
<1>1. Following'
  BY FollowingKept
<1>2. CASE th[t].pc \in RestPcs
  BY <1>1, <1>2, RestKept, RestStage DEF MeetInv
<1>3. CASE th[t].pc \in SyncPcs
  BY <1>1, <1>3, SyncKept
<1>4. CASE th[t].pc \notin RestPcs /\ th[t].pc \notin SyncPcs
  <2>1. Stage(p, m) /\ (t = p \/ t = m) /\ status[t] = "ready"
    <3>1. Runs(t)
      BY <1>4, Acts DEF RestPcs
    <3> QED
      BY <3>1, OnScene DEF Scene, MeetInv, Runs
  <2>2. ~Apart(p, m)
    BY <1>4, <2>1 DEF Apart, Loose, Asks
  <2>3. CASE Met(p, m)
    BY <1>1, <2>3, MetKept
  <2>4. CASE Due(p, m)
    BY <1>1, <2>4, DueKept
  <2>5. CASE Draws(p, m)
    BY <1>1, <2>5, DrawsKept
  <2>6. CASE Pours(p, m)
    BY <1>1, <2>6, PoursKept
  <2>7. CASE Ahead(p, m)
    BY <1>1, <1>4, <2>7, AheadKept
  <2> QED
    BY <2>1, <2>2, <2>3, <2>4, <2>5, <2>6, <2>7 DEF Stage
<1> QED
  BY <1>2, <1>3, <1>4

LEMMA MeetStart ==
  ASSUME NEW p, NEW m, NEW turns, Meeting(p, m, turns), Init
  PROVE  MeetInv(p, m) /\ Following
<1>1. /\ p \in Threads /\ m \in Threads /\ p # m /\ \A t \in Threads : t = p \/ t = m
      /\ \A t \in Threads : ret[t] = <<>> /\ th[t] = Idle
      /\ \A c \in Chans, k \in BOOLEAN : files[c][k] = <<>> /\ sent[c][k] = <<>> /\ rcvd[c][k] = <<>>
  BY MeetingPlain DEF Init, NewFiles
<1>2. \A t \in Threads : th[t].pc = "idle"
  BY <1>1, FrameParts
<1>3. \A t \in Threads : status[t] = "ready"
  BY DEF Init, Booted, Meeting
<1>4. \A c \in Chans : chan[c].creator = Creator[c] /\ chan[c].flags = {}
  <2>1. PICK buffered \in [Chans -> Modes] :
          chan = [c \in Chans |-> [creator |-> Creator[c], flags |-> MadeFlags(buffered[c])]]
    BY DEF Init
  <2>2. \A c \in Chans : buffered[c] \in {FALSE}
    BY <2>1 DEF Meeting
  <2> QED
    BY <2>1, <2>2 DEF MadeFlags
<1>5. Len(<<>>) = 0
  OBVIOUS
<1>6. Following
  BY <1>1, <1>5 DEF Following, Follows
<1>7. Grounded(p, m)
  <2>1. \A t \in Threads : Placed(t)
    BY <1>2, <1>3 DEF Placed, Gone
  <2>2. \A c \in Chans : Owns(p, c, ret[p]) => chan[c].creator = p
    BY <1>1, <1>4, <1>5 DEF Owns
  <2> QED
    BY <1>1, <1>2, <1>3, <1>4, <2>1, <2>2 DEF Grounded
<1>8. Apart(p, m)
  <2>1. Done(p) = Done(m)
    BY <1>1 DEF Done
  <2>2. Quiet
    BY <1>1 DEF Quiet, QuietFile
  <2>3. \A t \in {p, m} : Loose(t) /\ ~Asks(t)
    BY <1>1, <1>2 DEF Loose, Asks, RestPcs, Bodies
  <2> QED
    BY <2>1, <2>2, <2>3 DEF Apart
<1>9. Integrity
  BY <1>1, <1>5 DEF Integrity
<1> QED
  BY <1>6, <1>7, <1>8, <1>9 DEF MeetInv, Stage

LEMMA StillMeets ==
  ASSUME NEW p, NEW m, MeetInv(p, m), Following, UNCHANGED vars
  PROVE  MeetInv(p, m)' /\ Following'
<1>1. /\ status' = status /\ chan' = chan /\ blocked' = blocked /\ files' = files
      /\ th' = th /\ ret' = ret /\ sent' = sent /\ rcvd' = rcvd
  BY DEF vars
<1>2. Grounded(p, m)'
  BY <1>1 DEF MeetInv, Grounded, Placed, Fresh, Gone, NextCalls, WaitSlot
<1>3. Integrity' /\ Following'
  BY <1>1 DEF MeetInv, Integrity, Following
<1>4. /\ Apart(p, m) => Apart(p, m)'
      /\ Met(p, m) => Met(p, m)'
      /\ Due(p, m) => Due(p, m)'
  BY <1>1 DEF Apart, Met, Due, Done, Loose, Asks, Came, Quiet, QuietFile, InFile
<1>5. \A c, k, t, msg, b : Carries(c, k, t, msg, b) => Carries(c, k, t, msg, b)'
  BY <1>1 DEF Carries, QuietFile, Held
<1>6. /\ Draws(p, m) => Draws(p, m)'
      /\ Pours(p, m) => Pours(p, m)'
      /\ Ahead(p, m) => Ahead(p, m)'
  BY <1>1, <1>5 DEF Draws, Pours, Ahead, Done, OutFile, InFile, Message, Loose, Asks, Quiet, QuietFile
<1> QED
  BY <1>2, <1>3, <1>4, <1>6 DEF MeetInv, Stage

LEMMA MeetingInvariant ==
  ASSUME NEW p, NEW m, NEW turns, Meeting(p, m, turns)
  PROVE  Spec => [](TypeOK /\ Following /\ InProgram /\ WaiterAsleep /\ MeetInv(p, m))
<1>1. Init => MeetInv(p, m) /\ Following
  BY MeetStart
<1>2. TypeOK /\ WaiterAsleep /\ InProgram /\ MeetInv(p, m) /\ Following /\ [Next]_vars =>
        (MeetInv(p, m) /\ Following)'
  <2> SUFFICES ASSUME TypeOK, WaiterAsleep, InProgram, MeetInv(p, m), Following, [Next]_vars
               PROVE  (MeetInv(p, m) /\ Following)'
    OBVIOUS
  <2>1. CASE \E t \in Threads : Step(t)
    <3>1. Scene(p, m, turns)
      BY DEF Scene
    <3> QED
      BY <2>1, <3>1, StepMeets
  <2>2. CASE UNCHANGED vars
    BY <2>2, StillMeets
  <2> QED
    BY <2>1, <2>2 DEF Next, Ended
<1>3. Spec => [](TypeOK /\ WaiterAsleep /\ InProgram)
  BY SlotsInvariant DEF Meeting
<1> QED
  BY <1>1, <1>2, <1>3, PTL DEF Spec

--------------------------------------------------------------------------------
(* What it says of the code *)

\* Where two threads meet on unbuffered channels, no call of one returns before the
\* other has made its own (channel_synchronize): a channel_send waits for its
\* channel_recv, a channel_recv or channel_drop for its channel_send, and a call
\* without data is a barrier, through every chunk of the message and every wake-up.
THEOREM CallsMeet ==
  ASSUME NEW p, NEW m, NEW turns, Meeting(p, m, turns)
  PROVE  Spec => []Rendezvous
<1>1. TypeOK /\ Following /\ InProgram /\ WaiterAsleep /\ MeetInv(p, m) => Rendezvous
  <2> SUFFICES ASSUME TypeOK, Following, InProgram, WaiterAsleep, MeetInv(p, m),
                      NEW t \in Threads, NEW u \in Threads
               PROVE  Done(t) <= Begun(u)
    BY DEF Rendezvous
  <2>1. Scene(p, m, turns) /\ Stage(p, m)
    BY DEF Scene, MeetInv
  <2>2. /\ \A v \in Threads : v = p \/ v = m
        /\ p \in Threads /\ m \in Threads /\ ThreadsOK
    BY <2>1, OnScene
  <2>3. \A v \in Threads : Done(v) \in Nat
    <3>1. \A v \in Threads : Done(v) = Made(ret[v]) /\ ret[v] \in Seq(Results)
      BY <2>2 DEF Done, Made, ThreadsOK
    <3> QED
      BY <3>1, MadeType
  <2>4. \A v \in Threads : Begun(v) = Done(v) \/ Begun(v) = Done(v) + 1
    <3> SUFFICES ASSUME NEW v \in Threads PROVE Begun(v) = Done(v) \/ Begun(v) = Done(v) + 1
      OBVIOUS
    <3>1. Begun(v) = Done(v) + 0 \/ Begun(v) = Done(v) + 1
      BY DEF Begun
    <3>2. Done(v) \in Nat
      BY <2>3
    <3> QED
      BY <3>1, <3>2
  <2>5. CASE ~Ahead(p, m)
    <3>1. Done(p) = Done(m)
      BY <2>1, <2>5 DEF Stage, Apart, Met, Due, Draws, Pours
    <3> QED
      BY <2>2, <2>3, <2>4, <3>1
  <2>6. CASE Ahead(p, m)
    <3>1. Done(p) = Done(m) + 1 /\ th[m].pc \in Bodies \cup {"send_sent", "recv_got"}
      BY <2>6 DEF Ahead, Bodies
    <3>2. th[m].pc # "idle" /\ th[m].call.op \in Blocking
      <4>1. th[m].pc # "idle" /\ th[m].pc \in SendPcs \cup RecvPcs \cup DropPcs
        BY <3>1 DEF Bodies, SendPcs, RecvPcs, DropPcs
      <4> QED
        BY <2>1, <2>2, <4>1, PlaceKinds DEF Blocking
    <3>3. Begun(m) = Done(m) + 1
      BY <2>2, <2>3, <3>2 DEF Begun
    <3> QED
      BY <2>2, <2>3, <2>4, <3>1, <3>3
  <2> QED
    BY <2>5, <2>6
<1>2. Spec => [](TypeOK /\ Following /\ InProgram /\ WaiterAsleep /\ MeetInv(p, m))
  BY MeetingInvariant
<1> QED
  BY <1>1, <1>2, PTL

\* On the unbuffered channels of such threads every message is taken whole, alone and
\* in order, in however many chunks _channel_send_msg cut it, and whether the more
\* urgent thread received or dropped it.
THEOREM MeetingsKeepMessages ==
  ASSUME NEW p, NEW m, NEW turns, Meeting(p, m, turns)
  PROVE  Spec => []Integrity
<1>1. MeetInv(p, m) => Integrity
  BY DEF MeetInv
<1>2. Spec => [](TypeOK /\ Following /\ InProgram /\ WaiterAsleep /\ MeetInv(p, m))
  BY MeetingInvariant
<1> QED
  BY <1>1, <1>2, PTL

\* When both threads have ended, nothing they sent is still in a ring buffer: neither
\* ends in the middle of a meeting.
THEOREM MeetingsLeaveNothing ==
  ASSUME NEW p, NEW m, NEW turns, Meeting(p, m, turns)
  PROVE  Spec => []NothingLeft
<1>1. MeetInv(p, m) => NothingLeft
  <2> SUFFICES ASSUME MeetInv(p, m), \A t \in Threads : status[t] = "stopped",
                      NEW c \in Chans, NEW k \in BOOLEAN
               PROVE  files[c][k] = <<>> /\ Len(rcvd[c][k]) = Len(sent[c][k])
    BY DEF NothingLeft
  <2>1. status[m] = "stopped"
    BY MeetingPlain
  <2>2. Apart(p, m)
    BY <2>1 DEF MeetInv, Stage, Met, Came, Due, Draws, Pours, Ahead
  <2> QED
    BY <2>2 DEF Apart, Quiet, QuietFile
<1>2. Spec => [](TypeOK /\ Following /\ InProgram /\ WaiterAsleep /\ MeetInv(p, m))
  BY MeetingInvariant
<1> QED
  BY <1>1, <1>2, PTL

\* As long as there is a turn to come both threads go to it, and none sleeps on a timer.
Attended(turns) ==
  /\ \A t \in Threads, h \in Seq(Results) :
       Follows(t, h) /\ Made(h) < Len(turns) => \E call \in Calls : call \in Code(t, h)
  /\ \A t \in Threads : \A call \in OwnCalls(t) : call.op # "sleep"

\* When both threads come to every meeting, a call on an unbuffered channel never
\* leaves both asleep, nor one asleep after the other has ended: whoever waits in
\* channel_synchronize or in a data loop is woken by the other (channel_sched_other).
THEOREM MeetingsNeverHang ==
  ASSUME NEW p, NEW m, NEW turns, Meeting(p, m, turns), Attended(turns)
  PROVE  Spec => []NoHang
<1>1. TypeOK /\ Following /\ InProgram /\ WaiterAsleep /\ MeetInv(p, m) => NoHang
  <2> SUFFICES ASSUME TypeOK, Following, InProgram, WaiterAsleep, MeetInv(p, m),
                      NEW t \in Threads, status[t] = "sleeping",
                      \A u \in Threads : status[u] # "ready"
               PROVE  FALSE
    BY DEF NoHang
  <2>1. Scene(p, m, turns) /\ Stage(p, m)
    BY DEF Scene, MeetInv
  <2>2. /\ \A v \in Threads : v = p \/ v = m
        /\ p \in Threads /\ m \in Threads /\ p # m /\ SchedOK /\ ThreadsOK
    BY <2>1, OnScene
  <2>3. Apart(p, m)
    BY <2>1, <2>2 DEF Stage, Met, Came, Due, Draws, Pours, Ahead
  <2>4. \A v \in Threads : status[v] = "sleeping" => Asks(v)
    <3> SUFFICES ASSUME NEW v \in Threads, status[v] = "sleeping" PROVE Asks(v)
      OBVIOUS
    <3>1. /\ th[v].pc # "idle"
          /\ th[v].pc = "asleep" => th[v].call.op = "sleep"
          /\ th[v].pc = "asleep" \/ blocked[th[v].call.c][WaitSlot(v)] = v
      BY <2>2 DEF MeetInv, Grounded, Placed
    <3>2. th[v].pc # "asleep"
      BY <3>1 DEF InProgram, Attended
    <3>3. th[v].pc \in Bodies \cup {"send_hdr", "send_loop", "recv_hdr", "recv_loop", "drop_hdr", "drop_loop"}
      <4>1. th[v].call.c \in Chans /\ WaitSlot(v) \in Slots /\ v # NoThread
        BY <2>1, <3>1, PlaceKinds, RiotAssumption DEF Calls, WaitSlot, Slots
      <4> QED
        BY <3>1, <3>2, <4>1 DEF WaiterAsleep, WaitsAt, Bodies
    <3>4. Loose(v) \/ Asks(v)
      BY <2>2, <2>3 DEF Apart
    <3> QED
      BY <3>3, <3>4 DEF Loose, RestPcs, SyncPcs, Bodies
  <2>5. PICK u \in Threads : u # t
    BY <2>2
  <2>6. Asks(t) /\ ~Asks(u)
    BY <2>2, <2>3, <2>4, <2>5 DEF Apart
  <2>7. NextCalls(u) = {}
    <3>1. Gone(u)
      BY <2>2, <2>4, <2>6 DEF SchedOK, Statuses, Gone
    <3> QED
      BY <2>2, <3>1 DEF MeetInv, Grounded, Placed
  <2>8. Made(ret[t]) < Len(turns) /\ Made(ret[u]) = Made(ret[t])
    <3>1. th[t].pc # "idle" /\ th[t].pc \in SendPcs \cup RecvPcs \cup DropPcs
      BY <2>6 DEF Asks, Bodies, SendPcs, RecvPcs, DropPcs
    <3>2. th[t].call \in NextCalls(t) /\ th[t].call.op \in SyncPcs
      BY <2>1, <3>1, PlaceKinds DEF SyncPcs
    <3>3. Made(ret[t]) < Len(turns)
      BY <2>1, <3>2, CallKinds
    <3>4. Made(ret[p]) = Made(ret[m])
      BY <2>3 DEF Apart, Done, Made
    <3> QED
      BY <2>2, <2>5, <3>3, <3>4
  <2>9. \E call \in Calls : call \in Code(u, ret[u])
    <3>1. ret[u] \in Seq(Results) /\ Follows(u, ret[u])
      BY <2>2 DEF ThreadsOK, Following
    <3> QED
      BY <2>8, <3>1 DEF Attended
  <2> QED
    BY <2>7, <2>9 DEF NextCalls
<1>2. Spec => [](TypeOK /\ Following /\ InProgram /\ WaiterAsleep /\ MeetInv(p, m))
  BY MeetingInvariant
<1> QED
  BY <1>1, <1>2, PTL
================================================================================
