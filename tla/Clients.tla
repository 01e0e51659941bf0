--------------------------------- MODULE Clients ---------------------------------
(******************************************************************************)
(* The programs of examples and measurements, as the calls each of their      *)
(* threads makes after the calls it has made: together the value of Code for  *)
(* a board that is flashed with one of them.  Sizes are in words of four      *)
(* bytes, rounded up, so that CHANNEL_BUFSIZE is 8 and a size_t is 2.         *)
(*                                                                            *)
(* Each program has threads and channels of its own.  GO starts a thread that *)
(* has ended; printing, reading the clock and csp_running of a process nobody *)
(* kills change nothing and are left out.                                     *)
(******************************************************************************)
EXTENDS ChannelProperties, SequencesExt

CONSTANTS Packets,     \* packets sent to the plexer (5 * 5 in the source)
          Rounds,      \* bound on the rounds of ping-pong, and of each measurement
          WorkCount,   \* WORK_COUNT
          StringSizes  \* the lengths the arguments of simple.h may have, in words

AnyThread == CHOOSE t \in Threads : TRUE
ToCall(op, c, n) == [op |-> op, c |-> c, n |-> n, v |-> 0, to |-> AnyThread, again |-> 0]
ToSend(c, n, v) == {[ToCall("send", c, n) EXCEPT !.v = v]}
ToRecv(c) == {ToCall("recv", c, 1)}
ToMake(c, buffered) == {ToCall("make", c, buffered)}
ToClose(c) == {ToCall("close", c, 0)}
ToSync(op, c) == {ToCall(op, c, 0)}   \* null data or a null buffer
AnyChan == CHOOSE c \in Chans : TRUE
ToGo(p) == {[ToCall("go", AnyChan, 0) EXCEPT !.to = p]}
ToSleep == {ToCall("sleep", AnyChan, 0)}
ToSpin == {ToCall("spin", AnyChan, 0)}

Times(n, calls) == [i \in 1..n |-> calls]
\* A function without branches makes the calls of a list.
InOrder(list, h) == IF Len(h) < Len(list) THEN list[Len(h) + 1] ELSE {}

Int32 == 1             \* sizes of an int, a size_t or pointer, a msg_t
Word == 2
MsgT == 4

--------------------------------------------------------------------------------
(* examples/packet_plexer *)

StreamChans == <<"stream_0", "stream_1">>
Handlers == <<"handler_0", "handler_1">>
PlexerCount == Len(StreamChans)   \* PLEXER_COUNT is 5
Packet == 17

\* Handler i gets its process after the plexer was told of its stream.
PlexerMain(h) ==
  LET handler(i) == << ToMake(StreamChans[i], 1), ToSend("plexer_c", Word, i - 1), ToGo(Handlers[i]) >>
  IN  InOrder(<< ToMake("plexer_c", 1), ToGo("plexer"), ToSend("plexer_c", Word, PlexerCount) >>
              \o FlattenSeq([i \in 1..PlexerCount |-> handler(i)])
              \o Times(Packets, UNION {ToSend("plexer_c", Packet, id) : id \in 0..PlexerCount - 1})
              \o << ToSend("plexer_c", Packet, -1) >>, h)

\* Faulty variant: ids are taken to count from 1.
StreamBefore(id) == StreamChans[IF id = 0 THEN PlexerCount ELSE id]

StreamOf(id) == StreamChans[id + 1]

\* The plexer tells every stream of the end, from the first on.
PassOn(id, i) == ToSend(StreamChans[i], Packet, id)

PlexPacket(id, count) ==
  IF id = -1 THEN PassOn(-1, 1)
  ELSE IF id >= count THEN ToClose("plexer_c")
  ELSE ToSend(StreamOf(id), Packet, id)

\* The count, then that many streams, each of which it takes over, then packets.
PacketPlexer(h) ==
  LET n == Len(h)
      count == h[1].heard
      end == Last(h).call.v = -1
      at == CHOOSE i \in 1..PlexerCount : StreamChans[i] = Last(h).call.c
  IN  IF n = 0 THEN ToRecv("plexer_c")
      ELSE IF Last(h).call.op = "close" THEN {}
      ELSE IF count = 0 THEN ToClose("plexer_c")
      ELSE IF n <= 2 * count /\ n % 2 = 0
           THEN {[ToCall("set_owner", StreamChans[Last(h).heard + 1], 0) EXCEPT !.to = "plexer"]}
      ELSE IF n <= 2 * count + 1 \/ (Last(h).call.op = "send" /\ ~end) THEN ToRecv("plexer_c")
      ELSE IF Last(h).call.op = "recv" THEN PlexPacket(Last(h).heard, count)
      ELSE IF at < count THEN PassOn(-1, at + 1) ELSE ToClose("plexer_c")

PacketHandler(i, h) ==
  IF h = <<>> THEN ToRecv(StreamChans[i])
  ELSE IF Last(h).call.op = "close" THEN {}
  ELSE IF Last(h).heard = -1 THEN ToClose(StreamChans[i])
  ELSE ToRecv(StreamChans[i])

--------------------------------------------------------------------------------
(* examples/workergroups *)

Jobbers == <<"jobber_0", "jobber_1">>
JobChans == <<"jobs_0", "jobs_1">>
ResultChans == <<"results_0", "results_1">>
NTasks == 3
TaskResult(job) == job        \* task1 returns 1, task2 returns 2, task3 returns 3

\* How many results main waits for is what the workers told it, a worker each in
\* turn.
WorkersMain(h) ==
  LET worker(i) == << ToMake(JobChans[i], 1), ToMake(ResultChans[i], 1), ToGo(Jobbers[i]) >>
      jobs(i) == [job \in 1..NTasks |-> ToSend(JobChans[i], Word, job)]
      asked == << ToRecv(JobChans[1]), ToRecv(JobChans[2]) >>
      start == worker(1) \o worker(2) \o asked \o jobs(1) \o jobs(2)
      told == h[7].heard + h[8].heard
      got == Len(h) - Len(start)
  IN  IF got < 0 THEN InOrder(start, h)
      ELSE IF got < told THEN ToRecv(ResultChans[(got % 2) + 1]) ELSE {}

Jobber(i, h) ==
  IF h = <<>> THEN ToSend(JobChans[i], Word, NTasks)
  ELSE IF Last(h).call.op = "recv" THEN ToSend(ResultChans[i], Int32, TaskResult(Last(h).heard))
  ELSE IF Len(h) < 2 * NTasks + 1 THEN ToRecv(JobChans[i]) ELSE {}

--------------------------------------------------------------------------------
(* examples/readme/main.c, examples/readme/simple.h, examples/hello_world *)

HelloWorld(h) == {}           \* prints and returns

ReadmeMain(h) ==
  InOrder(<< ToGo("hello_world"), ToGo("hello_world"), ToMake("readme_c", 0),
             ToGo("hello_channel"), ToSend("readme_c", 4, 0), ToSync("send", "readme_c"),
             ToGo("hello_both"), ToSend("readme_c", 4, 0), ToClose("readme_c") >>, h)
HelloChannel(h) == InOrder(<< ToRecv("readme_c"), ToSync("recv", "readme_c") >>, h)
HelloBoth(h) == InOrder(<< ToRecv("readme_c"), ToSync("recv", "readme_c") >>, h)

\* The length of an argument says how long the next message is.
Argc == 2
SimpleMain(h) ==
  LET n == Len(h)
      start == << ToMake("simple_c", 0), ToGo("hello"), ToSend("simple_c", Int32, Argc) >>
  IN  IF n < 3 THEN InOrder(start, h)
      ELSE IF n < 3 + 2 * Argc
           THEN IF n % 2 = 1 THEN UNION {ToSend("simple_c", Word, s) : s \in StringSizes}
                ELSE ToSend("simple_c", Last(h).call.v, 0)
      ELSE IF n = 3 + 2 * Argc THEN ToSync("send", "simple_c") ELSE {}

\* buf has room for 256 bytes; a longer string is dropped.
BufWords == 64
Hello(h) ==
  LET n == Len(h)
      argc == h[1].heard
  IN  IF n = 0 \/ (n < 1 + 2 * argc /\ n % 2 = 1) THEN ToRecv("simple_c")
      ELSE IF n < 1 + 2 * argc
           THEN IF Last(h).heard < BufWords THEN ToRecv("simple_c")
                ELSE {ToCall("drop", "simple_c", 0)}
      ELSE IF n = 1 + 2 * argc THEN ToSync("recv", "simple_c")
      ELSE IF n = 2 + 2 * argc THEN ToClose("simple_c") ELSE {}

\* Two processes receive the one string of a buffered channel; exit ends the
\* program with the second asleep.
HelloMain(h) ==
  InOrder(<< ToMake("hello_c", 1), ToSend("hello_c", 4, 0), ToGo("csp_print"), ToGo("hello_world") >>
          \o Times(3, ToGo("hello_world")) \o << ToGo("csp_print2"), ToSync("send", "hello_c") >>, h)
CspPrint(h) == InOrder(<< ToRecv("hello_c"), ToSync("recv", "hello_c") >>, h)

--------------------------------------------------------------------------------
(* examples/ipc_pingpong_csp *)

\* Faulty variant: the number goes back as it came.
CountedAsReceived(value) == value

\* m.content.value is counted up by whoever received it, and sent on.
Counted(value) == value + 1

\* One number goes to and fro and is counted up by both; a call that returns 0 ends
\* the loop.  After Rounds rounds main is not looked at any more.
PingMain(h) ==
  LET n == Len(h)
  IN  IF n < 2 THEN InOrder(<< ToMake("ping_c", 0), ToGo("second") >>, h)
      ELSE IF Last(h).call.op = "close" \/ n >= 2 + 2 * Rounds THEN {}
      ELSE IF n = 2 THEN ToSend("ping_c", MsgT, 1)
      ELSE IF Last(h).call.n = 0 THEN ToClose("ping_c")
      ELSE IF Last(h).n = 0 THEN ToSync("send", "ping_c")
      ELSE IF Last(h).call.op = "send" THEN ToRecv("ping_c")
      ELSE ToSend("ping_c", MsgT, Counted(Last(h).heard))

SecondThread(h) ==
  IF h = <<>> THEN ToRecv("ping_c")
  ELSE IF Last(h).call.op = "close" THEN {}
  ELSE IF Last(h).call.n = 0 THEN ToClose("ping_c")
  ELSE IF Last(h).n = 0 THEN ToSync("recv", "ping_c")
  ELSE IF Last(h).call.op = "recv" THEN ToSend("ping_c", MsgT, Counted(Last(h).heard))
  ELSE ToRecv("ping_c")

--------------------------------------------------------------------------------
(* examples/goroutines, examples/thread_duel_csp *)

SleepyF(h) == InOrder(Times(3, ToSleep), h)
GoroutinesMain(h) ==
  InOrder(Times(3, ToSleep) \o << ToGo("f"), ToGo("lambda"), ToSleep >>, h)

\* Faulty variant: the second block uses the channel of the first.
DuelChansShared == <<"c1", "c1", "c3">>

DuelChans == <<"c1", "c2", "c3">>
Duelists == <<"duelist_1", "duelist_2", "duelist_3">>

\* The configuration is in the channel before its reader exists.
DuelMain(h) ==
  LET worker(i) == << ToMake(DuelChans[i], 1), ToSend(DuelChans[i], 4, i), ToGo(Duelists[i]) >>
  IN  InOrder(worker(1) \o worker(2) \o worker(3), h)

\* no_wait is the waiting strategy of every worker.
DuelWorker(i, h) == InOrder(<< ToSleep, ToRecv(DuelChans[i]), ToSpin >>, h)

--------------------------------------------------------------------------------
(* measurements/api, measurements/simple_work *)

ApiChans == <<"local_unbuffered", "static_unbuffered", "local_buffered", "static_buffered">>
Funcs == <<"func_1", "func_2", "func_3", "func_4">>
Fits == BufSize - Word
Unfits == 2 * BufSize

ApiMain(h) ==
  LET block(i) == << ToMake(ApiChans[i], IF i > 2 THEN 1 ELSE 0), ToGo(Funcs[i]) >>
                  \o Times(Rounds, ToSend(ApiChans[i], Fits, 0)) \o << ToSync("send", ApiChans[i]) >>
                  \o Times(Rounds, ToSend(ApiChans[i], Unfits, 1)) \o << ToSync("send", ApiChans[i]) >>
                  \o << ToClose(ApiChans[i]) >>
  IN  InOrder(Times(4 * Rounds, ToGo("task_func")) \o block(1) \o block(2) \o block(3) \o block(4), h)

Func(i, h) ==
  LET half == Times(Rounds, ToRecv(ApiChans[i])) \o << ToSync("recv", ApiChans[i]) >>
  IN  InOrder(half \o half, h)

\* wrapper_csp makes the channel anew and starts the process again each time.
SimpleWorkMain(h) ==
  LET wrapper == << ToMake("work_c", 1), ToGo("work_csp") >>
                 \o [i \in 1..WorkCount |-> ToSend("work_c", MsgT, i - 1)]
  IN  InOrder(FlattenSeq([i \in 1..Rounds |-> wrapper]), h)

\* Faulty variant: counts one too few.
LastWorkEarly(m) == m = WorkCount - 2

LastWork(m) == m = WorkCount - 1
WorkCsp(h) == IF h # <<>> /\ LastWork(Last(h).heard) THEN {} ELSE ToRecv("work_c")

--------------------------------------------------------------------------------
\* What each thread runs.
ClientCode(t, h) ==
  LET number(list) == CHOOSE i \in 1..Len(list) : list[i] = t
  IN  CASE t = "plexer_main" -> PlexerMain(h) [] t = "plexer" -> PacketPlexer(h)
        [] t \in Range(Handlers) -> PacketHandler(number(Handlers), h)
        [] t = "workers_main" -> WorkersMain(h) [] t \in Range(Jobbers) -> Jobber(number(Jobbers), h)
        [] t = "readme_main" -> ReadmeMain(h) [] t = "hello_channel" -> HelloChannel(h)
        [] t = "hello_both" -> HelloBoth(h) [] t = "simple_main" -> SimpleMain(h)
        [] t = "hello" -> Hello(h) [] t = "hello_main" -> HelloMain(h)
        [] t \in {"csp_print", "csp_print2"} -> CspPrint(h)
        [] t \in {"hello_world", "lambda", "task_func"} -> HelloWorld(h)
        [] t = "ping_main" -> PingMain(h) [] t = "second" -> SecondThread(h)
        [] t = "goroutines_main" -> GoroutinesMain(h) [] t = "f" -> SleepyF(h)
        [] t = "duel_main" -> DuelMain(h) [] t \in Range(Duelists) -> DuelWorker(number(Duelists), h)
        [] t = "api_main" -> ApiMain(h) [] t \in Range(Funcs) -> Func(number(Funcs), h)
        [] t = "work_main" -> SimpleWorkMain(h) [] t = "work_csp" -> WorkCsp(h)
        [] OTHER -> {}

Mains == {"plexer_main", "workers_main", "readme_main", "simple_main", "hello_main",
          "ping_main", "goroutines_main", "duel_main", "api_main", "work_main"}
Processes == Range(Handlers) \cup Range(Jobbers) \cup Range(Duelists) \cup Range(Funcs)
             \cup {"plexer", "hello_world", "hello_channel", "hello_both", "hello", "csp_print",
                   "csp_print2", "second", "f", "lambda", "task_func", "work_csp"}
ClientChans == Range(StreamChans) \cup Range(JobChans) \cup Range(ResultChans) \cup Range(DuelChans)
               \cup Range(ApiChans)
               \cup {"plexer_c", "readme_c", "simple_c", "hello_c", "ping_c", "work_c"}

--------------------------------------------------------------------------------
(* What the programs must do. *)

\* The threads that are asleep or busy when their program has ended: hello_both
\* and second wait for a message that never comes (the first on purpose,
\* readme/main.c:30), csp_print2 finds the string taken, and the workers of the
\* duel compute for ever, if main got as far as to start them.
Stays == {"hello_both", "second", "csp_print2", "duel_main"} \cup Range(Duelists)

\* Every program comes to its end, and all its processes with it: nobody is left
\* asleep in a channel because a call of one thread has no partner in another.
ClientsEnd == <>(\A t \in Threads : Gone(t) \/ t \in Stays)

\* What t heard on c, and what it sent there, the message it is sending included.
HeardOn(t, c) ==
  LET got == SelectSeq(ret[t], LAMBDA r : r.call.op = "recv" /\ r.call.c = c /\ r.n > 0)
  IN  [i \in 1..Len(got) |-> got[i].heard]
SentOn(t, c, size) ==
  LET made == [i \in 1..Len(ret[t]) |-> ret[t][i].call] \o <<th[t].call>>
      sends == SelectSeq(made, LAMBDA call : call.op = "send" /\ call.c = c /\ call.n = size)
  IN  [i \in 1..Len(sends) |-> sends[i].v]

\* A handler gets the packets with the id of its stream and no other, in the order
\* main sent them, then the end; when it returns it has had them all.
Routed ==
  \A i \in 1..PlexerCount :
    LET heard == HeardOn(Handlers[i], StreamChans[i])
        meant == SelectSeq(SentOn("plexer_main", "plexer_c", Packet), LAMBDA id : id \in {i - 1, -1})
    IN  /\ IsPrefix(heard, meant)
        /\ Gone(Handlers[i]) /\ heard # <<>> => heard = meant

\* assert(temp == 3), main.c:96 and 100; and the results main takes from a worker
\* are those of the jobs it gave that worker, in order, although the worker waits
\* with its third result until main has taken the first.
TasksDone ==
  \A i \in 1..2 :
    /\ IsPrefix(HeardOn("workers_main", JobChans[i]), <<NTasks>>)
    /\ IsPrefix(HeardOn("workers_main", ResultChans[i]), <<1, 2, 3>>)

\* The calls in which t has heard something on c.
Hearings(t, c) ==
  {i \in 1..Len(ret[t]) : ret[t][i].call.op = "recv" /\ ret[t][i].call.c = c /\ ret[t][i].n > 0}

\* Each side of the ping-pong hears the number it said, counted up by the other:
\* never its own message, never an old one.  second hears 1 in its first call, 3 in
\* its third; main, whose first two calls make the channel and the process, hears 2
\* in its fourth.
Echoed ==
  /\ \A i \in Hearings("ping_main", "ping_c") : ret["ping_main"][i].heard = i - 2
  /\ \A i \in Hearings("second", "ping_c") : ret["second"][i].heard = i

\* The workers of the duel hear each its own configuration, once, whichever of
\* their timers goes off first, while main is still making the others.
OwnConfiguration ==
  \A i \in 1..3 : \A j, k \in Hearings(Duelists[i], DuelChans[i]) :
    j = k /\ ret[Duelists[i]][j].heard = i
================================================================================
