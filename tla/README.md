# TLA+ models of the RIOT CSP module

This directory models `src/modules/csp` (`csp.c`, `include/csp.h`): Go-like
channels and processes for the RIOT operating system. TLC checks the models on
small instances, TLAPS proves theorems about them for every instance.

## 1. Inventory of the system

| part | state | operations | how it interacts |
|---|---|---|---|
| Kernel (RIOT, not in this repository) | a status per thread, priorities, the running thread | `sched_set_status`, `sched_switch`, `thread_yield*`, `irq_disable/restore`, `thread_create`, `thread_kill_zombie`, ring buffers | called by everything below |
| Channel | `creator`, `flags` (closed, buffered), `thread_read_blocked`, `thread_write_blocked`, two ring buffers `files[2]` | `channel_make`, `send`, `recv`, `drop`, `try_send`, `try_recv`, `send_msg`, `recv_msg`, `close`, `set_buffered`, `set_owner` | shared memory between threads; a thread that must wait writes its name into a slot and sleeps, the other side wakes it |
| Selection | none | `channel_send_select`, `channel_recv_select` | busy loops over the try operations |
| Process | `csp_ctx`: `id`, `flags`, `retval`; the RIOT thread it names | `_csp` (`GO`), `csp_dispatch`, `csp_running`, `csp_wait`, `csp_ret`, `csp_kill` | the process writes its context, its owner reads it; the pid is RIOT's and is reused |
| Examples, measurements | local | programs over the two parts above | clients |

What is hard in it:

- *Interleaving.* Interrupts are disabled inside a call, but every
  `channel_sched_self` and `channel_sched_other` lets other threads run in the
  middle of it; the tests for `closed`, and `flags |= ...`, run unprotected.
- *One slot, several uses.* A slot holds one thread, and is used for "I wait for
  the other side to begin" and "I wait for data or room" alike.
- *Framing.* A message is a header of `sizeof (size_t)` bytes and its data, cut
  into as many chunks as the ring buffer demands. Whoever loses a byte loses the
  framing of everything behind it.
- *Two orders of events.* A process is more urgent than `main`, so it may run, or
  end, between any two lines of `main`.
- *Reused names.* A context names its thread by pid; a pid outlives its thread.

What makes each part correct:

- Channel: messages are whole, in order, delivered once; nobody who can be served
  sleeps for ever; an unbuffered call meets its counterpart; a wake-up only hits
  a thread that waits for it; closing stops data without damaging what was sent.
- Process: a pid leads to one living thread; `csp_kill` hits its own process and
  leaves only the context; `csp_wait` ends when the process does; `csp_ret(GO(f))`
  is `f`'s result.
- Selection: a selected message is received once; a thread that polls finds what a more urgent
  one brought or took, at whichever moment of the loop that was.

`PROJECT.json` lists each component, and the hazards with their lines.

## 2. Modules

| module | models | proved about |
|---|---|---|
| `Riot` | what the module uses of RIOT: thread status, strict priorities, ring buffer | |
| `Channel` | every operation on channels, step by step, and the life of the threads that use them | |
| `Selection` | the select loops over the try operations | |
| `ChannelProperties` | the properties of channels | |
| `MessageFifo` | abstract specification: each direction of each channel is a bounded queue of whole messages | |
| `ChannelFifo` | the refinement mapping from `Channel` to `MessageFifo` | |
| `Clients` | the programs of `examples/` and `measurements/`, with what they must do | |
| `ChannelProofs` | theorems about `Channel` | `TypeCorrect`, `WaitersSleep`, `NoneLost`, `NoneLostByMakes`, `GoneStayGone`, `ClosedStaysDry` |
| `IntegrityProofs` | where the messages of a history lie in a ring buffer; theorems about what receivers take | `MessagesStayWhole`, `WholeAcrossMakes`, `WholeUntilRefused` |
| `FifoProofs` | the refinement of `MessageFifo`, step by step | `ChannelsAreQueues` |
| `PairProofs` | theorems about two threads whose calls match | `ConversationsNeverHang`, `ConversationsLeaveNothing` |
| `TryProofs` | theorems about programs of one-word messages | `WordsStayWhole`, `TriesTakeAllOrNothing` |
| `Csp` | processes and their contexts, with their properties | |
| `MeetProofs` | theorems about two threads that meet on unbuffered channels | `CallsMeet`, `MeetingsKeepMessages`, `MeetingsLeaveNothing`, `MeetingsNeverHang` |
| `ClientProofs` | what the programs of `Clients` are told | `DuelistsHearTheirOwn`, `PlayersHearBack` |
| `CspProofs` | theorems about `Csp`, and about `csp_kill` | `ProcessesTyped`, `PidsAreUnique`, `GoGivesResult`; `KillsHitTheirOwn`, `NothingElseRemains`, `KilledLeaveTheContext` |
| `MCChannel`, `MCTries`, `MCClients`, `MCCsp` | programs and constants for TLC | |

`Riot` is extended by `Channel`; `Selection`, `ChannelProperties` and `ChannelFifo` extend
`Channel`; `Clients` runs its programs on `Channel`. `Csp` stands alone: it shows the steps of
`_csp` and `csp_kill`, and reused pids, which `Channel` takes as single steps (`Go`, `Kill`).

Definitions called *Faulty variant* in `Riot`, `Channel`, `Selection`, `Clients` and `Csp` are
plausible mistakes in the definition that follows them. The specifications do not use them:
`PROJECT.json` pairs each with the property that breaks when it is put in.

### `Channel`

*Steps.* `irq_disable` stops preemption, so a step of the model is the code from
one place where another thread may run to the next: from `irq_disable`, or the
return of `channel_sched_self`/`channel_sched_other`, to the next `irq_restore`.
An access outside such a stretch that others can disturb is a step of its own:
the tests of `closed` at the start of a call (`Enter`), the load and the store of
`flags |= ...` (`FlagsLoad`, `FlagsStore`).

*Program counters.* `th[t].pc` is the place in the code at which thread `t` goes
on; `th[t].call` is the call, `rb` the ring buffer it uses, `size`, `bytes`, `out`
its locals.

| place | code |
|---|---|
| `send`, `recv`, `drop` | before `irq_disable` and `channel_synchronize` |
| `send_body`, `recv_body`, `drop_body` | back from `channel_synchronize` |
| `send_hdr`, `recv_hdr`, `drop_hdr` | back from `channel_sched_self` in the header loop |
| `send_loop`, `recv_loop`, `drop_loop` | back from `channel_sched_self` in the data loop |
| `send_sent`, `recv_got`, `drop_dropped` | back from `channel_sched_other` in the data loop |
| `try_send`, `try_recv` | before `irq_disable` |
| `flags` | between the load and the store of `c->flags` |

`Block` is `channel_sched_self`, `Wake` is `channel_sched_other`, `Meet` and
`Synchronize` are `channel_synchronize`; `SendHeader`/`SendLoop`,
`RecvHeader`/`RecvLoop`, `DropHeader`/`DropLoop` are the two loops of each call.

*Data.* A byte in a ring buffer is a cell: the message it belongs to and its
offset there. Header cells are ordinary bytes, so lost framing is represented: a
receiver that reads anything but a whole header as a size gets any value of
`Garbage`. `sent` and `rcvd` are history variables.

*Programs.* What a thread runs is `Code(t, h)`: the set of calls it may make after the calls
whose results are `h`. One element is a program, several are all programs of a shape, none is
the end of the thread. `ret[t]` holds those results, and what was in a message that was taken
(`heard`, which is how a program branches on what it receives); `Returned` adds one. A call
with `again = n` that returns 0 takes the last `n` calls out of `ret[t]`: the loop that
contains them starts over, and polling has finitely many states.

*Threads.* `Lives` is what happens to threads between their calls: `Go` starts one that has
ended (a stack can be used again), `Kill` is a `csp_kill` from outside, which leaves the victim's
name in its slot, `Sleep` and `Timer` a wait for a timer, `Spin` a computation without end,
`Exit` the return of the thread function. `Boot` says which threads run in the beginning.

*Undefined behaviour.* Preemption between the tests and `irq_disable`, and in
`flags |= ...`, is explored. Calls from interrupt handlers (`irq_is_in`) are not
modelled.

### `Selection`

`channel_send_select` and `channel_recv_select` call a try operation on each channel in turn
until one succeeds. `SelectTry` is the next try: the channel after the last miss, with `again`
set on the last channel of the array.

### `Clients`

One definition for each thread function of the programs: `PlexerMain`, `PacketPlexer`,
`PacketHandler` (packet_plexer), `WorkersMain`, `Jobber` (workergroups), `ReadmeMain`,
`HelloChannel`, `HelloBoth` (readme), `SimpleMain`, `Hello` (`simple.h`), `HelloMain`, `CspPrint`
(hello_world), `PingMain`, `SecondThread` (ipc_pingpong_csp), `GoroutinesMain`, `SleepyF`
(goroutines), `DuelMain`, `DuelWorker` (thread_duel_csp), `ApiMain`, `Func`
(measurements/api), `SimpleWorkMain`, `WorkCsp` (measurements/simple_work). Each program has
threads and channels of its own, so one configuration holds them all and `Boot` chooses the
board that is switched on. A function reads its own results and nothing else: that it waits
for `heard` results, or sends what it was told to, is as in the C code.

Sizes are in words of four bytes, rounded up: `CHANNEL_BUFSIZE` is 8, `size_t` 2, an `msg_t` 4,
a packet 17, so messages cross the ring in the same number of chunks as on a board.
`MCClients` adds a board of its own, `reaper_main`, on which a process is killed while it sleeps
in a receive and its channel is used afterwards.

### `Csp`

`main` starts, polls, waits for, kills and reads processes through contexts
(`ctx`); `table` is RIOT's `sched_threads`, `proc` the threads created so far.
`GO` is three steps (context, `thread_create`, store of the id) and `csp_kill`
four (flag, `thread_get`, `sched_set_status`, `thread_kill_zombie`), since a
process that wakes up runs in between. The function of a process sleeps `Naps`
times and then returns, or (`Endless`) never does. `crashed` says that
`csp_kill` passed the null pointer that `thread_get` returns for a free pid on to
`sched_set_status`; nothing is claimed after that.

## 3. Runs

| run | question | result |
|---|---|---|
| `stream` | one buffered channel, one sender, one receiver: are messages whole, in order, delivered, and does everybody get on? Does the channel implement `MessageFifo`? | holds |
| `processes` | `main` and a process, with and without buffer, both directions, barriers, drops: do unbuffered calls meet, do all calls return? | holds |
| `closing` | a channel closed by either side at any moment: is what was delivered whole, does no payload enter afterwards? | holds |
| `tries` | the try operations and selects, with messages of one word, among equals and with a more urgent partner: all or nothing, nothing torn, does each select for which a more urgent partner works return? | holds |
| `clients` | the programs of the examples and measurements: does each bring its messages where they belong, and end with all its processes? | holds |
| `csp` | processes, kills and reused pids: does a pid lead to one living thread, does a kill leave only the context, is `csp_ret(GO(f))` `f`'s result? | holds |
| `producer` | a process sends `main` two messages, `main` receives two | hangs |
| `readme_drop` | `examples/readme/simple.h` with an argument of 256 bytes, too long for its receiver | hangs |
| `drain` | can a receiver empty a closed channel? | no |
| `torn` | a sender finds room for a part of a header | the oldest message is damaged |
| `wait` | does `csp_wait` end when the process has returned? | no |
| `stale_kill` | does `csp_kill` hit the process of its context? | not after its pid was reused |

The last six are disagreements between the code and its own documents; the
`findings` of `PROJECT.json` quote both sides.

### Properties

- `TypeOK` — types, ring buffers within `CHANNEL_BUFSIZE`, no call past the end of its data.
- `WaiterAsleep` — whoever is named in a slot sleeps there and nowhere else, so a
  wake-up never hits a wrong thread.
- `NoLostWaiter` — whoever sleeps is named in a slot, so a wake-up can reach it.
- `NoHang` — it never happens that some sleep and nobody can run.
- `Integrity`, `NothingLeft`, `ImplementsFifo` — messages are whole, in order, once, and all.
- `Rendezvous` — where calls match, the i-th call of neither side ends before the
  other has begun its i-th.
- `ClosedTakesNoPayload`, `IntegrityUntilRefused`, `DrainsBeforeClosed` — closing.
- `TryIsAllOrNothing` — a try operation that returns 0 has done nothing.
- `AllReturn`, `SelectsReturn`, `ClientsEnd` — liveness: calls, selects (of a thread whose partner is more
  urgent) and whole programs come to their end; `WaitEnds`, that `csp_wait` does, is what `wait` refutes. `ClientsEnd` excepts the threads in `Stays`, which the
  programs leave asleep or busy on purpose.
- `Routed`, `TasksDone`, `Echoed`, `OwnConfiguration` — what main of a program hears and what it sent
  or started fit together, per stream, worker, round and process.
- `MakesUnused` — a channel is made anew only when nobody uses it and nothing is in it.
- `StaysGone` — no wake-up starts a thread that has ended or was killed. For channels this is the test in
  `channel_sched_other` (`csp.c:126`); for timers it rests on the model's own `Timer`, which stands for RIOT
  and wakes only who sleeps on one.
- `OnePidEach`, `KillsItsOwn`, `OnlyTheContextRemains`, `ResultOfGo` — processes.

### Bounds, and why they are enough

- *Two threads in `MCChannel`, and on each board of `MCTries`.* A channel is made for two parties. More on one side overwrite each
  other's names: a hazard, not promised to work.
- *Ring of 3 or 4 bytes, header of 1, messages of 1 to 5.* A byte of the model
  stands for `sizeof (size_t)` bytes: with sizes that are multiples of a word the ring
  fills to the last byte, has room for a header but no data, and cuts messages into one, two and
  more chunks. What changes when a header can be torn is the subject of `torn`
  (header of 2).
- *Four messages, three on `ch2`.* The ring wraps and is full and empty in between; a
  second message meets the end of a first one.
- *Equal priorities* in `stream`, `closing` and the first board of `tries`: the model lets any ready
  thread of the highest priority go on, so every interleaving that any priorities
  allow is one of these.  `processes` and `producer` use the real ones: the process
  first.
- *`tries`*: on the first board two threads take a channel over, try and select. On the second `chooser`
  selects among two channels which hold two messages each: it fills them, starts `server`, which is more
  urgent and sleeps on a timer before each of the five things it does, and then sends once and
  receives twice, for each of which it must wait for `server`, whichever channel that chose. A ring
  of 3 bytes would have room for a header and no word: `channel_try_send` then leaves a header
  behind when it returns 0 (`csp.c:272`), and TLC finds `TryIsAllOrNothing` violated (`PairsFit` in section 4).
- *`clients`* runs ten programs and the reaper's board, each in full, with the processes more
  urgent than `main` and `CHANNEL_BUFSIZE` in its real proportion to the messages. Cut down
  are: 2 streams for 5 and 4 packets of either stream for 25 (each stream is used more than
  once, and the ring is full and wraps many times: a packet is twice its size); `Rounds = 2`
  for the repetitions of measurements and for the ping-pong, whose rounds differ only in the
  number; `WorkCount = 4`; the arguments of `simple.h` are one word or longer than the ring
  (`StringSizes`), not empty.
- *Two pids, three contexts, fifteen calls* in `csp`: the table overflows, pids are
  reused, kills race with returns.
- `FifoCapacity` bounds messages under way by what a ring of `BufSize` holds.

`CHECK_DEADLOCK FALSE` appears where a program may rightly stop: a receiver of a
closed or polled channel for which nothing comes (`closing`, the first board of `tries`), the threads that a
program leaves asleep or busy (`clients`; `ClientsEnd` says which), a process
that sleeps for ever or a null pointer (`csp`, `stale_kill`), and in the runs that show a
hang as a violated invariant.

### Fairness

`BusySpec` of `Channel`, used by `clients`, is weak fairness of `Next`: RIOT never idles while a
thread is ready, and a timer goes off at last. It chooses no thread over another.

`FairSpec` of `Channel` is weak fairness of each thread's steps. With the real
priorities (`processes`) it demands nothing of a less urgent thread while a more urgent one is
ready, since `Runs` is then false. Among equals (`stream`) it holds because a thread that is woken
queues behind the others, and every call there blocks or ends: no program with this
fairness polls.

The selects poll without a yield (`csp.h:161`, `csp.h:179`), and by default a build has no round robin
(`RR ?= 0` in the repository's Makefile; only goroutines and the duels set it). A partner of the same or a lower
priority then never runs while a thread selects: the process of `README.md:374-412` starves `main`.
`TimedSpec`, used by `tries`, promises nothing of the kind: it is `BusySpec` and weak fairness of `Timer`, since
a timer goes off although another thread computes for ever. `SelectsReturn` is claimed of `chooser` only,
whose partner is more urgent; with the same priority for both TLC finds it violated.

`FairSpec` of `Csp`, used by `wait`, is weak fairness of `main` and of each process, what it sleeps on
(`Awake`) included. The other runs claim safety alone and need no fairness.

## 4. Proofs

`ChannelProofs` proves, for all `Threads`, `Chans`, `Code`, `Boot`, priorities, buffer
and header sizes, and both ring buffer builds (`Tsrb`), from `RiotAssumption` and
`ChannelAssumption`:

- `TypeCorrect`: `Spec => []TypeOK`. `TypeOK` is inductive because `InBounds`, the
  bounds on what a call has sent or taken, is a part of it: without it the rest of the
  data could have a negative length. One lemma for each loop (`SendLoopType`, ...), then
  one for each group of actions.
- `WaitersSleep`: `Spec => []WaiterAsleep`, given `NoKills`: no thread of the program kills another.
  A killed thread's name stays in its slot, and `GO` may start the same thread again, which
  then has a slot and does not sleep. The key is that each step of a call does one of
  three things with threads (`Orderly`: nothing, `Wake`, or `Block` at a place that
  waits on that slot), and that the thread that takes it is ready, hence in no slot
  (`RunsAlone`). `WaiterAsleep` includes that a name is in one slot only, which is
  needed for `Wake`: it clears one slot.
- `NoneLost`: `Spec => []NoLostWaiter`, given `NoKills`, `NoMakes` and `MonoChannels`: at most one thread
  of the program may wait on each side of a channel, and none is made anew. The invariant
  `InProgram` (a thread in a call is at a place of that call, and the call is in its
  program) links the slots with the program. Without the assumption
  `channel_sched_self` overwrites a name; `readme_drop` is such a program.
- `NoneLostByMakes`: `Spec /\ MakesUnused => []NoLostWaiter`, without `NoMakes`. `channel_make` clears
  both slots: a thread asleep in one would be lost. That programs make a channel only when nobody
  uses it is a matter of their order, so it is a hypothesis about the behaviour, one that the
  run `clients` checks of every program in it; no call of `channel_make` is polled (`MakesOnce`).
- `GoneStayGone`: `Spec => StaysGone`, for every program, those that kill included. A killed thread's
  name stays in a slot, or on the timer of a rendezvous: the wake-up asks whether it is gone. A
  step that blocks concerns the thread that takes it, which lives. `Timer`, external to this code, wakes only
  threads asleep on a timer: that part is the model's, not a test of `csp.c`. `InProgram` says that whoever is
  in a call is there by its program, which a `go` is the only way back into.
- `ClosedStaysDry`: `Spec => ClosedTakesNoPayload`, without any assumption on the program. Every step
  `KeepsClosed`: what it adds to a ring buffer of a closed channel is no data of a late message.
  The data loop tests for `closed` before each chunk, wherever it was entered from; headers are
  no data; `channel_try_send`, which tests once and too early, is the exception in the property.
  The lemmas say which cells an add to and a drop from a ring buffer leave behind which.

`IntegrityProofs` and `FifoProofs` prove from the same assumptions on the constants:

- `MessagesStayWhole`: `Spec => []Integrity`, given `Disciplined`, `NoCloses` and `NoMakes`.
- `WholeAcrossMakes`: `Spec /\ MakesUnused => []Integrity`, given `Disciplined` and `NoCloses`: where a
  channel is made again, as `simple_work` does in every round, it is empty and nobody uses it.
- `WholeUntilRefused`: `Spec => []IntegrityUntilRefused`, given `Disciplined` and `Straight`; channels
  may be closed by anybody at any moment.
- `ChannelsAreQueues`: `Spec => Fifo!Init /\ [][Fifo!Next]_(Fifo!fifo)`, the safety part of
  `ImplementsFifo`, given `Disciplined`, `NoCloses`, `NoMakes` and `HasData`: each step puts one whole message
  into one queue that has room for it, takes the next one out of one queue, or stutters.

What they assume of the program is what the code needs, and each part is broken by a program:

| assumption | without it |
|---|---|
| `OneWriter`, `OneReader` (`Disciplined`) | two senders, or two receivers, of one file take turns in the middle of a message |
| `DropsAlone` | `channel_drop` gives up in the middle of a message when somebody else waits for writes (`csp.c:420`) |
| `WholeWords`: `BufSize` and all sizes are multiples of a header | headers are torn: run `torn` |
| `PlainCalls`: no try operations, no `set_owner`, kill; a thread makes only the channels it is the creator of | `channel_try_recv` truncates a message, a killed thread leaves half of one, a new owner changes the files |
| `NoMakes`, or `MakesUnused` | what is in the ring buffers of a channel that is made anew is lost, and a thread in the middle of a message goes on in an empty one |
| `NoCloses` | a close cuts a message short: run `drain` |
| `Straight`: no `send_msg`, `set_buffered`, `go`, and no call starts over | `channel_send_msg` puts a header into a closed channel; the store of `channel_set_buffered` may undo a close; a new thread, or a loop, forgets that it was refused (the property reads `ret`) |
| `HasData` | a `channel_send_msg` of no data sends nothing but a header, which takes less room than a message |

The program of `stream` meets all but `Straight`; so, with `MakesUnused`, do thread_duel_csp and
`simple_work`. That of `closing`, without its
`send_msg`, meets those of `WholeUntilRefused`.

`Integrity` is about two histories, the invariant must say what is in the ring buffer between
them. `Stream(q, s, r, out, took)` says: the last message of `s` lacks its last `out` bytes, the first
one not in `r` lacks `took` bytes at its front, and `q` is what remains, header and data of each
message behind the other. `Streams` says it of every file, with `out` and `took` read off the
threads (`Writing`, `Reading`, `Committed`). What a receiver has in its hands, what it
believes the size to be, and that there is a header in front whenever it looks for
one, follow. `Base` is what else a step needs: `TypeOK`, `WaiterAsleep`, `InProgram`, and that a thread
in a call uses the file the channel's owner gives it (`Settled`). After a refused call
the stream may be lost, which is why `WholeUntilRefused` shows that `Refused \/ Streams` is
invariant. That a reader does not take a chunk for a header needs `WholeWords`: what lies in the
ring is always a multiple of a header long. TLC checked `Base /\ Streams` on the programs of
`stream`, `processes` (without `channel_make`) and `closing` (without `send_msg`) first. How many
messages are under way (`FifoCapacity`) is the one fact that needs induction: `Fits` argues with
the first message that would not fit (`LeastNatural`, from the library's well-foundedness of `Nat`).

`PairProofs` takes this up for two threads whose calls match, a `Conversation`: turn `i` is a channel
and a direction, and in its `i`-th call one thread sends there and the other receives.

| assumption (`Conversation`) | it says | why the code needs it |
|---|---|---|
| two threads, `InTurn` | the `i`-th calls of both are about the same file, until the turns are over | otherwise both may wait for each other by program |
| `Unsynchronized` | channels are buffered, or only `send_msg` and `recv_msg` are used | with unbuffered channels the wake-up for "data taken" also ends the wait of the next call: run `producer` |
| `Talks` | only sends and receives, of data, into buffers | a call without data waits in `channel_synchronize`; a `channel_drop` may sleep beside the data (`csp.c:424`) |
| `RoomForData` | the ring holds whole words, more than a header, and is not a `tsrb` | a header fills the ring and receiver and sender wait for each other (`csp.h:90`); a `TSRB` sender goes on only when there is something to read |

- `ConversationsNeverHang`: `Spec => []NoHang`, for all priorities, sizes and numbers of turns, any
  channels, in both directions.
- `ConversationsLeaveNothing`: `Spec => []NothingLeft`.

The invariant is `Talking /\ NoLostWaiter`, beside the streams above. `Counts` says that a file has as many
messages as its writer had turns there, and one more while it writes, and lost as many as its
reader had turns; `Waiting`, that who sleeps in a send has a full ring before it, in a
receive an empty one; `Engaged`, that a thread in a call is in a call of its turn. Of two
threads that do not run let one be asleep and have had no more turns than the other (`NotAhead`). In the
same turn they are at the same file, which cannot be full and empty. A turn or more behind, the counts say that all it sent was
taken, so the ring is empty (`AllTaken`) and not full; or that the message it waits for was put in
whole, so the ring is not empty (`SomeLeft`). This is where the proof needs to know that a
thread that sleeps is registered, and the reverse: that no two threads ever sleep is why no name is
overwritten (`NoLostWaiterKept`), which `NoneLost` had to assume. The program of `stream` is a
conversation; TLC checked the invariant on it and on one over two channels in both directions first.

`MeetProofs` is about unbuffered channels, where calls meet in `channel_synchronize`. In a `Meeting(p, m, turns)`
turn `i` is a channel, who sends there, and whether data or a call without data (a barrier):

| assumption (`Meeting`) | it says | why the code needs it |
|---|---|---|
| two threads, `ByTurns` | the `i`-th blocking calls of both are those of turn `i`; besides, a thread may sleep on a timer or make a `channel_set_buffered(c, false)`, and `p` may make channels before anything else | otherwise both may wait for each other by program |
| `Prio[p] < Prio[m]` | `p` is more urgent, as a process is than `main` (`CSP_PRIORITY`) | threads of one priority may run between the wake-up and the check of what it was for |
| `Unhurried` | after a message `p` does not send on the same channel again in its next call | the wake-up for "data taken" ends the wait of the next `channel_send`: run `producer` |
| drops | only `p` drops, and only on a channel it made | whoever did not make the channel synchronizes in `channel_drop` as a sender (`csp.c:388`); a less urgent dropper may sleep beside the data (`csp.c:424`) |
| `HdrSize < BufSize`, no `tsrb` | as in `RoomForData`; sizes need not be whole words | |

- `CallsMeet`: `Spec => []Rendezvous`: no call returns before its counterpart was made.
- `MeetingsKeepMessages`: `Spec => []Integrity`; `MeetingsLeaveNothing`: `Spec => []NothingLeft`.
- `MeetingsNeverHang`: `Spec => []NoHang`, when both come to every meeting and use no timer (`Attended`).

All four follow from one invariant, `Grounded /\ Stage /\ Integrity`, with `Following` (what a thread has called is what
its program allowed). `Stage` lists where a meeting can be, and each step goes from one of these to one
of these: `Apart`, at most one waits for the other and every ring buffer is empty; `Met`, both have come;
`Due`, `p` waits for the header; `Draws`, `m` sends and `p` takes; `Pours`, `p` sends; `Ahead`, `p` has returned and `m`
has still to. Why these are all is where priority comes in: whenever `p` is ready it runs until it
sleeps or returns, so `m` never sees `p` between a wake-up and the loop it goes back to. In `Ahead` `p` may already
be asleep in its next call while `m` takes the last chunk, whose `channel_sched_other` wakes whoever waits on that
side: `Unhurried` is what keeps that from being `p`. `Carries` says what lies in the ring during a message, byte by
byte: one part of one message, so nothing needs a multiple of a header. `Grounded` ties sleeping threads
to their slots and `p`'s channels to `p`. TLC checked the invariant, and that the assumptions hold at every
reachable state, on a program of meetings in both directions over two channels (101,761 states).

`TryProofs` is about the programs the try operations are made for, those whose messages are one word:

| assumption (`OneWord`) | it says | why the code needs it |
|---|---|---|
| `PairsFit` | the ring holds a whole number of words with their headers, and is not a `tsrb` | `channel_try_send` looks for room for the data, not for the header, and leaves half a header behind where only that fits (`csp.c:272`); in a `TSRB` build it looks at what there is to read |
| `WordCalls` | what is sent is one word, or nothing; nobody closes, makes or kills | `channel_try_recv` takes a word whatever the header says (`csp.c:360`); the rest as above |
| `OneTaker` | a thread that blocks in a receive or a drop is the only one that takes from its channel | what the others take meanwhile was sent after the message in its hands |

- `WordsStayWhole`: `Spec => []Integrity`. Any number of threads may send on a channel, try and select,
  and, where all only try, receive; owners may change (`channel_set_owner`). `MessagesStayWhole`
  forbids all of it, since there a message goes through the ring in pieces.
- `TriesTakeAllOrNothing`: `Spec => TryIsAllOrNothing`. `channel_try_recv` returns what it took, and
  `channel_try_send` leaves nothing behind when it returns 0.

The invariant is `WordBase /\ WholeFiles`: every file holds whole messages (`Len(files[c][k]) \in
Pairs`), so that there is room for one or for nothing and one to read or nothing (`PairsOfRoom`,
`WordGoesIn`, `WordComesOut`); hence nobody ever waits in the middle of a message (`Placed`), each step
moves a whole one, and who writes and who reads a file need not be told apart. A thread that tries is
left alone until it has tried (`TryNext`). The programs on the first board of `tries` meet `OneWord`; TLC checked
`Places` and the lengths on them first. On the second, `chooser` and `server` both take from a channel, from
files of their own, which `OneTaker` does not tell apart: it is only model-checked.

`CspProofs` proves, for all `Contexts`, `Pids`, `Naps`, `Endless`, `MainPrio` and `Program`, from
`CspAssumption`, that this is inductive:

    IInv == TypeOK /\ OnePidEach /\ KillOK /\ FastOK /\ CreatedOK /\ GoOK

- `ProcessesTyped`: `Spec => []TypeOK`. `KillOK`, the thread `csp_kill` found exists until it is
  marked, is needed for the store into it.
- `PidsAreUnique`: `Spec => []OnePidEach`. Threads leave the table in two places, the reaping of a
  zombie and the end of a thread (`Leaves`), and enter it in one, at a free pid (`MinIsFree`).
- `GoGivesResult`: `Spec => []ResultOfGo`. `main` takes a step only when no process could
  (`MainAlone`, from `CspPriority = MainPrio - 1`), so a function that does not block (`Fast`) has
  returned when `GO` goes on (`CreatedOK`), and no older process of the same context is
  left that could overwrite its result (`AllDoneBut`).

It also proves what `csp_kill` does, of the programs of `main` for which the code can keep it:

| assumption | it says | why the code needs it |
|---|---|---|
| `KillsWhatRuns` | since `main` started what it kills, it killed it nowhere else, and unless its function never ends started nothing of another context | a context keeps the id of a process that ended, and RIOT gives the pid to the next thread: `stale_kill` |
| `OneAtATime` | `main` starts a function that may block only where it killed the one it started before | the second `GO` overwrites the id of the first, whose process nobody can find any more |

- `KillsHitTheirOwn`: `Spec => []KillsItsOwn`, under `KillsWhatRuns`. The invariant, `KillsItsOwn /\
  NamesOK`, says which ids still *name* their process: RIOT finds it or nothing under the id, and one
  that never ends is there. Returns of other processes only free pids; what gives them out again
  are the `GO`s the assumption counts.
- `NothingElseRemains`: `Spec /\ []KillsItsOwn => []OnlyTheContextRemains`, under `OneAtATime`: however the kills
  come to hit their own, a killed context is not running, none of its processes is alive and
  no pid leads to one. Its invariant, `RemainsInv`, follows the one zombie between `csp_kill`'s mark and
  its reaping (`ZombiesOK`, `VictimOK`), and the contexts that have no process (`ClearedOK`).
- `KilledLeaveTheContext` combines them: `Spec => []OnlyTheContextRemains`, under both assumptions.

The program of `csp` meets both assumptions; TLC checked the invariants on it, and `NamesOK` on longer
programs, first.

`ClientProofs` is about what the programs of `Clients` hear. Its first part holds for every program:
`Provenance` says that every byte in a ring buffer, every byte in the hands of a call, and every
word that a receive told a thread (`heard`) was *said* on that channel: some call that sends there
in some thread's program carries it (`SaidOn`). It is an invariant without any assumption, try
operations, closes, kills and torn headers included, since no step makes up data (`StepDoes`,
`Hands`: each step moves bytes between one channel and the hands of one call).

- `DuelistsHearTheirOwn`: `Spec => []OwnConfiguration`, given `DuelBoard`: `duel_main` and the three workers
  run the code of thread_duel_csp, and nobody else sends on their channels. Whatever else is on
  the board, whatever the priorities, the sizes and the order of the timers. `main` says on the channel
  of worker `i` nothing but `i` (`OwnSaid`), so by `Provenance` the worker hears nothing else; and it
  hears once because the receive is its second call and is never repeated (`Awaits`). The code of
  `clients` meets `DuelBoard`.
- `PlayersHearBack`: `Spec => []Echoed`, given `PingBoard`: the board is flashed with ipc_pingpong_csp
  alone, as the repository builds it, `second` is started by `main` and not at boot, and `BufSize`
  and `msg_t` are whole words. For every number of rounds, all priorities, buffered or not.
  Its invariant is `Streams /\ Game /\ AllOpen`. `Game` has one part for the histories, `Numbered`
  (main's `j`-th message says `2 * j - 1`, second's says `2 * j`), and one for the players, `Place`:
  who has sent `s` numbers and taken `r` has `s = r` or is one ahead, and has one number more
  in the history while it still puts it into the ring (`UnderWay`). `Streams` gives what is taken: the `j`-th message
  taken is the `j`-th sent. `AllOpen` is part of the invariant because the code does contain closes,
  which `MessagesStayWhole` does not allow: both loops end with one, but only after a call that returned 0,
  and `EndsIn` says that none has. Before `second` runs nothing has happened (`NotBegun`). TLC
  checked the three parts on a board with this program alone, with three rounds, first; `clients` checks
  `Echoed` with the other programs beside it, which `PingBoard` leaves out.

Only model-checked:

- `NoHang` and `NothingLeft` where a channel is closed or tried, where a program mixes buffered
  and unbuffered channels (`processes`), or where more than two threads talk; whole messages
  where longer ones meet try operations or kills.
- `Routed`: the plexer takes over channels with `channel_set_owner` while their first users wait, and a packet is not
  a whole number of words (17 of 4 bytes, headers of 2); and it is stated with `SelectSeq`, which no
  prover here can expand. `TasksDone`: a worker's results are one word of 4 bytes, half a header,
  so `WholeWords` fails, and results and tasks are told apart by a `SelectSeq`, too.
- Liveness, `ImplementsFifo`'s promise that everything is taken included, which is out of the prover's
  reach, as are facts that need induction over data.

## 5. Not modelled, and why

- Calls from interrupt handlers: the module's tests for `irq_is_in` are left out. No program of
  the repository makes one.
- Two builds: runs use `ringbuffer`, the default (`USETSRB := 0`). The `TSRB` build is a constant
  of the model (its `rb_avail` counts the other way round: `Riot!RbAvail`), and the theorems that do not exclude it
  hold. With `Tsrb = TRUE` the programs of `stream` and `processes` break `NoHang` at their first
  message larger than the ring; those of `closing` keep their properties.
- A ring no larger than a header (`CHANNEL_BUFSIZE <= sizeof (size_t)`): a header
  fills it and sender and receiver wait for each other; a configuration error.
- The select example of `README.md`, whose process starves `main` (see Fairness).
- `csp_stop`, declared in `csp.c:588` and `README.md:223`, has no definition.
- The waiting strategies `nice_wait` and `yield_wait` of thread_duel_csp, printing, clocks and
  what the measurements compute from them: time is not modelled.
- `measurements/thread_dueling` and the two `wrapper_thread` functions of `measurements/simple_work` use
  RIOT's threads and `msg_send`, not this module; `measurements/ipc_pingpong_csp` calls functions that
  `csp.h` no longer has; `old_main.h` is built by nothing.
- An empty argument of `simple.h`: the message without data is never sent and its receive never
  ends. One input shows it without any interleaving.
- Stacks and the lifetime of `csp_ctx` objects: `GO` on a stack whose process still runs.

## 6. Plan

Done: `Riot`, `Channel`, `MessageFifo`, `ChannelFifo`; `Csp`; `Selection`; `Clients`; the theorems of
section 4.

What could follow:

1. `System`: the steps of `_csp` and `csp_kill` in `Csp` composed with the calls of `Channel`, so that a
   context is killed while its process is in the middle of a call (`Kill` does it in one step).
2. A run of the `TSRB` build; `channel_close` racing `channel_set_buffered` in a program that does it.
3. Proofs: two threads that meet on some channels and use buffers on others (`processes`); messages that are not
   whole words, in a ring from which they are taken before the next header (`Routed`, `TasksDone`).
