---------------------------------- MODULE Csp ----------------------------------
(******************************************************************************)
(* CSP processes: _csp starts a function as a RIOT thread of a higher         *)
(* priority than main, csp_dispatch runs it, and main polls, waits for, kills *)
(* and reads the result of processes through their contexts.                  *)
(*                                                                            *)
(* A process is known to main by its context and to RIOT by a pid, which is   *)
(* free again when the process has ended.  main executes the calls of Program *)
(* and is preempted between any two steps by a process that wakes up.         *)
(******************************************************************************)
EXTENDS Integers, Sequences, FiniteSetsExt

CONSTANTS Contexts,    \* the csp_ctx objects, one for each GO in the source
          Pids,        \* what thread_create may hand out, numbers from 1
          Naps,        \* context -> how often its function sleeps
          Endless,     \* contexts whose function then sleeps for ever
          MainPrio,    \* THREAD_PRIORITY_MAIN
          Program      \* main's calls, a sequence of sets of calls

CallOps == {"go", "running", "wait", "kill", "ret"}
Calls == [op : CallOps, x : Contexts]

ASSUME CspAssumption ==
  /\ Contexts # {}
  /\ Pids \subseteq Nat \ {0} /\ Pids # {} /\ IsFiniteSet(Pids)
  /\ Naps \in [Contexts -> Nat]
  /\ Endless \subseteq Contexts
  /\ MainPrio \in Nat \ {0}
  /\ Program \in Seq(SUBSET Calls)

VARIABLES ctx,         \* context -> id, flags and retval of the csp_ctx
          proc,        \* the threads created so far, in order
          table,       \* pid -> index of its thread in proc, 0 for none
          main,        \* main's program counter and locals
          ret,         \* what main's calls returned
          crashed      \* a null pointer was dereferenced

vars == <<ctx, proc, table, main, ret, crashed>>

\* Faulty variant: processes no more urgent than main.
CspPriorityBelow == MainPrio + 1

CspPriority == MainPrio - 1

\* Faulty variant: the neighbouring flag, CSP_SKIP.
CSP_STOP_is_skip == {"skip"}

CSP_STOP == {}         \* 0 << 0: no bit
CSP_RUNNING == {"running"}

Active(i) == proc[i].status \in {"ready", "returned"}
Alive(i) == proc[i].status \in {"ready", "returned", "blocked", "parked"}
MainEnded == main.pc = "idle" /\ Len(ret) = Len(Program)

MainRuns == ~crashed /\ (CspPriority >= MainPrio \/ \A i \in DOMAIN proc : ~Active(i))
Runs(i) == ~crashed /\ Active(i) /\ (CspPriority <= MainPrio \/ MainEnded)

Idle == [pc |-> "idle", op |-> "none", x |-> CHOOSE x \in Contexts : TRUE, id |-> 0, thread |-> 0]

Invokes(call, op) ==
  /\ MainRuns
  /\ main.pc = "idle"
  /\ call.op = op
NextCalls == IF Len(ret) < Len(Program) THEN Program[Len(ret) + 1] ELSE {}
At(pc) == MainRuns /\ main.pc = pc

Goto(pc, call) == main' = [Idle EXCEPT !.pc = pc, !.op = call.op, !.x = call.x] /\ ret' = ret
\* main remembers the call it made last.
Return(op, x, r) ==
  /\ main' = [Idle EXCEPT !.op = op, !.x = x]
  /\ ret' = Append(ret, r)

--------------------------------------------------------------------------------
(* _csp, in three steps: the process may run, and end, before ctx->id is set. *)

Go ==
  \E call \in NextCalls :
    /\ Invokes(call, "go")
    /\ ctx' = [ctx EXCEPT ![call.x] = [id |-> 0, flags |-> CSP_RUNNING, retval |-> 0]]
    /\ Goto("create", call)
    /\ UNCHANGED <<proc, table, crashed>>

\* Faulty variant: a pid in use is handed out again.
FreeOrNot == Pids

Free == {p \in Pids : table[p] = 0}

ThreadCreate ==
  /\ At("create")
  /\ IF Free = {}
     THEN main' = [main EXCEPT !.pc = "created"] /\ UNCHANGED <<proc, table>>
     ELSE LET p == Min(Free)
          IN  /\ proc' = Append(proc, [x |-> main.x, pid |-> p, status |-> "ready",
                                       naps |-> Naps[main.x]])
              /\ table' = [table EXCEPT ![p] = Len(proc')]
              /\ main' = [main EXCEPT !.pc = "created", !.id = p]
  /\ UNCHANGED <<ctx, ret, crashed>>

\* An id of 0 stands for -EOVERFLOW, on which _csp returns nullptr.
Created ==
  /\ At("created")
  /\ ctx' = [ctx EXCEPT ![main.x] = [@ EXCEPT !.id = main.id]]
  /\ Return("go", main.x, IF main.id = 0 THEN 0 ELSE 1)
  /\ UNCHANGED <<proc, table, crashed>>

--------------------------------------------------------------------------------
(* csp_running, csp_wait, csp_ret *)

Running(x) == CSP_RUNNING \subseteq ctx[x].flags

CspRunning ==
  \E call \in NextCalls :
    /\ Invokes(call, "running")
    /\ Return("running", call.x, IF Running(call.x) THEN 1 ELSE 0)
    /\ UNCHANGED <<ctx, proc, table, crashed>>

CspWait ==
  \E call \in NextCalls :
    /\ Invokes(call, "wait")
    /\ Goto("wait", call)
    /\ UNCHANGED <<ctx, proc, table, crashed>>

\* The loop of csp_wait: a turn with the flag set changes nothing.
Waited ==
  /\ At("wait")
  /\ IF Running(main.x) THEN UNCHANGED <<main, ret>> ELSE Return("wait", main.x, 0)
  /\ UNCHANGED <<ctx, proc, table, crashed>>

CspRet ==
  \E call \in NextCalls :
    /\ Invokes(call, "ret")
    /\ Return("ret", call.x, ctx[call.x].retval)
    /\ UNCHANGED <<ctx, proc, table, crashed>>

--------------------------------------------------------------------------------
(* csp_kill: clears the flag, finds the thread by its id, marks it, reaps it. *)

\* Faulty variant: the process keeps its flag.
KilledKeeps(flags) == flags

Killed(flags) == flags \ CSP_RUNNING

CspKill ==
  \E call \in NextCalls :
    /\ Invokes(call, "kill")
    /\ ctx' = [ctx EXCEPT ![call.x] = [@ EXCEPT !.flags = Killed(ctx[call.x].flags)]]
    /\ Goto("get", call)
    /\ UNCHANGED <<proc, table, crashed>>

\* thread_get finds nothing for an id that is not in use: a null pointer goes to
\* sched_set_status.
ThreadGet ==
  LET id == ctx[main.x].id
  IN  /\ At("get")
      /\ IF id \in Pids /\ table[id] # 0
         THEN main' = [main EXCEPT !.pc = "mark", !.id = id, !.thread = table[id]] /\ UNCHANGED crashed
         ELSE crashed' = TRUE /\ UNCHANGED main
      /\ UNCHANGED <<ctx, proc, table, ret>>

SetZombie ==
  /\ At("mark")
  /\ proc' = [proc EXCEPT ![main.thread] = [@ EXCEPT !.status = "zombie"]]
  /\ main' = [main EXCEPT !.pc = "reap"]
  /\ UNCHANGED <<ctx, table, ret, crashed>>

\* Faulty variant: the zombie's entry stays.
Unreaped(id) == table

Reaped(id) == [table EXCEPT ![id] = 0]

\* thread_kill_zombie: 1 when a zombie was removed, -1 when the id is free, else 0.
KillZombie ==
  LET i == table[main.id]
      zombie == i # 0 /\ proc[i].status = "zombie"
  IN  /\ At("reap")
      /\ table' = IF zombie THEN Reaped(main.id) ELSE table
      /\ proc' = IF zombie THEN [proc EXCEPT ![i] = [@ EXCEPT !.status = "stopped"]] ELSE proc
      /\ Return("kill", main.x, IF zombie THEN 1 ELSE IF i = 0 THEN -1 ELSE 0)
      /\ UNCHANGED <<ctx, crashed>>

--------------------------------------------------------------------------------
(* csp_dispatch and the process function *)

\* The function sleeps in a channel call or on a timer ...
Sleep(i) ==
  /\ Runs(i) /\ proc[i].status = "ready"
  /\ proc[i].naps > 0 \/ proc[i].x \in Endless
  /\ proc' = [proc EXCEPT ![i] = [@ EXCEPT
                !.status = IF proc[i].naps > 0 THEN "blocked" ELSE "parked",
                !.naps = IF proc[i].naps > 0 THEN proc[i].naps - 1 ELSE 0]]
  /\ UNCHANGED <<ctx, table, main, ret, crashed>>

\* ... and is woken from outside at any time.
Awake(i) ==
  /\ ~crashed
  /\ proc[i].status = "blocked"
  /\ proc' = [proc EXCEPT ![i] = [@ EXCEPT !.status = "ready"]]
  /\ UNCHANGED <<ctx, table, main, ret, crashed>>

\* The function returns: its value, here its own number, goes into the context.
Dispatched(i) ==
  LET x == proc[i].x
  IN  /\ Runs(i) /\ proc[i].status = "ready"
      /\ proc[i].naps = 0 /\ x \notin Endless
      /\ ctx' = [ctx EXCEPT ![x] = [@ EXCEPT !.retval = i, !.flags = ctx[x].flags \cup CSP_STOP]]
      /\ proc' = [proc EXCEPT ![i] = [@ EXCEPT !.status = "returned"]]
      /\ UNCHANGED <<table, main, ret, crashed>>

\* sched_task_exit takes the thread out of the table; the context keeps its id.
TaskExit(i) ==
  /\ Runs(i) /\ proc[i].status = "returned"
  /\ table' = Reaped(proc[i].pid)
  /\ proc' = [proc EXCEPT ![i] = [@ EXCEPT !.status = "stopped"]]
  /\ UNCHANGED <<ctx, main, ret, crashed>>

--------------------------------------------------------------------------------
Init ==
  /\ ctx = [x \in Contexts |-> [id |-> 0, flags |-> {}, retval |-> 0]]
  /\ proc = <<>>
  /\ table = [p \in Pids |-> 0]
  /\ main = Idle
  /\ ret = <<>>
  /\ crashed = FALSE

Main ==
  \/ Go \/ ThreadCreate \/ Created
  \/ CspRunning \/ CspWait \/ Waited \/ CspRet
  \/ CspKill \/ ThreadGet \/ SetZombie \/ KillZombie

Process(i) == Sleep(i) \/ Awake(i) \/ Dispatched(i) \/ TaskExit(i)

Ended == MainEnded /\ (\A i \in DOMAIN proc : ~Active(i) /\ proc[i].status # "blocked") /\ UNCHANGED vars

Next == Main \/ (\E i \in DOMAIN proc : Process(i)) \/ Ended

Spec == Init /\ [][Next]_vars

\* The scheduler never idles with a ready thread, and what a process sleeps on
\* comes in the end.
FairSpec ==
  /\ Spec
  /\ WF_vars(Main)
  /\ \A i \in 1..Len(Program) : WF_vars(i \in DOMAIN proc /\ Process(i))

--------------------------------------------------------------------------------
Statuses == {"ready", "returned", "blocked", "parked", "zombie", "stopped"}
Places == {"idle", "create", "created", "wait", "get", "mark", "reap"}

\* Every variable has its type.
TypeOK ==
  /\ ctx \in [Contexts -> [id : Pids \cup {0}, flags : SUBSET CSP_RUNNING, retval : Nat]]
  /\ proc \in Seq([x : Contexts, pid : Pids, status : Statuses, naps : Nat])
  /\ table \in [Pids -> Nat]
  /\ main \in [pc : Places, op : CallOps \cup {"none"}, x : Contexts,
               id : Pids \cup {0}, thread : Nat]
  /\ ret \in Seq(Int)
  /\ crashed \in BOOLEAN

\* A living process is found under its pid, and a pid in use leads to a process
\* that has it and has not ended, whatever csp_kill and a return that race with
\* each other do to the table.
OnePidEach ==
  /\ \A i \in DOMAIN proc : Alive(i) => table[proc[i].pid] = i
  /\ \A p \in Pids : table[p] # 0 =>
       /\ table[p] \in DOMAIN proc
       /\ proc[table[p]].pid = p /\ proc[table[p]].status # "stopped"

\* csp_kill(ctx) marks the thread of ctx and no other, although ids are reused.
KillsItsOwn == main.pc \in {"mark", "reap"} => proc[main.thread].x = main.x

Last(op) == main.pc = "idle" /\ main.op = op /\ ret # <<>>

\* When csp_kill returns nothing of the process is left but its context: it does
\* not run, its id is free for another, and csp_running says no.
OnlyTheContextRemains ==
  Last("kill") =>
    /\ ~Running(main.x)
    /\ \A i \in DOMAIN proc : proc[i].x = main.x => ~Alive(i)
    /\ \A p \in Pids : table[p] # 0 => proc[table[p]].x # main.x

\* csp_ret(GO(f)) is f's result when f does not block: a process runs to its end
\* before GO returns.
ResultOfGo ==
  Last("go") /\ ret[Len(ret)] = 1 /\ Naps[main.x] = 0 /\ main.x \notin Endless =>
    /\ ctx[main.x].retval = Len(proc)
    /\ proc[Len(proc)].x = main.x

\* csp_wait returns at last.
WaitEnds == main.pc = "wait" ~> main.pc # "wait"
================================================================================
