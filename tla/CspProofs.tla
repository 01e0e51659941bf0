------------------------------- MODULE CspProofs -------------------------------
(******************************************************************************)
(* Theorems about Csp, for every set of contexts and pids and every program   *)
(* of main.                                                                   *)
(******************************************************************************)
EXTENDS Csp, SequenceTheorems, WellFoundedInduction, TLAPS

ProcessSet == [x : Contexts, pid : Pids, status : Statuses, naps : Nat]

MainSet == [pc : Places, op : CallOps \cup {"none"}, x : Contexts, id : Pids \cup {0}, thread : Nat]

\* What csp_kill works on, between its steps.
KillOK == main.pc \in {"mark", "reap"} => main.id \in Pids /\ main.thread \in DOMAIN proc

\* A function that does not block runs from its start to its end.
Fast(x) == Naps[x] = 0 /\ x \notin Endless
FastOK ==
  \A i \in DOMAIN proc : Fast(proc[i].x) =>
    proc[i].naps = 0 /\ proc[i].status \notin {"blocked", "parked"}

\* None of them but thread n has its return still before it.
AllDoneBut(n) ==
  \A i \in DOMAIN proc : i # n /\ Fast(proc[i].x) => proc[i].status # "ready"

\* Between the thread_create of a GO and its end.
CreatedOK ==
  /\ main.pc = "create" => main.id = 0
  /\ main.pc = "created" /\ main.id # 0 =>
       /\ Len(proc) # 0 /\ proc[Len(proc)].x = main.x
       /\ AllDoneBut(Len(proc))
       /\ Fast(main.x) => proc[Len(proc)].status = "ready" \/ ctx[main.x].retval = Len(proc)

\* After a GO.
GoOK ==
  Last("go") /\ ret[Len(ret)] = 1 =>
    /\ Len(proc) # 0 /\ proc[Len(proc)].x = main.x
    /\ AllDoneBut(0)
    /\ Fast(main.x) => ctx[main.x].retval = Len(proc)

IInv == TypeOK /\ OnePidEach /\ KillOK /\ FastOK /\ CreatedOK /\ GoOK

--------------------------------------------------------------------------------
(* Parts of a step *)

\* thread_create hands out a pid that is free.
LEMMA MinIsFree ==
  ASSUME Free # {}
  PROVE  Min(Free) \in Free
<1>1. Free \subseteq Nat
  BY CspAssumption DEF Free
<1>2. IsWellFoundedOn(OpToRel(<, Nat), Nat)
  BY NatLessThanWellFounded
<1>3. PICK p \in Free : \A q \in Free : ~(<<q, p>> \in OpToRel(<, Nat))
  BY <1>1, <1>2, WFMin
<1>4. \A q \in Free : ~(q < p)
  BY <1>1, <1>3, Zenon DEF OpToRel
<1>5. \A q \in Free : p <= q
  BY <1>1, <1>4, SMT
<1> QED
  BY <1>5 DEF Min

\* main takes a step only when no process could.
LEMMA MainAlone ==
  ASSUME MainRuns
  PROVE  \A i \in DOMAIN proc : proc[i].status \notin {"ready", "returned"}
<1>1. ~(CspPriority >= MainPrio)
  BY CspAssumption DEF CspPriority
<1> QED
  BY <1>1 DEF MainRuns, Active

LEMMA GotoMain ==
  ASSUME TypeOK, NEW pc \in Places, NEW call \in Calls, Goto(pc, call)
  PROVE  /\ main' \in MainSet
         /\ main'.pc = pc /\ main'.op = call.op /\ main'.x = call.x /\ main'.id = 0
         /\ ret' = ret
<1>1. (CHOOSE x \in Contexts : TRUE) \in Contexts
  BY CspAssumption
<1> QED
  BY <1>1 DEF Goto, Idle, Calls, MainSet

LEMMA ReturnMain ==
  ASSUME TypeOK, NEW op \in CallOps, NEW x \in Contexts, NEW r \in Int, Return(op, x, r)
  PROVE  /\ main' \in MainSet
         /\ main'.pc = "idle" /\ main'.op = op /\ main'.x = x
         /\ ret' \in Seq(Int) /\ ret'[Len(ret')] = r
<1>1. (CHOOSE y \in Contexts : TRUE) \in Contexts
  BY CspAssumption
<1>2. ret' \in Seq(Int) /\ ret'[Len(ret')] = r
  BY AppendProperties DEF Return, TypeOK
<1> QED
  BY <1>1, <1>2 DEF Return, Idle, Places, MainSet

LEMMA ProgramCalls ==
  ASSUME NEW call \in NextCalls, TypeOK
  PROVE  call \in Calls /\ call.op \in CallOps /\ call.x \in Contexts
<1>1. Len(ret) < Len(Program) /\ call \in Program[Len(ret) + 1]
  BY DEF NextCalls
<1>2. Len(ret) + 1 \in 1..Len(Program)
  BY <1>1, LenProperties, CspAssumption DEF TypeOK
<1>3. Program[Len(ret) + 1] \in SUBSET Calls
  BY <1>2, ElementOfSeq, CspAssumption
<1> QED
  BY <1>1, <1>3 DEF Calls

LEMMA ProcFacts ==
  ASSUME TypeOK
  PROVE  /\ Len(proc) \in Nat /\ DOMAIN proc = 1..Len(proc)
         /\ \A i \in DOMAIN proc : proc[i] \in ProcessSet
<1>1. proc \in Seq(ProcessSet)
  BY DEF TypeOK, ProcessSet
<1>2. Len(proc) \in Nat /\ DOMAIN proc = 1..Len(proc)
  BY <1>1, LenProperties
<1>3. ASSUME NEW i \in DOMAIN proc PROVE proc[i] \in ProcessSet
  BY <1>1, <1>2, <1>3, ElementOfSeq
<1> QED
  BY <1>2, <1>3

\* One process changes its state.
LEMMA ProcExcept ==
  ASSUME TypeOK, NEW i \in DOMAIN proc, NEW p \in ProcessSet, proc' = [proc EXCEPT ![i] = p]
  PROVE  /\ proc' \in Seq(ProcessSet)
         /\ Len(proc') = Len(proc) /\ DOMAIN proc' = DOMAIN proc
         /\ proc'[i] = p
         /\ \A j \in DOMAIN proc : j # i => proc'[j] = proc[j]
<1>1. proc \in Seq(ProcessSet) /\ i \in 1..Len(proc)
  BY ProcFacts DEF TypeOK, ProcessSet
<1>2. /\ proc' \in Seq(ProcessSet) /\ Len(proc') = Len(proc)
      /\ \A j \in 1..Len(proc) : proc'[j] = IF j = i THEN p ELSE proc[j]
  BY <1>1, ExceptSeq
<1> QED
  BY <1>1, <1>2, LenProperties

--------------------------------------------------------------------------------
(* The steps of main that leave the threads alone *)

LEMMA Starts ==
  ASSUME IInv, NEW call \in NextCalls, NEW op \in CallOps, NEW pc \in Places \ {"create", "created", "mark", "reap", "idle"},
         Invokes(call, op), Goto(pc, call), 
         UNCHANGED <<proc, table, crashed>>,
         ctx' \in [Contexts -> [id : Pids \cup {0}, flags : SUBSET CSP_RUNNING, retval : Nat]]
  PROVE  IInv'
<1>1. call \in Calls /\ TypeOK
  BY ProgramCalls DEF IInv
<1>2. main' \in MainSet /\ main'.pc = pc /\ ret' = ret
  BY <1>1, GotoMain
<1>3. TypeOK'
  BY <1>1, <1>2 DEF TypeOK, MainSet
<1>4. OnePidEach'
  BY DEF IInv, OnePidEach, Alive
<1>5. FastOK'
  BY DEF IInv, FastOK
<1> QED
  BY <1>2, <1>3, <1>4, <1>5 DEF IInv, KillOK, CreatedOK, GoOK, Last

LEMMA Returns ==
  ASSUME IInv, NEW op \in CallOps \ {"go"}, NEW x \in Contexts, NEW r \in Int,
         Return(op, x, r), UNCHANGED <<ctx, proc, table, crashed>>
  PROVE  IInv'
<1>1. TypeOK
  BY DEF IInv
<1>2. main' \in MainSet /\ main'.pc = "idle" /\ main'.op = op /\ ret' \in Seq(Int)
  BY <1>1, ReturnMain
<1>3. TypeOK'
  BY <1>1, <1>2 DEF TypeOK, MainSet
<1>4. OnePidEach'
  BY DEF IInv, OnePidEach, Alive
<1>5. FastOK'
  BY DEF IInv, FastOK
<1> QED
  BY <1>2, <1>3, <1>4, <1>5 DEF IInv, KillOK, CreatedOK, GoOK, Last

LEMMA PollStep ==
  ASSUME IInv, CspRunning \/ CspWait \/ Waited \/ CspRet
  PROVE  IInv'
<1>1. TypeOK
  BY DEF IInv
<1>2. CASE CspRunning
  <2>1. PICK call \in NextCalls :
          /\ Return("running", call.x, IF Running(call.x) THEN 1 ELSE 0)
          /\ UNCHANGED <<ctx, proc, table, crashed>>
    BY <1>2 DEF CspRunning
  <2>2. call.x \in Contexts
    BY <1>1, ProgramCalls
  <2> QED
    BY <2>1, <2>2, Returns DEF CallOps
<1>3. CASE CspWait
  <2>1. PICK call \in NextCalls :
          Invokes(call, "wait") /\ Goto("wait", call) /\ UNCHANGED <<ctx, proc, table, crashed>>
    BY <1>3 DEF CspWait
  <2>2. ctx' \in [Contexts -> [id : Pids \cup {0}, flags : SUBSET CSP_RUNNING, retval : Nat]]
    BY <1>1, <2>1 DEF TypeOK
  <2> QED
    BY <2>1, <2>2, Starts DEF CallOps, Places
<1>4. CASE Waited
  <2>1. main.x \in Contexts
    BY <1>1 DEF TypeOK
  <2>2. CASE Running(main.x)
    <3>1. UNCHANGED vars
      BY <1>4, <2>2 DEF Waited, vars
    <3> QED
      BY <3>1 DEF IInv, TypeOK, OnePidEach, Alive, KillOK, FastOK, CreatedOK, GoOK, Last, AllDoneBut, vars
  <2>3. CASE ~Running(main.x)
    BY <1>4, <2>1, <2>3, Returns DEF Waited, CallOps
  <2> QED
    BY <2>2, <2>3
<1>5. CASE CspRet
  <2>1. PICK call \in NextCalls :
          Return("ret", call.x, ctx[call.x].retval) /\ UNCHANGED <<ctx, proc, table, crashed>>
    BY <1>5 DEF CspRet
  <2>2. call.x \in Contexts
    BY <1>1, ProgramCalls
  <2>3. ctx[call.x].retval \in Nat
    BY <1>1, <2>2 DEF TypeOK
  <2> QED
    BY <2>1, <2>2, <2>3, Returns DEF CallOps
<1> QED
  BY <1>2, <1>3, <1>4, <1>5

--------------------------------------------------------------------------------
(* GO *)

LEMMA GoStep ==
  ASSUME IInv, Go
  PROVE  IInv'
<1>1. TypeOK
  BY DEF IInv
<1>2. PICK call \in NextCalls :
        /\ ctx' = [ctx EXCEPT ![call.x] = [id |-> 0, flags |-> CSP_RUNNING, retval |-> 0]]
        /\ Goto("create", call)
        /\ UNCHANGED <<proc, table, crashed>>
  BY DEF Go
<1>3. call \in Calls
  BY <1>1, ProgramCalls
<1>4. main' \in MainSet /\ main'.pc = "create" /\ main'.id = 0 /\ ret' = ret
  BY <1>1, <1>2, <1>3, GotoMain DEF Places
<1>5. TypeOK'
  BY <1>1, <1>2, <1>4 DEF TypeOK, MainSet
<1>6. OnePidEach'
  BY <1>2 DEF IInv, OnePidEach, Alive
<1>7. FastOK'
  BY <1>2 DEF IInv, FastOK
<1> QED
  BY <1>4, <1>5, <1>6, <1>7 DEF IInv, KillOK, CreatedOK, GoOK, Last

LEMMA ThreadCreateStep ==
  ASSUME IInv, ThreadCreate
  PROVE  IInv'
<1>1. TypeOK /\ main.pc = "create" /\ main.id = 0 /\ UNCHANGED <<ctx, ret, crashed>>
  BY DEF IInv, CreatedOK, ThreadCreate, At
<1>2. CASE Free = {}
  <2>1. main' = [main EXCEPT !.pc = "created"] /\ UNCHANGED <<proc, table>>
    BY <1>2 DEF ThreadCreate
  <2>2. main'.pc = "created" /\ main'.id = 0
    BY <1>1, <2>1 DEF TypeOK
  <2>3. TypeOK'
    BY <1>1, <2>1 DEF TypeOK, Places
  <2>4. OnePidEach'
    BY <2>1 DEF IInv, OnePidEach, Alive
  <2>5. FastOK'
    BY <2>1 DEF IInv, FastOK
  <2> QED
    BY <2>2, <2>3, <2>4, <2>5 DEF IInv, KillOK, CreatedOK, GoOK, Last
<1>3. CASE Free # {}
  <2> DEFINE p == Min(Free)
             new == [x |-> main.x, pid |-> p, status |-> "ready", naps |-> Naps[main.x]]
             n == Len(proc) + 1
  <2>1. p \in Pids /\ table[p] = 0
    BY <1>3, MinIsFree DEF Free
  <2>2. /\ proc' = Append(proc, new)
        /\ table' = [table EXCEPT ![p] = Len(proc')]
        /\ main' = [main EXCEPT !.pc = "created", !.id = p]
    BY <1>3 DEF ThreadCreate
  <2>3. new \in ProcessSet
    BY <1>1, <2>1, CspAssumption DEF TypeOK, ProcessSet, Statuses
  <2> HIDE DEF p, new
  <2>4. proc \in Seq(ProcessSet) /\ Len(proc) \in Nat /\ DOMAIN proc = 1..Len(proc)
    BY <1>1, ProcFacts DEF TypeOK, ProcessSet
  <2>5. /\ proc' \in Seq(ProcessSet) /\ Len(proc') = n
        /\ DOMAIN proc' = 1..n
        /\ proc'[n] = new
        /\ \A i \in DOMAIN proc : proc'[i] = proc[i]
    BY <2>2, <2>3, <2>4, AppendProperties
  <2>6. main'.pc = "created" /\ main'.id = p /\ main'.x = main.x /\ main.x \in Contexts
    BY <1>1, <2>2 DEF TypeOK
  <2>7. TypeOK'
    <3>1. table' \in [Pids -> Nat]
      BY <1>1, <2>1, <2>2, <2>4, <2>5 DEF TypeOK
    <3>2. main' \in MainSet
      BY <1>1, <2>1, <2>2 DEF TypeOK, MainSet, Places
    <3> QED
      BY <1>1, <2>5, <3>1, <3>2 DEF TypeOK, ProcessSet, MainSet
  <2>8. new.x = main.x /\ new.pid = p /\ new.status = "ready" /\ new.naps = Naps[main.x]
    BY DEF new
  <2>9. table' = [table EXCEPT ![p] = n] /\ table \in [Pids -> Nat]
    BY <1>1, <2>2, <2>5 DEF TypeOK
  <2>10. \A i \in DOMAIN proc : i \in 1..n /\ i # n /\ i # 0
    BY <2>4
  <2>11. \A i \in 1..n : i = n \/ i \in DOMAIN proc
    BY <2>4
  <2>12. OnePidEach'
    <3>1. ASSUME NEW i \in DOMAIN proc', Alive(i)' PROVE table'[proc'[i].pid] = i
      <4>1. CASE i = n
        BY <2>1, <2>5, <2>8, <2>9, <4>1
      <4>2. CASE i \in DOMAIN proc
        <5>1. Alive(i) /\ proc'[i] = proc[i] /\ proc[i].pid \in Pids
          BY <1>1, <2>5, <3>1, <4>2, ProcFacts DEF Alive, ProcessSet
        <5>2. table[proc[i].pid] = i
          BY <4>2, <5>1 DEF IInv, OnePidEach
        <5> QED
          BY <2>1, <2>9, <2>10, <4>2, <5>1, <5>2
      <4> QED
        BY <2>5, <2>11, <4>1, <4>2
    <3>2. ASSUME NEW q \in Pids, table'[q] # 0
          PROVE  /\ table'[q] \in DOMAIN proc'
                 /\ proc'[table'[q]].pid = q /\ proc'[table'[q]].status # "stopped"
      <4>1. CASE q = p
        BY <2>1, <2>4, <2>5, <2>8, <2>9, <4>1
      <4>2. CASE q # p
        <5>1. table'[q] = table[q]
          BY <2>9, <4>2
        <5>2. table[q] \in DOMAIN proc /\ proc[table[q]].pid = q /\ proc[table[q]].status # "stopped"
          BY <3>2, <5>1 DEF IInv, OnePidEach
        <5> QED
          BY <2>5, <2>10, <5>1, <5>2
      <4> QED
        BY <4>1, <4>2
    <3> QED
      BY <3>1, <3>2 DEF OnePidEach
  <2>13. FastOK'
    <3>1. ASSUME NEW i \in DOMAIN proc', Fast(proc'[i].x)
          PROVE  proc'[i].naps = 0 /\ proc'[i].status \notin {"blocked", "parked"}
      <4>1. CASE i = n
        BY <2>5, <2>8, <3>1, <4>1 DEF Fast
      <4>2. CASE i \in DOMAIN proc
        BY <2>5, <3>1, <4>2 DEF IInv, FastOK
      <4> QED
        BY <2>5, <2>11, <4>1, <4>2
    <3> QED
      BY <3>1 DEF FastOK, Fast
  <2>14. \A i \in DOMAIN proc' : i # n => proc'[i].status # "ready"
    <3>1. \A i \in DOMAIN proc : proc[i].status # "ready"
      BY MainAlone DEF ThreadCreate, At
    <3> QED
      BY <2>5, <2>11, <3>1
  <2>15. CreatedOK'
    BY <2>4, <2>5, <2>6, <2>8, <2>14 DEF CreatedOK, AllDoneBut
  <2> QED
    BY <2>6, <2>7, <2>12, <2>13, <2>15 DEF IInv, KillOK, GoOK, Last
<1> QED
  BY <1>2, <1>3

LEMMA CreatedStep ==
  ASSUME IInv, Created
  PROVE  IInv'
<1>1. TypeOK /\ main.pc = "created" /\ UNCHANGED <<proc, table, crashed>>
  BY DEF IInv, Created, At
<1>2. main.x \in Contexts /\ main.id \in Pids \cup {0} /\ 0 \notin Pids
  BY <1>1, CspAssumption DEF TypeOK
<1>3. /\ main' \in MainSet /\ main'.pc = "idle" /\ main'.op = "go" /\ main'.x = main.x
      /\ ret' \in Seq(Int) /\ ret'[Len(ret')] = IF main.id = 0 THEN 0 ELSE 1
  BY <1>1, <1>2, ReturnMain DEF Created, CallOps
<1>4. /\ ctx' \in [Contexts -> [id : Pids \cup {0}, flags : SUBSET CSP_RUNNING, retval : Nat]]
      /\ ctx'[main.x].retval = ctx[main.x].retval
  BY <1>1, <1>2 DEF Created, TypeOK
<1>5. TypeOK'
  BY <1>1, <1>3, <1>4 DEF TypeOK, MainSet
<1>6. OnePidEach'
  BY <1>1 DEF IInv, OnePidEach, Alive
<1>7. FastOK'
  BY <1>1 DEF IInv, FastOK
<1>8. GoOK'
  <2>1. SUFFICES ASSUME main.id # 0
                 PROVE  /\ Len(proc) # 0 /\ proc[Len(proc)].x = main.x
                        /\ AllDoneBut(0)
                        /\ Fast(main.x) => ctx[main.x].retval = Len(proc)
    BY <1>1, <1>3, <1>4 DEF GoOK, AllDoneBut
  <2>2. \A i \in DOMAIN proc : proc[i].status # "ready"
    BY MainAlone DEF Created, At
  <2>3. Len(proc) \in DOMAIN proc
    BY <1>1, <2>1, ProcFacts DEF IInv, CreatedOK
  <2> QED
    BY <1>1, <2>1, <2>2, <2>3 DEF IInv, CreatedOK, AllDoneBut
<1> QED
  BY <1>3, <1>5, <1>6, <1>7, <1>8 DEF IInv, KillOK, CreatedOK

--------------------------------------------------------------------------------
(* csp_kill *)

LEMMA CspKillStep ==
  ASSUME IInv, CspKill
  PROVE  IInv'
<1>1. TypeOK
  BY DEF IInv
<1>2. PICK call \in NextCalls :
        /\ Invokes(call, "kill")
        /\ ctx' = [ctx EXCEPT ![call.x] = [@ EXCEPT !.flags = Killed(ctx[call.x].flags)]]
        /\ Goto("get", call)
        /\ UNCHANGED <<proc, table, crashed>>
  BY DEF CspKill
<1>3. call.x \in Contexts
  BY <1>1, ProgramCalls
<1>4. ctx' \in [Contexts -> [id : Pids \cup {0}, flags : SUBSET CSP_RUNNING, retval : Nat]]
  <2>1. ctx[call.x] \in [id : Pids \cup {0}, flags : SUBSET CSP_RUNNING, retval : Nat]
    BY <1>1, <1>3 DEF TypeOK
  <2>2. Killed(ctx[call.x].flags) \in SUBSET CSP_RUNNING
    BY <2>1 DEF Killed
  <2> DEFINE c == [ctx[call.x] EXCEPT !.flags = Killed(ctx[call.x].flags)]
  <2>3. c \in [id : Pids \cup {0}, flags : SUBSET CSP_RUNNING, retval : Nat]
    BY <2>1, <2>2
  <2>4. ctx' = [ctx EXCEPT ![call.x] = c]
    BY <1>2
  <2> HIDE DEF c
  <2> QED
    BY <1>1, <1>3, <2>3, <2>4 DEF TypeOK
<1> QED
  BY <1>2, <1>4, Starts DEF CallOps, Places

LEMMA ThreadGetStep ==
  ASSUME IInv, ThreadGet
  PROVE  IInv'
<1> DEFINE id == ctx[main.x].id
<1>1. TypeOK /\ main.pc = "get" /\ UNCHANGED <<ctx, proc, table, ret>>
  BY DEF IInv, ThreadGet, At
<1>2. OnePidEach'
  BY <1>1 DEF IInv, OnePidEach, Alive
<1>3. FastOK'
  BY <1>1 DEF IInv, FastOK
<1>4. CASE id \in Pids /\ table[id] # 0
  <2>1. main' = [main EXCEPT !.pc = "mark", !.id = id, !.thread = table[id]] /\ UNCHANGED crashed
    BY <1>4 DEF ThreadGet
  <2>2. table[id] \in DOMAIN proc
    BY <1>4 DEF IInv, OnePidEach
  <2>3. main'.pc = "mark" /\ main'.id = id /\ main'.thread = table[id]
    BY <1>1, <2>1 DEF TypeOK
  <2>4. TypeOK'
    BY <1>1, <1>4, <2>1 DEF TypeOK, Places
  <2>5. KillOK'
    BY <1>1, <1>4, <2>2, <2>3 DEF KillOK
  <2> QED
    BY <1>2, <1>3, <2>3, <2>4, <2>5 DEF IInv, CreatedOK, GoOK, Last
<1>5. CASE ~(id \in Pids /\ table[id] # 0)
  <2>1. crashed' = TRUE /\ UNCHANGED main
    BY <1>5 DEF ThreadGet
  <2>2. TypeOK'
    BY <1>1, <2>1 DEF TypeOK
  <2> QED
    BY <1>1, <1>2, <1>3, <2>1, <2>2 DEF IInv, KillOK, CreatedOK, GoOK, Last
<1> QED
  BY <1>4, <1>5

LEMMA SetZombieStep ==
  ASSUME IInv, SetZombie
  PROVE  IInv'
<1> DEFINE i == main.thread
           p == [proc[i] EXCEPT !.status = "zombie"]
<1>1. /\ TypeOK /\ main.pc = "mark" /\ UNCHANGED <<ctx, table, ret, crashed>>
      /\ proc' = [proc EXCEPT ![i] = p] /\ main' = [main EXCEPT !.pc = "reap"]
  BY DEF IInv, SetZombie, At
<1>2. i \in DOMAIN proc /\ main.id \in Pids
  BY <1>1 DEF IInv, KillOK
<1>3. proc[i] \in ProcessSet
  BY <1>1, <1>2, ProcFacts
<1>4. /\ p \in ProcessSet /\ p.x = proc[i].x /\ p.pid = proc[i].pid
      /\ p.naps = proc[i].naps /\ p.status = "zombie"
  BY <1>3 DEF ProcessSet, Statuses
<1> HIDE DEF p
<1>5. /\ proc' \in Seq(ProcessSet) /\ DOMAIN proc' = DOMAIN proc /\ proc'[i] = p
      /\ \A j \in DOMAIN proc : j # i => proc'[j] = proc[j]
  BY <1>1, <1>2, <1>4, ProcExcept
<1>6. /\ main'.pc = "reap" /\ main'.id = main.id /\ main'.thread = main.thread
      /\ main' \in MainSet
  BY <1>1 DEF TypeOK, MainSet, Places
<1>7. TypeOK'
  BY <1>1, <1>5, <1>6 DEF TypeOK, MainSet, ProcessSet
<1>8. OnePidEach'
  <2>1. ASSUME NEW j \in DOMAIN proc', Alive(j)' PROVE table'[proc'[j].pid] = j
    BY <1>1, <1>4, <1>5, <2>1 DEF IInv, OnePidEach, Alive
  <2>2. ASSUME NEW q \in Pids, table'[q] # 0
        PROVE  /\ table'[q] \in DOMAIN proc'
               /\ proc'[table'[q]].pid = q /\ proc'[table'[q]].status # "stopped"
    BY <1>1, <1>4, <1>5, <2>2 DEF IInv, OnePidEach
  <2> QED
    BY <2>1, <2>2 DEF OnePidEach
<1>9. FastOK'
  BY <1>4, <1>5 DEF IInv, FastOK, Fast
<1>10. KillOK'
  BY <1>2, <1>5, <1>6 DEF KillOK
<1> QED
  BY <1>6, <1>7, <1>8, <1>9, <1>10 DEF IInv, CreatedOK, GoOK, Last

\* A thread that is not to run again leaves the table.
LEMMA Leaves ==
  ASSUME TypeOK, OnePidEach, FastOK, NEW i \in DOMAIN proc, table[proc[i].pid] = i,
         table' = Reaped(proc[i].pid),
         proc' = [proc EXCEPT ![i] = [@ EXCEPT !.status = "stopped"]]
  PROVE  /\ proc' \in Seq(ProcessSet) /\ Len(proc') = Len(proc) /\ DOMAIN proc' = DOMAIN proc
         /\ \A j \in DOMAIN proc : proc'[j].x = proc[j].x /\ proc'[j].pid = proc[j].pid
         /\ \A j \in DOMAIN proc : j # i => proc'[j] = proc[j]
         /\ proc'[i].status = "stopped"
         /\ table' \in [Pids -> Nat]
         /\ OnePidEach' /\ FastOK'
<1> DEFINE p == [proc[i] EXCEPT !.status = "stopped"]
<1>1. proc[i] \in ProcessSet
  BY ProcFacts
<1>2. /\ p \in ProcessSet /\ p.x = proc[i].x /\ p.pid = proc[i].pid
      /\ p.naps = proc[i].naps /\ p.status = "stopped"
  BY <1>1 DEF ProcessSet, Statuses
<1> HIDE DEF p
<1>3. /\ proc' \in Seq(ProcessSet) /\ Len(proc') = Len(proc) /\ DOMAIN proc' = DOMAIN proc
      /\ proc'[i] = p
      /\ \A j \in DOMAIN proc : j # i => proc'[j] = proc[j]
  <2>1. proc' = [proc EXCEPT ![i] = p]
    BY DEF p
  <2> QED
    BY <1>2, <2>1, ProcExcept
<1>4. proc[i].pid \in Pids /\ table' = [table EXCEPT ![proc[i].pid] = 0]
  BY <1>1 DEF Reaped, ProcessSet
<1>5. table' \in [Pids -> Nat]
  BY <1>4 DEF TypeOK
<1>6. OnePidEach'
  <2>1. ASSUME NEW j \in DOMAIN proc', Alive(j)' PROVE table'[proc'[j].pid] = j
    <3>1. j # i
      BY <1>2, <1>3, <2>1 DEF Alive
    <3>2. j \in DOMAIN proc /\ proc'[j] = proc[j] /\ Alive(j)
      BY <1>3, <2>1, <3>1 DEF Alive
    <3>3. table[proc[j].pid] = j /\ proc[j].pid \in Pids
      BY <3>2, ProcFacts DEF OnePidEach, ProcessSet
    <3> QED
      BY <1>4, <3>1, <3>2, <3>3 DEF TypeOK
  <2>2. ASSUME NEW q \in Pids, table'[q] # 0
        PROVE  /\ table'[q] \in DOMAIN proc'
               /\ proc'[table'[q]].pid = q /\ proc'[table'[q]].status # "stopped"
    <3>1. q # proc[i].pid /\ table'[q] = table[q]
      BY <1>4, <2>2 DEF TypeOK
    <3>2. table[q] \in DOMAIN proc /\ proc[table[q]].pid = q /\ proc[table[q]].status # "stopped"
      BY <2>2, <3>1 DEF OnePidEach
    <3>3. table[q] # i
      BY <3>1, <3>2
    <3> QED
      BY <1>3, <3>1, <3>2, <3>3
  <2> QED
    BY <2>1, <2>2 DEF OnePidEach
<1>7. FastOK'
  BY <1>2, <1>3 DEF FastOK, Fast
<1> QED
  BY <1>2, <1>3, <1>5, <1>6, <1>7

LEMMA KillZombieStep ==
  ASSUME IInv, KillZombie
  PROVE  IInv'
<1> DEFINE i == table[main.id]
           zombie == i # 0 /\ proc[i].status = "zombie"
           r == IF zombie THEN 1 ELSE IF i = 0 THEN -1 ELSE 0
<1>1. TypeOK /\ main.pc = "reap" /\ UNCHANGED <<ctx, crashed>> /\ Return("kill", main.x, r)
  BY DEF IInv, KillZombie, At
<1>2. main.id \in Pids /\ main.x \in Contexts
  BY <1>1 DEF IInv, KillOK, TypeOK
<1>3. r \in Int
  OBVIOUS
<1>4. main' \in MainSet /\ main'.pc = "idle" /\ main'.op = "kill" /\ ret' \in Seq(Int)
  BY <1>1, <1>2, <1>3, ReturnMain DEF CallOps
<1>5. proc' \in Seq(ProcessSet) /\ table' \in [Pids -> Nat] /\ OnePidEach' /\ FastOK'
  <2>1. CASE zombie
    <3>1. table' = Reaped(main.id) /\ proc' = [proc EXCEPT ![i] = [@ EXCEPT !.status = "stopped"]]
      BY <2>1 DEF KillZombie
    <3>2. i \in DOMAIN proc /\ proc[i].pid = main.id
      BY <1>2, <2>1 DEF IInv, OnePidEach
    <3> QED
      BY <1>1, <3>1, <3>2, Leaves DEF IInv
  <2>2. CASE ~zombie
    <3>1. UNCHANGED <<proc, table>>
      BY <2>2 DEF KillZombie
    <3> QED
      BY <1>1, <3>1 DEF IInv, TypeOK, ProcessSet, OnePidEach, Alive, FastOK
  <2> QED
    BY <2>1, <2>2
<1>6. TypeOK'
  BY <1>1, <1>4, <1>5 DEF TypeOK, MainSet, ProcessSet
<1> QED
  BY <1>4, <1>5, <1>6 DEF IInv, KillOK, CreatedOK, GoOK, Last

--------------------------------------------------------------------------------
(* Processes *)

\* A process goes from one status to another and keeps its pid.
LEMMA Proceeds ==
  ASSUME TypeOK, OnePidEach, FastOK, NEW i \in DOMAIN proc, NEW p \in ProcessSet,
         Alive(i), p.status \in {"ready", "returned", "blocked", "parked"},
         p.x = proc[i].x, p.pid = proc[i].pid,
         Fast(p.x) => p.naps = 0 /\ p.status \notin {"blocked", "parked"},
         proc' = [proc EXCEPT ![i] = p], UNCHANGED table
  PROVE  /\ proc' \in Seq(ProcessSet) /\ Len(proc') = Len(proc) /\ DOMAIN proc' = DOMAIN proc
         /\ proc'[i] = p
         /\ \A j \in DOMAIN proc : j # i => proc'[j] = proc[j]
         /\ OnePidEach' /\ FastOK'
<1>1. /\ proc' \in Seq(ProcessSet) /\ Len(proc') = Len(proc) /\ DOMAIN proc' = DOMAIN proc
      /\ proc'[i] = p
      /\ \A j \in DOMAIN proc : j # i => proc'[j] = proc[j]
  BY ProcExcept
<1>2. OnePidEach'
  <2>1. ASSUME NEW j \in DOMAIN proc', Alive(j)' PROVE table'[proc'[j].pid] = j
    BY <1>1, <2>1 DEF OnePidEach, Alive
  <2>2. ASSUME NEW q \in Pids, table'[q] # 0
        PROVE  /\ table'[q] \in DOMAIN proc'
               /\ proc'[table'[q]].pid = q /\ proc'[table'[q]].status # "stopped"
    BY <1>1, <2>2 DEF OnePidEach
  <2> QED
    BY <2>1, <2>2 DEF OnePidEach
<1>3. FastOK'
  BY <1>1 DEF FastOK, Fast
<1> QED
  BY <1>1, <1>2, <1>3

\* A function that goes to sleep, or is woken, changes the status of its thread.
LEMMA Nap ==
  ASSUME TypeOK, NEW i \in DOMAIN proc, Sleep(i) \/ Awake(i)
  PROVE  \E p \in ProcessSet :
           /\ p.status \in {"ready", "blocked", "parked"}
           /\ p.x = proc[i].x /\ p.pid = proc[i].pid
           /\ proc' = [proc EXCEPT ![i] = p]
<1>0. proc[i] \in ProcessSet
  BY ProcFacts
<1>1. CASE Sleep(i)
  <2>1. PICK s \in {"blocked", "parked"}, n \in Nat :
          proc' = [proc EXCEPT ![i] = [proc[i] EXCEPT !.status = s, !.naps = n]]
    <3>1. CASE proc[i].naps > 0
      <4>1. proc' = [proc EXCEPT ![i] = [proc[i] EXCEPT !.status = "blocked", !.naps = proc[i].naps - 1]]
        BY <1>1, <3>1 DEF Sleep
      <4>2. proc[i].naps - 1 \in Nat
        BY <1>0, <3>1 DEF ProcessSet
      <4> QED
        BY <4>1, <4>2
    <3>2. CASE ~(proc[i].naps > 0)
      <4>1. proc' = [proc EXCEPT ![i] = [proc[i] EXCEPT !.status = "parked", !.naps = 0]]
        BY <1>1, <3>2 DEF Sleep
      <4> QED
        BY <4>1
    <3> QED
      BY <3>1, <3>2
  <2> DEFINE p == [proc[i] EXCEPT !.status = s, !.naps = n]
  <2>2. p \in ProcessSet /\ p.status = s /\ p.x = proc[i].x /\ p.pid = proc[i].pid
    BY <1>0 DEF ProcessSet, Statuses
  <2> QED
    BY <2>1, <2>2
<1>2. CASE Awake(i)
  <2> DEFINE p == [proc[i] EXCEPT !.status = "ready"]
  <2>1. p \in ProcessSet /\ p.status = "ready" /\ p.x = proc[i].x /\ p.pid = proc[i].pid
    BY <1>0 DEF ProcessSet, Statuses
  <2>2. proc' = [proc EXCEPT ![i] = p]
    BY <1>2 DEF Awake
  <2> QED
    BY <2>1, <2>2
<1> QED
  BY <1>1, <1>2

\* What a function that blocks does between its start and its return.
LEMMA NapStep ==
  ASSUME IInv, NEW i \in DOMAIN proc, Sleep(i) \/ Awake(i)
  PROVE  IInv'
<1>1. TypeOK /\ OnePidEach /\ FastOK /\ UNCHANGED <<ctx, table, main, ret, crashed>>
  BY DEF IInv, Sleep, Awake
<1>2. proc[i] \in ProcessSet
  BY <1>1, ProcFacts
<1>3. ~Fast(proc[i].x)
  BY <1>1, <1>2 DEF Sleep, Awake, FastOK, Fast, ProcessSet
<1>4. PICK p \in ProcessSet :
        /\ p.status \in {"ready", "blocked", "parked"}
        /\ p.x = proc[i].x /\ p.pid = proc[i].pid
        /\ proc' = [proc EXCEPT ![i] = p]
  BY <1>1, Nap
<1>5. Alive(i)
  BY DEF Sleep, Awake, Alive
<1>6. /\ proc' \in Seq(ProcessSet) /\ Len(proc') = Len(proc) /\ DOMAIN proc' = DOMAIN proc
      /\ proc'[i] = p
      /\ \A j \in DOMAIN proc : j # i => proc'[j] = proc[j]
      /\ OnePidEach' /\ FastOK'
  BY <1>1, <1>3, <1>4, <1>5, Proceeds
<1>7. TypeOK'
  BY <1>1, <1>6 DEF TypeOK, ProcessSet
<1>8. Len(proc) # 0 => Len(proc) \in DOMAIN proc
  BY <1>1, ProcFacts
<1>9. \A j \in DOMAIN proc : proc'[j].x = proc[j].x /\ (Fast(proc[j].x) => proc'[j] = proc[j])
  BY <1>3, <1>4, <1>6
<1>10. CreatedOK'
  BY <1>1, <1>6, <1>8, <1>9 DEF IInv, CreatedOK, AllDoneBut, Fast
<1>11. GoOK'
  BY <1>1, <1>6, <1>8, <1>9 DEF IInv, GoOK, Last, AllDoneBut, Fast
<1> QED
  BY <1>1, <1>6, <1>7, <1>10, <1>11 DEF IInv, KillOK

\* The return of a process overwrites no result that main is to find.
LEMMA DispatchedStep ==
  ASSUME IInv, NEW i \in DOMAIN proc, Dispatched(i)
  PROVE  IInv'
<1> DEFINE x == proc[i].x
           p == [proc[i] EXCEPT !.status = "returned"]
<1>1. /\ TypeOK /\ OnePidEach /\ FastOK /\ UNCHANGED <<table, main, ret, crashed>>
      /\ proc[i].status = "ready" /\ proc[i].naps = 0
      /\ ctx' = [ctx EXCEPT ![x] = [@ EXCEPT !.retval = i, !.flags = ctx[x].flags \cup CSP_STOP]]
      /\ proc' = [proc EXCEPT ![i] = p]
  BY DEF IInv, Dispatched
<1>2. proc[i] \in ProcessSet /\ i \in Nat
  BY <1>1, ProcFacts
<1>3. /\ p \in ProcessSet /\ p.x = proc[i].x /\ p.pid = proc[i].pid
      /\ p.naps = 0 /\ p.status = "returned"
  BY <1>1, <1>2 DEF ProcessSet, Statuses
<1> HIDE DEF p
<1>4. Alive(i)
  BY <1>1 DEF Alive
<1>5. /\ proc' \in Seq(ProcessSet) /\ Len(proc') = Len(proc) /\ DOMAIN proc' = DOMAIN proc
      /\ proc'[i] = p
      /\ \A j \in DOMAIN proc : j # i => proc'[j] = proc[j]
      /\ OnePidEach' /\ FastOK'
  BY <1>1, <1>3, <1>4, Proceeds
<1>6. /\ ctx' \in [Contexts -> [id : Pids \cup {0}, flags : SUBSET CSP_RUNNING, retval : Nat]]
      /\ ctx'[x].retval = i
      /\ \A y \in Contexts : y # x => ctx'[y] = ctx[y]
  <2>1. x \in Contexts
    BY <1>2 DEF ProcessSet
  <2>2. ctx[x] \in [id : Pids \cup {0}, flags : SUBSET CSP_RUNNING, retval : Nat]
    BY <1>1, <2>1 DEF TypeOK
  <2> DEFINE c == [ctx[x] EXCEPT !.retval = i, !.flags = ctx[x].flags \cup CSP_STOP]
  <2>3. c \in [id : Pids \cup {0}, flags : SUBSET CSP_RUNNING, retval : Nat] /\ c.retval = i
    BY <1>2, <2>2 DEF CSP_STOP
  <2>4. ctx' = [ctx EXCEPT ![x] = c]
    BY <1>1, <2>2
  <2> HIDE DEF c
  <2> QED
    BY <1>1, <2>1, <2>3, <2>4, SMTT(20) DEF TypeOK
<1>7. TypeOK'
  BY <1>1, <1>5, <1>6 DEF TypeOK, ProcessSet
<1>8. /\ Len(proc) # 0 => Len(proc) \in DOMAIN proc
      /\ 0 \notin DOMAIN proc /\ main.x \in Contexts
  BY <1>1, ProcFacts, SMTT(20) DEF TypeOK
<1>9. \A j \in DOMAIN proc : proc'[j].x = proc[j].x /\ (proc'[j].status = "ready" => proc[j].status = "ready")
  BY <1>3, <1>5
<1>10. CreatedOK'
  <2>1. SUFFICES ASSUME main.pc = "created", main.id # 0
                 PROVE  /\ AllDoneBut(Len(proc))'
                        /\ Fast(main.x) => \/ proc'[Len(proc)].status = "ready"
                                           \/ ctx'[main.x].retval = Len(proc)
    BY <1>1, <1>5, <1>8, <1>9 DEF IInv, CreatedOK, Fast
  <2>2. AllDoneBut(Len(proc))'
    BY <1>5, <1>9, <2>1 DEF IInv, CreatedOK, AllDoneBut, Fast
  <2>3. ASSUME Fast(main.x) PROVE proc'[Len(proc)].status = "ready" \/ ctx'[main.x].retval = Len(proc)
    <3>1. CASE x = main.x
      BY <1>1, <1>6, <2>1, <2>3, <3>1 DEF IInv, CreatedOK, AllDoneBut
    <3>2. CASE x # main.x
      BY <1>5, <1>6, <1>8, <2>1, <2>3, <3>2 DEF IInv, CreatedOK
    <3> QED
      BY <3>1, <3>2
  <2> QED
    BY <2>2, <2>3
<1>11. GoOK'
  <2>1. SUFFICES ASSUME Last("go"), ret[Len(ret)] = 1
                 PROVE  AllDoneBut(0)' /\ (Fast(main.x) => ctx'[main.x].retval = Len(proc))
    BY <1>1, <1>5, <1>8, <1>9 DEF IInv, GoOK, Last, Fast
  <2>2. AllDoneBut(0) /\ (Fast(main.x) => ctx[main.x].retval = Len(proc))
    BY <2>1 DEF IInv, GoOK
  <2>3. AllDoneBut(0)'
    BY <1>5, <1>9, <2>2 DEF AllDoneBut, Fast
  <2>4. ASSUME Fast(main.x) PROVE x # main.x
    BY <1>1, <1>8, <2>2, <2>4 DEF AllDoneBut
  <2> QED
    BY <1>6, <1>8, <2>2, <2>3, <2>4
<1> QED
  BY <1>1, <1>5, <1>7, <1>10, <1>11 DEF IInv, KillOK

LEMMA TaskExitStep ==
  ASSUME IInv, NEW i \in DOMAIN proc, TaskExit(i)
  PROVE  IInv'
<1>1. /\ TypeOK /\ OnePidEach /\ FastOK /\ UNCHANGED <<ctx, main, ret, crashed>>
      /\ proc[i].status = "returned"
      /\ table' = Reaped(proc[i].pid)
      /\ proc' = [proc EXCEPT ![i] = [@ EXCEPT !.status = "stopped"]]
  BY DEF IInv, TaskExit
<1>2. table[proc[i].pid] = i
  BY <1>1 DEF OnePidEach, Alive
<1>3. /\ proc' \in Seq(ProcessSet) /\ Len(proc') = Len(proc) /\ DOMAIN proc' = DOMAIN proc
      /\ \A j \in DOMAIN proc : proc'[j].x = proc[j].x /\ proc'[j].pid = proc[j].pid
      /\ \A j \in DOMAIN proc : j # i => proc'[j] = proc[j]
      /\ proc'[i].status = "stopped"
      /\ table' \in [Pids -> Nat]
      /\ OnePidEach' /\ FastOK'
  BY <1>1, <1>2, Leaves
<1>4. TypeOK'
  BY <1>1, <1>3 DEF TypeOK, ProcessSet
<1>5. Len(proc) # 0 => Len(proc) \in DOMAIN proc
  BY <1>1, ProcFacts
<1>6. \A j \in DOMAIN proc : proc'[j].status = "ready" <=> proc[j].status = "ready"
  BY <1>1, <1>3
<1>7. CreatedOK'
  BY <1>1, <1>3, <1>5, <1>6 DEF IInv, CreatedOK, AllDoneBut, Fast
<1>8. GoOK'
  BY <1>1, <1>3, <1>5, <1>6 DEF IInv, GoOK, Last, AllDoneBut, Fast
<1> QED
  BY <1>1, <1>3, <1>4, <1>7, <1>8 DEF IInv, KillOK

--------------------------------------------------------------------------------
(* The theorems *)

LEMMA StutterStep ==
  ASSUME IInv, UNCHANGED vars
  PROVE  IInv'
BY DEF IInv, TypeOK, OnePidEach, Alive, KillOK, FastOK, Fast, CreatedOK, GoOK, Last, AllDoneBut, vars

LEMMA InitStep ==
  ASSUME Init
  PROVE  IInv
<1>1. (CHOOSE x \in Contexts : TRUE) \in Contexts
  BY CspAssumption
<1>2. proc \in Seq(ProcessSet) /\ DOMAIN proc = {} /\ ret \in Seq(Int)
  BY DEF Init
<1>3. main \in MainSet /\ main.pc = "idle" /\ main.op = "none"
  BY <1>1 DEF Init, Idle, MainSet, Places
<1>4. TypeOK
  BY <1>2, <1>3 DEF Init, TypeOK, MainSet, ProcessSet
<1>5. OnePidEach
  BY <1>2 DEF Init, OnePidEach
<1> QED
  BY <1>2, <1>3, <1>4, <1>5 DEF IInv, KillOK, FastOK, CreatedOK, GoOK, Last

LEMMA NextStep ==
  ASSUME IInv, [Next]_vars
  PROVE  IInv'
<1>1. CASE Main
  BY <1>1, GoStep, ThreadCreateStep, CreatedStep, PollStep, CspKillStep, ThreadGetStep,
     SetZombieStep, KillZombieStep DEF Main
<1>2. CASE \E i \in DOMAIN proc : Process(i)
  BY <1>2, NapStep, DispatchedStep, TaskExitStep DEF Process
<1>3. CASE Ended \/ UNCHANGED vars
  BY <1>3, StutterStep DEF Ended
<1> QED
  BY <1>1, <1>2, <1>3 DEF Next

LEMMA Inductive == Spec => []IInv
<1>1. Init => IInv
  BY InitStep
<1>2. IInv /\ [Next]_vars => IInv'
  BY NextStep
<1> QED
  BY <1>1, <1>2, PTL DEF Spec

\* The csp_ctx objects, RIOT's thread table and main's calls keep their types: the
\* thread that csp_kill works on exists, and RIOT's table has no other pids.
THEOREM ProcessesTyped == Spec => []TypeOK
<1>1. IInv => TypeOK
  BY DEF IInv
<1> QED
  BY <1>1, Inductive, PTL

\* Whatever csp_kill and the return of a process do to the table between the
\* steps of each other, a pid leads to one thread, and a living thread is found.
THEOREM PidsAreUnique == Spec => []OnePidEach
<1>1. IInv => OnePidEach
  BY DEF IInv
<1> QED
  BY <1>1, Inductive, PTL

\* csp_ret(GO(f)) is the result of f, not that of an earlier process of the same
\* context, when f does not block.
THEOREM GoGivesResult == Spec => []ResultOfGo
<1>1. IInv => ResultOfGo
  BY DEF IInv, GoOK, ResultOfGo, Fast, Last
<1> QED
  BY <1>1, Inductive, PTL

--------------------------------------------------------------------------------
(* csp_kill: which programs of main kill the process they mean, and what is   *)
(* left of a process that was killed.                                         *)

Only(n, op, x) == \A call \in Program[n] : call.op = op /\ call.x = x
Never(n, op, x) == \A call \in Program[n] : call.op = op => call.x # x

\* After the first n calls of main the id in x is that of its own process, or of none:
\* x was started and not killed, and unless its process never ends no other took a
\* pid since.
StillNamed(x, n) ==
  \E j \in 1..n :
    /\ Only(j, "go", x)
    /\ \A m \in j + 1..n : /\ Never(m, "kill", x)
                           /\ \A call \in Program[m] : call.op = "go" => call.x = x \/ x \in Endless

\* main kills nothing else.
KillsWhatRuns ==
  \A n \in 1..Len(Program) : \A call \in Program[n] : call.op = "kill" => StillNamed(call.x, n - 1)

\* After the first n calls of main x was not started, or was killed since.
Cleared(x, n) ==
  \E j \in 0..n : /\ j # 0 => Only(j, "kill", x)
                  /\ \A m \in j + 1..n : Never(m, "go", x)

\* main starts a process that may block only where it has none of that context.
OneAtATime ==
  \A n \in 1..Len(Program) : \A call \in Program[n] :
    call.op = "go" /\ ~Fast(call.x) => Cleared(call.x, n - 1)

--------------------------------------------------------------------------------
(* The invariant of KillsItsOwn *)

\* The call main is in is the next of its program.
OpAt(pc) == IF pc \in {"create", "created"} THEN "go" ELSE IF pc = "wait" THEN "wait" ELSE "kill"
CallOK ==
  main.pc # "idle" =>
    /\ main.op = OpAt(main.pc)
    /\ \E call \in NextCalls : call.op = main.op /\ call.x = main.x

\* Under this id RIOT finds a process of x or none; one that never ends is there.
Names(x, id) ==
  id \in Pids =>
    /\ table[id] # 0 => proc[table[id]].x = x
    /\ x \in Endless => table[id] # 0 /\ proc[table[id]].status \in {"ready", "blocked", "parked"}

\* main is about to change what the id of x means.
Changing(x) ==
  \/ main.pc = "reap" /\ main.x = x
  \/ main.pc \in {"create", "created"} /\ (main.x = x \/ x \notin Endless)

NamesOK ==
  /\ \A x \in Contexts : StillNamed(x, Len(ret)) /\ ~Changing(x) => Names(x, ctx[x].id)
  /\ main.pc = "created" => Names(main.x, main.id)

--------------------------------------------------------------------------------
(* The invariant of OnlyTheContextRemains *)

NoneAlive(x) == \A i \in DOMAIN proc : proc[i].x = x => ~Alive(i)

OneAlive ==
  \A i, j \in DOMAIN proc : Alive(i) /\ Alive(j) /\ proc[i].x = proc[j].x => i = j

ClearedOK ==
  \A x \in Contexts : ~Fast(x) /\ Cleared(x, Len(ret)) /\ ~(main.pc = "created" /\ main.x = x) => NoneAlive(x)

\* A zombie in RIOT's table is the one csp_kill is about to reap.
ZombiesOK ==
  \A i \in DOMAIN proc : proc[i].status = "zombie" /\ table[proc[i].pid] = i =>
    main.pc = "reap" /\ main.thread = i

\* The victim is the last of its context.
VictimOK ==
  main.pc \in {"mark", "reap"} =>
    /\ proc[main.thread].pid = main.id
    /\ \A i \in DOMAIN proc : proc[i].x = main.x /\ Alive(i) => main.pc = "mark" /\ i = main.thread

KilledOK ==
  /\ main.pc \in {"get", "mark", "reap"} \/ Last("kill") => ~Running(main.x)
  /\ Last("kill") => NoneAlive(main.x)

RemainsInv == OneAlive /\ ClearedOK /\ ZombiesOK /\ VictimOK /\ KilledOK

--------------------------------------------------------------------------------
(* The program *)

\* The calls main returns from, one after the other.
LEMMA NextFacts ==
  ASSUME TypeOK
  PROVE  /\ Len(ret) \in Nat /\ Len(Program) \in Nat
         /\ NextCalls # {} => Len(ret) + 1 \in 1..Len(Program) /\ NextCalls = Program[Len(ret) + 1]
<1>1. Len(ret) \in Nat /\ Len(Program) \in Nat
  BY LenProperties, CspAssumption DEF TypeOK
<1> QED
  BY <1>1 DEF NextCalls

\* What n + 1 calls leave of StillNamed was so after n, or the last call starts x.
LEMMA NamedBefore ==
  ASSUME NEW n \in Nat, NEW call \in Program[n + 1], NEW x, StillNamed(x, n + 1)
  PROVE  /\ call.op = "kill" => call.x # x
         /\ call.op = "go" => call.x = x \/ (x \in Endless /\ StillNamed(x, n))
         /\ call.op # "go" => StillNamed(x, n)
<1>1. PICK j \in 1..n + 1 :
        /\ Only(j, "go", x)
        /\ \A m \in j + 1..n + 1 : /\ Never(m, "kill", x)
                                   /\ \A c \in Program[m] : c.op = "go" => c.x = x \/ x \in Endless
  BY DEF StillNamed
<1>2. CASE j = n + 1
  BY <1>1, <1>2 DEF Only
<1>3. CASE j # n + 1
  <2>1. j \in 1..n /\ n + 1 \in j + 1..n + 1 /\ j + 1..n \subseteq j + 1..n + 1
    BY <1>3
  <2>2. StillNamed(x, n)
    BY <1>1, <2>1 DEF StillNamed
  <2> QED
    BY <1>1, <2>1, <2>2 DEF Never
<1> QED
  BY <1>2, <1>3

LEMMA ClearedBefore ==
  ASSUME NEW n \in Nat, NEW call \in Program[n + 1], NEW x, Cleared(x, n + 1)
  PROVE  /\ call.op = "go" => call.x # x
         /\ Cleared(x, n) \/ (call.op = "kill" /\ call.x = x)
<1>1. PICK j \in 0..n + 1 : /\ j # 0 => Only(j, "kill", x)
                           /\ \A m \in j + 1..n + 1 : Never(m, "go", x)
  BY DEF Cleared
<1>2. CASE j = n + 1
  BY <1>1, <1>2 DEF Only
<1>3. CASE j # n + 1
  <2>1. j \in 0..n /\ n + 1 \in j + 1..n + 1 /\ j + 1..n \subseteq j + 1..n + 1
    BY <1>3
  <2>2. Cleared(x, n)
    BY <1>1, <2>1 DEF Cleared
  <2> QED
    BY <1>1, <2>1, <2>2 DEF Never
<1> QED
  BY <1>2, <1>3

--------------------------------------------------------------------------------
(* What the steps do to the threads *)

\* The steps of processes: they keep their contexts, none comes to life, and one
\* that leaves RIOT's table had returned.
LEMMA ProcessDoes ==
  ASSUME IInv, NEW i \in DOMAIN proc, Process(i)
  PROVE  /\ UNCHANGED <<main, ret, crashed>> /\ DOMAIN proc' = DOMAIN proc
         /\ \A j \in DOMAIN proc :
              /\ proc'[j].x = proc[j].x /\ proc'[j].pid = proc[j].pid
              /\ Alive(j)' => Alive(j)
              /\ proc'[j].status = "zombie" => proc[j].status = "zombie"
         /\ \A x \in Contexts : ctx'[x].id = ctx[x].id /\ (Running(x)' => Running(x))
         /\ \A j \in DOMAIN proc : j # i => proc'[j] = proc[j]
         /\ \/ /\ UNCHANGED table
               /\ proc[i].x \in Endless => proc'[i].status \in {"ready", "blocked", "parked"}
            \/ table' = Reaped(proc[i].pid) /\ table[proc[i].pid] = i /\ proc[i].status = "returned"
<1>1. TypeOK /\ proc[i] \in ProcessSet /\ OnePidEach /\ FastOK
  BY ProcFacts DEF IInv
<1>2. CASE Sleep(i) \/ Awake(i)
  <2>1. UNCHANGED <<ctx, table, main, ret, crashed>> /\ Alive(i)
    BY <1>2 DEF Sleep, Awake, Alive
  <2>2. PICK p \in ProcessSet :
          /\ p.status \in {"ready", "blocked", "parked"}
          /\ p.x = proc[i].x /\ p.pid = proc[i].pid
          /\ proc' = [proc EXCEPT ![i] = p]
    BY <1>1, <1>2, Nap
  <2>3. /\ DOMAIN proc' = DOMAIN proc /\ proc'[i] = p
        /\ \A j \in DOMAIN proc : j # i => proc'[j] = proc[j]
    BY <1>1, <2>2, ProcExcept
  <2> QED
    BY <2>1, <2>2, <2>3 DEF Alive, Running
<1>3. CASE Dispatched(i)
  <2> DEFINE x == proc[i].x
             p == [proc[i] EXCEPT !.status = "returned"]
             c == [ctx[x] EXCEPT !.retval = i, !.flags = ctx[x].flags \cup CSP_STOP]
  <2>1. /\ UNCHANGED <<table, main, ret, crashed>> /\ proc[i].status = "ready" /\ x \notin Endless
        /\ ctx' = [ctx EXCEPT ![x] = c] /\ proc' = [proc EXCEPT ![i] = p]
    BY <1>3 DEF Dispatched
  <2>2. p \in ProcessSet /\ p.x = proc[i].x /\ p.pid = proc[i].pid /\ p.status = "returned"
    BY <1>1 DEF ProcessSet, Statuses
  <2>3. x \in Contexts /\ ctx[x] \in [id : Pids \cup {0}, flags : SUBSET CSP_RUNNING, retval : Nat]
    BY <1>1 DEF TypeOK, ProcessSet
  <2>4. c.id = ctx[x].id /\ c.flags = ctx[x].flags
    BY <2>3 DEF CSP_STOP
  <2> HIDE DEF p, c
  <2>5. \A y \in Contexts : ctx'[y].id = ctx[y].id /\ ctx'[y].flags = ctx[y].flags
    BY <1>1, <2>1, <2>3, <2>4 DEF TypeOK
  <2>6. /\ DOMAIN proc' = DOMAIN proc /\ proc'[i] = p
        /\ \A j \in DOMAIN proc : j # i => proc'[j] = proc[j]
    BY <1>1, <2>1, <2>2, ProcExcept
  <2> QED
    BY <2>1, <2>2, <2>5, <2>6 DEF Alive, Running
<1>4. CASE TaskExit(i)
  <2>1. /\ UNCHANGED <<ctx, main, ret, crashed>> /\ proc[i].status = "returned"
        /\ table' = Reaped(proc[i].pid)
        /\ proc' = [proc EXCEPT ![i] = [@ EXCEPT !.status = "stopped"]]
    BY <1>4 DEF TaskExit
  <2>2. table[proc[i].pid] = i
    BY <1>1, <2>1 DEF OnePidEach, Alive
  <2>3. /\ DOMAIN proc' = DOMAIN proc /\ proc'[i].status = "stopped"
        /\ \A j \in DOMAIN proc : proc'[j].x = proc[j].x /\ proc'[j].pid = proc[j].pid
        /\ \A j \in DOMAIN proc : j # i => proc'[j] = proc[j]
    BY <1>1, <2>1, <2>2, Leaves
  <2> QED
    BY <2>1, <2>2, <2>3 DEF Alive, Running
<1> QED
  BY <1>2, <1>3, <1>4 DEF Process

\* What csp_kill does to the threads, in its two last steps.
LEMMA MarkDoes ==
  ASSUME IInv, SetZombie
  PROVE  /\ main.pc = "mark" /\ UNCHANGED <<ctx, table, ret, crashed>> /\ main.thread \in DOMAIN proc
         /\ main'.pc = "reap" /\ main'.op = main.op /\ main'.x = main.x
         /\ main'.id = main.id /\ main'.thread = main.thread
         /\ DOMAIN proc' = DOMAIN proc
         /\ \A j \in DOMAIN proc : proc'[j].x = proc[j].x /\ proc'[j].pid = proc[j].pid
         /\ \A j \in DOMAIN proc : j # main.thread => proc'[j] = proc[j]
         /\ proc'[main.thread].status = "zombie"
<1> DEFINE i == main.thread
           p == [proc[i] EXCEPT !.status = "zombie"]
<1>1. /\ TypeOK /\ main.pc = "mark" /\ UNCHANGED <<ctx, table, ret, crashed>>
      /\ proc' = [proc EXCEPT ![i] = p] /\ main' = [main EXCEPT !.pc = "reap"]
  BY DEF IInv, SetZombie, At
<1>2. i \in DOMAIN proc
  BY <1>1 DEF IInv, KillOK
<1>3. proc[i] \in ProcessSet
  BY <1>1, <1>2, ProcFacts
<1>4. p \in ProcessSet /\ p.x = proc[i].x /\ p.pid = proc[i].pid /\ p.status = "zombie"
  BY <1>3 DEF ProcessSet, Statuses
<1> HIDE DEF p
<1>5. /\ DOMAIN proc' = DOMAIN proc /\ proc'[i] = p
      /\ \A j \in DOMAIN proc : j # i => proc'[j] = proc[j]
  BY <1>1, <1>2, <1>4, ProcExcept
<1> QED
  BY <1>1, <1>2, <1>4, <1>5 DEF TypeOK

LEMMA ReapDoes ==
  ASSUME IInv, KillZombie
  PROVE  /\ main.pc = "reap" /\ UNCHANGED <<ctx, crashed>> /\ main.id \in Pids
         /\ \E r \in Int : Return("kill", main.x, r)
         /\ DOMAIN proc' = DOMAIN proc
         /\ \A j \in DOMAIN proc : proc'[j].x = proc[j].x /\ proc'[j].pid = proc[j].pid
         /\ \/ /\ UNCHANGED <<proc, table>>
               /\ table[main.id] = 0 \/ proc[table[main.id]].status # "zombie"
            \/ /\ table' = Reaped(main.id) /\ table[main.id] \in DOMAIN proc
               /\ proc[table[main.id]].status = "zombie"
               /\ proc[table[main.id]].pid = main.id
               /\ proc'[table[main.id]].status = "stopped"
               /\ \A j \in DOMAIN proc : j # table[main.id] => proc'[j] = proc[j]
<1> DEFINE i == table[main.id]
           zombie == i # 0 /\ proc[i].status = "zombie"
           r == IF zombie THEN 1 ELSE IF i = 0 THEN -1 ELSE 0
<1>1. TypeOK /\ main.pc = "reap" /\ UNCHANGED <<ctx, crashed>> /\ Return("kill", main.x, r)
  BY DEF IInv, KillZombie, At
<1>2. main.id \in Pids
  BY <1>1 DEF IInv, KillOK
<1>3. r \in Int
  OBVIOUS
<1>4. CASE zombie
  <2>1. table' = Reaped(main.id) /\ proc' = [proc EXCEPT ![i] = [@ EXCEPT !.status = "stopped"]]
    BY <1>4 DEF KillZombie
  <2>2. i \in DOMAIN proc /\ proc[i].pid = main.id
    BY <1>2, <1>4 DEF IInv, OnePidEach
  <2>3. /\ DOMAIN proc' = DOMAIN proc
        /\ \A j \in DOMAIN proc : proc'[j].x = proc[j].x /\ proc'[j].pid = proc[j].pid
        /\ \A j \in DOMAIN proc : j # i => proc'[j] = proc[j]
        /\ proc'[i].status = "stopped"
    BY <1>1, <2>1, <2>2, Leaves DEF IInv
  <2> HIDE DEF r
  <2> QED
    BY <1>1, <1>2, <1>3, <1>4, <2>1, <2>2, <2>3
<1>5. CASE ~zombie
  <2>1. UNCHANGED <<proc, table>>
    BY <1>5 DEF KillZombie
  <2> HIDE DEF r
  <2> QED
    BY <1>1, <1>2, <1>3, <1>5, <2>1
<1> QED
  BY <1>4, <1>5

\* thread_create adds a thread for the context of the GO at a free pid, or none.
LEMMA CreateDoes ==
  ASSUME IInv, ThreadCreate
  PROVE  /\ main.pc = "create" /\ UNCHANGED <<ctx, ret, crashed>>
         /\ main'.pc = "created" /\ main'.op = main.op /\ main'.x = main.x
         /\ \A i \in DOMAIN proc : ~Active(i)
         /\ \/ UNCHANGED <<proc, table>> /\ main'.id = 0
            \/ \E p \in Pids, n \in Nat :
                 /\ table[p] = 0 /\ main'.id = p /\ n # 0
                 /\ DOMAIN proc' = DOMAIN proc \cup {n} /\ n \notin DOMAIN proc
                 /\ \A i \in DOMAIN proc : proc'[i] = proc[i]
                 /\ proc'[n].x = main.x /\ proc'[n].pid = p /\ proc'[n].status = "ready"
                 /\ table' = [table EXCEPT ![p] = n]
<1>1. /\ TypeOK /\ main.pc = "create" /\ main.id = 0 /\ UNCHANGED <<ctx, ret, crashed>>
      /\ \A i \in DOMAIN proc : ~Active(i)
  BY MainAlone DEF IInv, CreatedOK, ThreadCreate, At, Active
<1>2. CASE Free = {}
  <2>1. main' = [main EXCEPT !.pc = "created"] /\ UNCHANGED <<proc, table>>
    BY <1>2 DEF ThreadCreate
  <2> QED
    BY <1>1, <2>1 DEF TypeOK
<1>3. CASE Free # {}
  <2> DEFINE p == Min(Free)
             new == [x |-> main.x, pid |-> p, status |-> "ready", naps |-> Naps[main.x]]
             n == Len(proc) + 1
  <2>1. p \in Pids /\ table[p] = 0
    BY <1>3, MinIsFree DEF Free
  <2>2. /\ proc' = Append(proc, new)
        /\ table' = [table EXCEPT ![p] = Len(proc')]
        /\ main' = [main EXCEPT !.pc = "created", !.id = p]
    BY <1>3 DEF ThreadCreate
  <2>3. new \in ProcessSet
    BY <1>1, <2>1, CspAssumption DEF TypeOK, ProcessSet, Statuses
  <2>4. new.x = main.x /\ new.pid = p /\ new.status = "ready"
    OBVIOUS
  <2> HIDE DEF p, new
  <2>5. proc \in Seq(ProcessSet) /\ Len(proc) \in Nat /\ DOMAIN proc = 1..Len(proc)
    BY <1>1, ProcFacts DEF TypeOK, ProcessSet
  <2>6. /\ proc' \in Seq(ProcessSet) /\ Len(proc') = n
        /\ DOMAIN proc' = 1..n /\ proc'[n] = new
        /\ \A i \in DOMAIN proc : proc'[i] = proc[i]
    BY <2>2, <2>3, <2>5, AppendProperties
  <2>7. n \in Nat /\ n # 0 /\ 1..n = DOMAIN proc \cup {n} /\ n \notin DOMAIN proc
    BY <2>5
  <2>8. /\ main'.pc = "created" /\ main'.op = main.op /\ main'.x = main.x /\ main'.id = p
    BY <1>1, <2>2 DEF TypeOK
  <2> HIDE DEF n
  <2> QED
    BY <1>1, <2>1, <2>2, <2>4, <2>6, <2>7, <2>8
<1> QED
  BY <1>2, <1>3

\* csp_kill clears a flag, the id in the context stays.
LEMMA KillStarts ==
  ASSUME TypeOK, CspKill
  PROVE  \E call \in NextCalls :
           /\ main.pc = "idle" /\ call.op = "kill" /\ Goto("get", call)
           /\ UNCHANGED <<proc, table, crashed>>
           /\ \A x \in Contexts : ctx'[x].id = ctx[x].id /\ (Running(x)' => Running(x))
           /\ ~Running(call.x)'
<1>1. PICK call \in NextCalls :
        /\ Invokes(call, "kill")
        /\ ctx' = [ctx EXCEPT ![call.x] = [@ EXCEPT !.flags = Killed(ctx[call.x].flags)]]
        /\ Goto("get", call)
        /\ UNCHANGED <<proc, table, crashed>>
  BY DEF CspKill
<1>2. call.x \in Contexts
  BY ProgramCalls
<1>3. ctx[call.x] \in [id : Pids \cup {0}, flags : SUBSET CSP_RUNNING, retval : Nat]
  BY <1>2 DEF TypeOK
<1> DEFINE c == [ctx[call.x] EXCEPT !.flags = Killed(ctx[call.x].flags)]
<1>4. c.id = ctx[call.x].id /\ c.flags = Killed(ctx[call.x].flags)
  BY <1>3
<1>5. ctx' = [ctx EXCEPT ![call.x] = c]
  BY <1>1
<1> HIDE DEF c
<1>6. /\ ctx'[call.x].id = ctx[call.x].id /\ ctx'[call.x].flags = Killed(ctx[call.x].flags)
      /\ \A x \in Contexts : x # call.x => ctx'[x] = ctx[x]
  BY <1>2, <1>4, <1>5 DEF TypeOK
<1>7. ~Running(call.x)'
  BY <1>6 DEF Running, Killed, CSP_RUNNING
<1>8. \A x \in Contexts : ctx'[x].id = ctx[x].id /\ (Running(x)' => Running(x))
  BY <1>6, <1>7 DEF Running
<1> QED
  BY <1>1, <1>7, <1>8 DEF Invokes

LEMMA Counted ==
  ASSUME TypeOK, NEW op, NEW x, NEW r \in Int, Return(op, x, r)
  PROVE  /\ main'.pc = "idle" /\ main'.op = op /\ main'.x = x
         /\ Len(ret) \in Nat /\ Len(ret') = Len(ret) + 1
BY AppendProperties, LenProperties DEF Return, Idle, TypeOK

LEMMA CallKept ==
  ASSUME IInv, CallOK, [Next]_vars
  PROVE  CallOK'
<1>1. TypeOK
  BY DEF IInv
<1>2. ASSUME NEW call \in NextCalls, NEW pc \in {"create", "wait", "get"}, call.op = OpAt(pc), Goto(pc, call)
      PROVE  CallOK'
  <2>1. main'.pc = pc /\ main'.op = call.op /\ main'.x = call.x /\ ret' = ret
    BY <1>1, <1>2, ProgramCalls, GotoMain DEF Places
  <2> QED
    BY <1>2, <2>1 DEF CallOK, NextCalls
<1>3. CASE Go \/ CspWait \/ CspKill
  BY <1>1, <1>2, <1>3, KillStarts DEF Go, CspWait, Invokes, OpAt
<1>4. CASE ThreadCreate \/ SetZombie
  BY <1>4, CreateDoes, MarkDoes DEF CallOK, NextCalls, OpAt
<1>5. CASE ThreadGet
  <2>1. main.pc = "get" /\ UNCHANGED ret
    BY <1>5 DEF ThreadGet, At
  <2>2. main' = main \/ (main'.pc = "mark" /\ main'.op = main.op /\ main'.x = main.x)
    BY <1>1, <1>5 DEF ThreadGet, TypeOK
  <2> QED
    BY <2>1, <2>2 DEF CallOK, NextCalls, OpAt
<1>6. CASE Created \/ CspRunning \/ CspRet \/ KillZombie
  <2>1. \E op, x, r : Return(op, x, r)
    BY <1>6 DEF Created, CspRunning, CspRet, KillZombie
  <2> QED
    BY <2>1 DEF Return, Idle, CallOK
<1>7. CASE Waited
  BY <1>7 DEF Waited, Return, Idle, CallOK, NextCalls
<1>8. CASE \E i \in DOMAIN proc : Process(i)
  BY <1>8, ProcessDoes DEF CallOK, NextCalls
<1>9. CASE Ended \/ UNCHANGED vars
  BY <1>9 DEF Ended, vars, CallOK, NextCalls
<1> QED
  BY <1>3, <1>4, <1>5, <1>6, <1>7, <1>8, <1>9 DEF Next, Main

LEMMA CallsInductive == Spec => [](IInv /\ CallOK)
<1>1. Init => CallOK
  BY DEF Init, Idle, CallOK
<1>2. IInv /\ CallOK /\ [Next]_vars => CallOK'
  BY CallKept
<1> QED
  BY <1>1, <1>2, Inductive, PTL DEF Spec

--------------------------------------------------------------------------------
(* The ids lead to the right processes *)

NamesInv == KillsItsOwn /\ NamesOK

LEMMA ProcessKeepsNames ==
  ASSUME IInv, NEW i \in DOMAIN proc, Process(i), NEW x \in Contexts, NEW id, Names(x, id)
  PROVE  Names(x, id)'
<1>1. TypeOK /\ OnePidEach /\ proc[i].pid \in Pids
  BY ProcFacts DEF IInv, ProcessSet
<1>2. SUFFICES ASSUME id \in Pids
               PROVE  /\ table'[id] # 0 => proc'[table'[id]].x = x
                      /\ x \in Endless => /\ table'[id] # 0
                                          /\ proc'[table'[id]].status \in {"ready", "blocked", "parked"}
  BY DEF Names
<1>3. table[id] # 0 => table[id] \in DOMAIN proc /\ proc[table[id]].pid = id
  BY <1>1, <1>2 DEF OnePidEach
<1>4. CASE UNCHANGED table /\ (proc[i].x \in Endless => proc'[i].status \in {"ready", "blocked", "parked"})
  <2>1. /\ \A j \in DOMAIN proc : proc'[j].x = proc[j].x
        /\ \A j \in DOMAIN proc : j # i => proc'[j] = proc[j]
    BY ProcessDoes
  <2>2. /\ table[id] # 0 => proc[table[id]].x = x
        /\ x \in Endless => table[id] # 0 /\ proc[table[id]].status \in {"ready", "blocked", "parked"}
    BY <1>2 DEF Names
  <2> DEFINE j == table[id]
  <2>3. table'[id] = j
    BY <1>4
  <2> HIDE DEF j
  <2>4. j # 0 => proc'[j].x = x
    BY <1>3, <2>1, <2>2 DEF j
  <2>5. ASSUME x \in Endless PROVE proc'[j].status \in {"ready", "blocked", "parked"}
    <3>1. j \in DOMAIN proc /\ proc[j].x = x /\ proc[j].status \in {"ready", "blocked", "parked"}
      BY <1>3, <2>2, <2>5 DEF j
    <3> QED
      BY <1>4, <2>1, <2>5, <3>1
  <2> QED
    BY <2>2, <2>3, <2>4, <2>5 DEF j
<1>5. CASE table' = Reaped(proc[i].pid) /\ table[proc[i].pid] = i /\ proc[i].status = "returned"
  <2>1. table' = [table EXCEPT ![proc[i].pid] = 0]
    BY <1>5 DEF Reaped
  <2>2. CASE id = proc[i].pid
    <3>1. table'[id] = 0
      BY <1>1, <1>2, <2>1, <2>2 DEF TypeOK
    <3>2. x \notin Endless
      BY <1>2, <1>5, <2>2 DEF Names
    <3> QED
      BY <3>1, <3>2
  <2>3. CASE id # proc[i].pid
    <3>1. table'[id] = table[id] /\ table[id] # i
      BY <1>1, <1>2, <1>3, <2>1, <2>3, SMTT(20) DEF TypeOK
    <3> QED
      BY <1>2, <1>3, <3>1, ProcessDoes DEF Names
  <2> QED
    BY <2>2, <2>3
<1> QED
  BY <1>4, <1>5, ProcessDoes

LEMMA ProcessNames ==
  ASSUME IInv, CallOK, NamesInv, NEW i \in DOMAIN proc, Process(i)
  PROVE  NamesInv'
<1>1. TypeOK /\ main.x \in Contexts
  BY DEF IInv, TypeOK
<1>2. KillsItsOwn'
  <2> SUFFICES ASSUME main.pc \in {"mark", "reap"} PROVE proc'[main.thread].x = main.x
    BY ProcessDoes DEF KillsItsOwn
  <2>1. main.thread \in DOMAIN proc /\ proc[main.thread].x = main.x
    BY DEF NamesInv, KillsItsOwn, IInv, KillOK
  <2> QED
    BY <2>1, ProcessDoes
<1>3. UNCHANGED <<main, ret>> /\ \A x \in Contexts : ctx'[x].id = ctx[x].id
  BY ProcessDoes
<1>4. ASSUME NEW x \in Contexts, StillNamed(x, Len(ret)), ~Changing(x)
      PROVE  Names(x, ctx[x].id)'
  <2>1. Names(x, ctx[x].id)
    BY <1>4 DEF NamesInv, NamesOK
  <2> DEFINE id == ctx[x].id
  <2>2. ctx'[x].id = id
    BY <1>3
  <2> HIDE DEF id
  <2>3. PICK k : k = id
    OBVIOUS
  <2>4. Names(x, k)'
    BY <2>1, <2>3, ProcessKeepsNames DEF id
  <2> QED
    BY <2>2, <2>3, <2>4 DEF Names
<1>5. ASSUME main.pc = "created" PROVE Names(main.x, main.id)'
  <2>1. PICK x, k : x \in Contexts /\ x = main.x /\ k = main.id
    BY <1>1
  <2>2. Names(x, k)'
    BY <1>5, <2>1, ProcessKeepsNames DEF NamesInv, NamesOK
  <2> QED
    BY <1>3, <2>1, <2>2 DEF Names
<1>6. NamesOK'
  BY <1>3, <1>4, <1>5 DEF NamesOK, StillNamed, Only, Never, Changing
<1> QED
  BY <1>2, <1>6 DEF NamesInv

\* main begins or ends a call that starts nothing.
LEMMA BeginsNames ==
  ASSUME IInv, CallOK, NamesInv, main.pc = "idle", NEW call \in NextCalls, NEW pc \in {"wait", "get"},
         call.op = OpAt(pc), Goto(pc, call), UNCHANGED <<proc, table>>,
         \A x \in Contexts : ctx'[x].id = ctx[x].id
  PROVE  NamesInv'
<1>1. TypeOK /\ call \in Calls
  BY ProgramCalls DEF IInv
<1>2. main'.pc = pc /\ main'.op = call.op /\ main'.x = call.x /\ ret' = ret
  BY <1>1, GotoMain DEF Places
<1>3. KillsItsOwn'
  BY <1>2 DEF KillsItsOwn
<1>4. NamesOK'
  <2>1. \A x \in Contexts : StillNamed(x, Len(ret)) => Names(x, ctx[x].id)
    BY DEF NamesInv, NamesOK, Changing
  <2> QED
    BY <1>2, <2>1 DEF NamesOK, StillNamed, Only, Never, Names
<1> QED
  BY <1>3, <1>4 DEF NamesInv

LEMMA EndsNames ==
  ASSUME IInv, CallOK, NamesInv, main.pc \in {"idle", "wait"}, NEW call \in NextCalls,
         call.op \notin {"go", "kill"}, NEW r \in Int, Return(call.op, call.x, r),
         UNCHANGED <<ctx, proc, table>>
  PROVE  NamesInv'
<1>1. TypeOK
  BY DEF IInv
<1>2. main'.pc = "idle" /\ Len(ret) \in Nat /\ Len(ret') = Len(ret) + 1
  BY <1>1, Counted
<1>3. call \in Program[Len(ret) + 1]
  BY DEF NextCalls
<1>4. \A x \in Contexts : StillNamed(x, Len(ret) + 1) => StillNamed(x, Len(ret))
  BY <1>2, <1>3, NamedBefore
<1>5. \A x \in Contexts : StillNamed(x, Len(ret) + 1) => Names(x, ctx[x].id)
  BY <1>4 DEF NamesInv, NamesOK, Changing
<1>6. \A x \in Contexts : StillNamed(x, Len(ret))' => Names(x, ctx[x].id)'
  BY <1>2, <1>5 DEF StillNamed, Only, Never, Names
<1> QED
  BY <1>2, <1>6 DEF NamesInv, KillsItsOwn, NamesOK

LEMMA PollNames ==
  ASSUME IInv, CallOK, NamesInv, CspRunning \/ CspWait \/ Waited \/ CspRet
  PROVE  NamesInv'
<1>1. TypeOK
  BY DEF IInv
<1>2. CASE CspRunning
  <2>1. PICK call \in NextCalls :
          /\ main.pc = "idle" /\ call.op = "running"
          /\ Return("running", call.x, IF Running(call.x) THEN 1 ELSE 0)
          /\ UNCHANGED <<ctx, proc, table>>
    BY <1>2 DEF CspRunning, Invokes
  <2> QED
    BY <2>1, EndsNames
<1>3. CASE CspWait
  <2>1. PICK call \in NextCalls :
          main.pc = "idle" /\ call.op = "wait" /\ Goto("wait", call) /\ UNCHANGED <<ctx, proc, table>>
    BY <1>3 DEF CspWait, Invokes
  <2> QED
    BY <2>1, BeginsNames DEF OpAt
<1>4. CASE Waited
  <2>1. CASE Running(main.x)
    <3>1. UNCHANGED vars
      BY <1>4, <2>1 DEF Waited, vars
    <3> QED
      BY <3>1 DEF CallOK, NamesInv, NextCalls, KillsItsOwn, NamesOK, StillNamed, Only, Never, Changing,
                  Names, vars
  <2>2. CASE ~Running(main.x)
    <3>1. main.pc = "wait" /\ Return("wait", main.x, 0) /\ UNCHANGED <<ctx, proc, table>>
      BY <1>4, <2>2 DEF Waited, At
    <3>2. PICK call \in NextCalls : call.op = "wait" /\ call.x = main.x
      BY <3>1 DEF CallOK, OpAt
    <3> QED
      BY <3>1, <3>2, EndsNames
  <2> QED
    BY <2>1, <2>2
<1>5. CASE CspRet
  <2>1. PICK call \in NextCalls :
          /\ main.pc = "idle" /\ call.op = "ret"
          /\ Return("ret", call.x, ctx[call.x].retval)
          /\ UNCHANGED <<ctx, proc, table>>
    BY <1>5 DEF CspRet, Invokes
  <2>2. ctx[call.x].retval \in Nat
    BY <1>1, ProgramCalls DEF TypeOK
  <2> QED
    BY <2>1, <2>2, EndsNames
<1> QED
  BY <1>2, <1>3, <1>4, <1>5

LEMMA GoNames ==
  ASSUME IInv, CallOK, NamesInv, Go
  PROVE  NamesInv'
<1>1. TypeOK
  BY DEF IInv
<1>2. PICK call \in NextCalls :
        /\ main.pc = "idle" /\ call.op = "go"
        /\ ctx' = [ctx EXCEPT ![call.x] = [id |-> 0, flags |-> CSP_RUNNING, retval |-> 0]]
        /\ Goto("create", call)
        /\ UNCHANGED <<proc, table, crashed>>
  BY DEF Go, Invokes
<1>3. call \in Calls
  BY <1>1, ProgramCalls
<1>4. main'.pc = "create" /\ main'.op = "go" /\ main'.x = call.x /\ ret' = ret
  BY <1>1, <1>2, <1>3, GotoMain DEF Places
<1>5. KillsItsOwn'
  BY <1>4 DEF KillsItsOwn
<1>6. NamesOK'
  <2>1. ASSUME NEW x \in Contexts, StillNamed(x, Len(ret)), x # call.x PROVE Names(x, ctx[x].id)'
    <3>1. Names(x, ctx[x].id)
      BY <1>2, <2>1 DEF NamesInv, NamesOK, Changing
    <3>2. ctx'[x] = ctx[x]
      BY <1>1, <1>2, <2>1 DEF TypeOK
    <3> QED
      BY <1>2, <3>1, <3>2 DEF Names
  <2> QED
    BY <1>4, <2>1 DEF NamesOK, StillNamed, Only, Never, Changing
<1> QED
  BY <1>5, <1>6 DEF NamesInv

LEMMA CreateNames ==
  ASSUME IInv, CallOK, NamesInv, ThreadCreate
  PROVE  NamesInv'
<1>1. TypeOK /\ 0 \notin Pids /\ main.x \in Contexts
  BY CspAssumption DEF IInv, TypeOK
<1>2. /\ main.pc = "create" /\ UNCHANGED <<ctx, ret, crashed>>
      /\ main'.pc = "created" /\ main'.op = main.op /\ main'.x = main.x
  BY CreateDoes
<1>3. KillsItsOwn'
  BY <1>2 DEF KillsItsOwn
<1>4. ASSUME NEW x \in Contexts, StillNamed(x, Len(ret)), x # main.x, x \in Endless
      PROVE  Names(x, ctx[x].id)
  BY <1>2, <1>4 DEF NamesInv, NamesOK, Changing
<1>5. CASE UNCHANGED <<proc, table>> /\ main'.id = 0
  <2>1. Names(main.x, main.id)'
    BY <1>1, <1>5 DEF Names
  <2> QED
    BY <1>2, <1>3, <1>4, <1>5, <2>1
    DEF NamesInv, NamesOK, StillNamed, Only, Never, Changing, Names
<1>6. CASE ~(UNCHANGED <<proc, table>> /\ main'.id = 0)
  <2>1. PICK p \in Pids, n \in Nat :
          /\ table[p] = 0 /\ main'.id = p /\ n # 0
          /\ DOMAIN proc' = DOMAIN proc \cup {n} /\ n \notin DOMAIN proc
          /\ \A i \in DOMAIN proc : proc'[i] = proc[i]
          /\ proc'[n].x = main.x /\ proc'[n].pid = p /\ proc'[n].status = "ready"
          /\ table' = [table EXCEPT ![p] = n]
    BY <1>6, CreateDoes
  <2>2. table'[p] = n /\ \A q \in Pids : q # p => table'[q] = table[q]
    BY <1>1, <2>1 DEF TypeOK
  <2>3. Names(main.x, main.id)'
    BY <1>2, <2>1, <2>2 DEF Names
  <2>4. ASSUME NEW x \in Contexts, x \in Endless, Names(x, ctx[x].id) PROVE Names(x, ctx[x].id)'
    <3> DEFINE id == ctx[x].id
    <3>1. SUFFICES ASSUME id \in Pids
                   PROVE  /\ table'[id] # 0 /\ proc'[table'[id]].x = x
                          /\ proc'[table'[id]].status \in {"ready", "blocked", "parked"}
      BY <1>2 DEF Names
    <3>2. /\ table[id] # 0 /\ proc[table[id]].x = x
          /\ proc[table[id]].status \in {"ready", "blocked", "parked"}
      BY <2>4, <3>1 DEF Names
    <3>3. table[id] \in DOMAIN proc
      BY <3>1, <3>2 DEF IInv, OnePidEach
    <3>4. table'[id] = table[id]
      BY <2>1, <2>2, <3>1, <3>2
    <3> HIDE DEF id
    <3> QED
      BY <2>1, <3>2, <3>3, <3>4
  <2> QED
    BY <1>2, <1>3, <1>4, <2>3, <2>4 DEF NamesInv, NamesOK, StillNamed, Only, Never, Changing
<1> QED
  BY <1>5, <1>6

LEMMA CreatedNames ==
  ASSUME IInv, CallOK, NamesInv, Created
  PROVE  NamesInv'
<1>1. /\ TypeOK /\ main.pc = "created" /\ main.x \in Contexts /\ UNCHANGED <<proc, table>>
      /\ ctx' = [ctx EXCEPT ![main.x] = [ctx[main.x] EXCEPT !.id = main.id]]
      /\ Return("go", main.x, IF main.id = 0 THEN 0 ELSE 1)
  BY DEF IInv, TypeOK, Created, At
<1>2. main'.pc = "idle" /\ Len(ret) \in Nat /\ Len(ret') = Len(ret) + 1
  BY <1>1, Counted
<1>3. PICK call \in NextCalls : call.op = "go" /\ call.x = main.x
  BY <1>1 DEF CallOK, OpAt
<1>4. call \in Program[Len(ret) + 1]
  BY DEF NextCalls
<1>5. ctx'[main.x].id = main.id /\ \A x \in Contexts : x # main.x => ctx'[x] = ctx[x]
  BY <1>1 DEF TypeOK
<1>6. ASSUME NEW x \in Contexts, StillNamed(x, Len(ret) + 1)
      PROVE  Names(x, ctx[x].id)'
  <2>1. CASE x = main.x
    BY <1>1, <1>5, <2>1 DEF NamesInv, NamesOK, Names
  <2>2. CASE x # main.x
    <3>1. x \in Endless /\ StillNamed(x, Len(ret))
      BY <1>2, <1>3, <1>4, <1>6, <2>2, NamedBefore
    <3>2. Names(x, ctx[x].id)
      BY <1>1, <2>2, <3>1 DEF NamesInv, NamesOK, Changing
    <3> QED
      BY <1>1, <1>5, <2>2, <3>2 DEF Names
  <2> QED
    BY <2>1, <2>2
<1>7. \A x \in Contexts : StillNamed(x, Len(ret))' => Names(x, ctx[x].id)'
  BY <1>2, <1>6 DEF StillNamed, Only, Never
<1> QED
  BY <1>2, <1>7 DEF NamesInv, KillsItsOwn, NamesOK

LEMMA KillStartNames ==
  ASSUME IInv, CallOK, NamesInv, CspKill
  PROVE  NamesInv'
<1>1. PICK call \in NextCalls :
        /\ main.pc = "idle" /\ call.op = "kill" /\ Goto("get", call)
        /\ UNCHANGED <<proc, table, crashed>>
        /\ \A x \in Contexts : ctx'[x].id = ctx[x].id
  BY KillStarts DEF IInv
<1> QED
  BY <1>1, BeginsNames DEF OpAt

LEMMA GetNames ==
  ASSUME KillsWhatRuns, IInv, CallOK, NamesInv, ThreadGet
  PROVE  NamesInv'
<1> DEFINE id == ctx[main.x].id
<1>1. TypeOK /\ main.x \in Contexts /\ main.pc = "get" /\ UNCHANGED <<ctx, proc, table, ret>>
  BY DEF IInv, TypeOK, ThreadGet, At
<1>2. CASE ~(id \in Pids /\ table[id] # 0)
  BY <1>1, <1>2 DEF ThreadGet, NamesInv, CallOK, NextCalls, KillsItsOwn, NamesOK, StillNamed, Only, Never,
                    Changing, Names
<1>3. CASE id \in Pids /\ table[id] # 0
  <2>1. main' = [main EXCEPT !.pc = "mark", !.id = id, !.thread = table[id]]
    BY <1>3 DEF ThreadGet
  <2>2. /\ main'.pc = "mark" /\ main'.op = main.op /\ main'.x = main.x /\ main'.thread = table[id]
    BY <1>1, <2>1 DEF TypeOK
  <2>3. PICK call \in NextCalls : call.op = "kill" /\ call.x = main.x
    BY <1>1 DEF CallOK, OpAt
  <2>4. Len(ret) \in Nat /\ Len(ret) + 1 \in 1..Len(Program) /\ call \in Program[Len(ret) + 1]
    BY <1>1, NextFacts
  <2>5. StillNamed(main.x, (Len(ret) + 1) - 1)
    BY <2>3, <2>4 DEF KillsWhatRuns
  <2>6. (Len(ret) + 1) - 1 = Len(ret)
    BY <2>4
  <2>7. Names(main.x, id)
    BY <1>1, <2>5, <2>6 DEF NamesInv, NamesOK, Changing
  <2>8. KillsItsOwn'
    BY <1>1, <1>3, <2>2, <2>7 DEF KillsItsOwn, Names
  <2>9. \A x \in Contexts : StillNamed(x, Len(ret)) => Names(x, ctx[x].id)
    BY <1>1 DEF NamesInv, NamesOK, Changing
  <2>10. NamesOK'
    BY <1>1, <2>2, <2>9 DEF NamesOK, StillNamed, Only, Never, Names
  <2> QED
    BY <2>8, <2>10 DEF NamesInv
<1> QED
  BY <1>2, <1>3

LEMMA MarkNames ==
  ASSUME IInv, CallOK, NamesInv, SetZombie
  PROVE  NamesInv'
<1>1. /\ main.pc = "mark" /\ UNCHANGED <<ctx, table, ret, crashed>> /\ main.thread \in DOMAIN proc
      /\ main'.pc = "reap" /\ main'.op = main.op /\ main'.x = main.x /\ main'.thread = main.thread
      /\ \A j \in DOMAIN proc : proc'[j].x = proc[j].x
      /\ \A j \in DOMAIN proc : j # main.thread => proc'[j] = proc[j]
  BY MarkDoes
<1>2. proc[main.thread].x = main.x
  BY <1>1 DEF NamesInv, KillsItsOwn
<1>3. KillsItsOwn'
  BY <1>1, <1>2 DEF KillsItsOwn
<1>4. ASSUME NEW x \in Contexts, StillNamed(x, Len(ret)), x # main.x PROVE Names(x, ctx[x].id)'
  <2> DEFINE id == ctx[x].id
  <2>1. Names(x, id)
    BY <1>1, <1>4 DEF NamesInv, NamesOK, Changing
  <2>2. SUFFICES ASSUME id \in Pids
                 PROVE  /\ table[id] # 0 => proc'[table[id]].x = x
                        /\ x \in Endless => /\ table[id] # 0
                                            /\ proc'[table[id]].status \in {"ready", "blocked", "parked"}
    BY <1>1 DEF Names
  <2>3. table[id] # 0 => table[id] \in DOMAIN proc /\ proc[table[id]].x = x /\ table[id] # main.thread
    BY <1>2, <1>4, <2>1, <2>2 DEF Names, IInv, OnePidEach
  <2> HIDE DEF id
  <2> QED
    BY <1>1, <2>1, <2>2, <2>3 DEF Names
<1>5. NamesOK'
  BY <1>1, <1>4 DEF NamesOK, StillNamed, Only, Never, Changing
<1> QED
  BY <1>3, <1>5 DEF NamesInv

LEMMA ReapNames ==
  ASSUME IInv, CallOK, NamesInv, KillZombie
  PROVE  NamesInv'
<1>1. TypeOK /\ main.pc = "reap" /\ UNCHANGED <<ctx, crashed>> /\ main.id \in Pids
  BY ReapDoes DEF IInv
<1>2. main'.pc = "idle" /\ Len(ret) \in Nat /\ Len(ret') = Len(ret) + 1
  BY <1>1, ReapDoes, Counted
<1>3. PICK call \in NextCalls : call.op = "kill" /\ call.x = main.x
  BY <1>1 DEF CallOK, OpAt
<1>4. call \in Program[Len(ret) + 1]
  BY DEF NextCalls
<1>5. ASSUME NEW x \in Contexts, StillNamed(x, Len(ret) + 1)
      PROVE  Names(x, ctx[x].id)'
  <2> DEFINE id == ctx[x].id
  <2>1. x # main.x /\ StillNamed(x, Len(ret))
    BY <1>2, <1>3, <1>4, <1>5, NamedBefore
  <2>2. Names(x, id)
    BY <1>1, <2>1 DEF NamesInv, NamesOK, Changing
  <2>3. SUFFICES ASSUME id \in Pids
                 PROVE  /\ table'[id] # 0 => proc'[table'[id]].x = x
                        /\ x \in Endless => /\ table'[id] # 0
                                            /\ proc'[table'[id]].status \in {"ready", "blocked", "parked"}
    BY <1>1 DEF Names
  <2>4. table[id] # 0 => table[id] \in DOMAIN proc /\ proc[table[id]].x = x /\ proc[table[id]].pid = id
    BY <2>2, <2>3 DEF Names, IInv, OnePidEach
  <2>5. CASE UNCHANGED <<proc, table>>
    BY <2>2, <2>3, <2>5 DEF Names
  <2>6. CASE ~UNCHANGED <<proc, table>>
    <3> DEFINE i == table[main.id]
    <3>1. /\ table' = [table EXCEPT ![main.id] = 0] /\ i \in DOMAIN proc
          /\ proc[i].status = "zombie" /\ proc[i].pid = main.id
          /\ \A j \in DOMAIN proc : j # i => proc'[j] = proc[j]
      BY <2>6, ReapDoes DEF Reaped
    <3>2. CASE id = main.id
      <4>1. table'[id] = 0 /\ x \notin Endless
        BY <1>1, <2>2, <2>3, <3>1, <3>2 DEF TypeOK, Names
      <4> QED
        BY <4>1
    <3>3. CASE id # main.id
      <4>1. table'[id] = table[id]
        BY <1>1, <2>3, <3>1, <3>3 DEF TypeOK
      <4> HIDE DEF id
      <4> QED
        BY <2>2, <2>3, <2>4, <3>1, <3>3, <4>1 DEF Names
    <3> QED
      BY <3>2, <3>3
  <2> QED
    BY <2>5, <2>6
<1>6. \A x \in Contexts : StillNamed(x, Len(ret))' => Names(x, ctx[x].id)'
  BY <1>2, <1>5 DEF StillNamed, Only, Never
<1> QED
  BY <1>2, <1>6 DEF NamesInv, KillsItsOwn, NamesOK

LEMMA NamesInductive ==
  ASSUME KillsWhatRuns
  PROVE  Spec => []NamesInv
<1>1. Init => NamesInv
  <2> SUFFICES ASSUME Init PROVE NamesInv
    OBVIOUS
  <2>1. main.pc = "idle" /\ \A x \in Contexts : ctx[x].id = 0
    BY DEF Init, Idle
  <2>2. 0 \notin Pids
    BY CspAssumption
  <2> QED
    BY <2>1, <2>2 DEF CallOK, NamesInv, KillsItsOwn, NamesOK, Names
<1>2. IInv /\ CallOK /\ NamesInv /\ [Next]_vars => NamesInv'
  <2> SUFFICES ASSUME IInv, CallOK, NamesInv, [Next]_vars PROVE NamesInv'
    OBVIOUS
  <2>1. CASE Main
    BY <2>1, GoNames, CreateNames, CreatedNames, PollNames, KillStartNames, GetNames, MarkNames, ReapNames
    DEF Main
  <2>2. CASE \E i \in DOMAIN proc : Process(i)
    BY <2>2, ProcessNames
  <2>3. CASE Ended \/ UNCHANGED vars
    BY <2>3 DEF Ended, NamesInv, CallOK, NextCalls, KillsItsOwn, NamesOK, StillNamed, Only, Never,
                Changing, Names, vars
  <2> QED
    BY <2>1, <2>2, <2>3 DEF Next
<1> QED
  BY <1>1, <1>2, CallsInductive, PTL DEF Spec

\* csp_kill marks the process of its context and no other, whatever pids are reused
\* and whoever returns in the middle of it, in every program of main that kills only
\* processes which cannot have ended and given their pid away.
THEOREM KillsHitTheirOwn ==
  ASSUME KillsWhatRuns
  PROVE  Spec => []KillsItsOwn
<1>1. NamesInv => KillsItsOwn
  BY DEF NamesInv
<1> QED
  BY <1>1, NamesInductive, PTL

--------------------------------------------------------------------------------
(* What is left of a process that was killed *)

\* Outside csp_kill whoever is in RIOT's table lives.
LEMMA InTable ==
  ASSUME IInv, ZombiesOK, main.pc # "reap", NEW p \in Pids, table[p] # 0
  PROVE  table[p] \in DOMAIN proc /\ Alive(table[p])
<1> DEFINE i == table[p]
<1>1. i \in DOMAIN proc /\ proc[i].pid = p /\ proc[i].status # "stopped"
  BY DEF IInv, OnePidEach
<1>2. proc[i].status \in Statuses
  BY <1>1, ProcFacts DEF IInv, ProcessSet
<1>3. proc[i].status # "zombie"
  BY <1>1 DEF ZombiesOK
<1> QED
  BY <1>1, <1>2, <1>3 DEF Statuses, Alive

LEMMA ProcessRemains ==
  ASSUME IInv, RemainsInv, NEW i \in DOMAIN proc, Process(i)
  PROVE  RemainsInv'
<1>1. /\ UNCHANGED <<main, ret, crashed>> /\ DOMAIN proc' = DOMAIN proc
      /\ \A j \in DOMAIN proc : proc'[j].x = proc[j].x /\ proc'[j].pid = proc[j].pid
      /\ \A x \in Contexts : Running(x)' => Running(x)
  BY ProcessDoes
<1>2. \A j \in DOMAIN proc : Alive(j)' => Alive(j)
  BY ProcessDoes
<1>3. \A x : NoneAlive(x) => NoneAlive(x)'
  BY <1>1, <1>2 DEF NoneAlive
<1>4. OneAlive'
  BY <1>1, <1>2 DEF RemainsInv, OneAlive
<1>5. ClearedOK'
  BY <1>1, <1>3 DEF RemainsInv, ClearedOK, Cleared, Only, Never
<1>6. ZombiesOK'
  <2> SUFFICES ASSUME NEW j \in DOMAIN proc, proc'[j].status = "zombie", table'[proc[j].pid] = j
               PROVE  main.pc = "reap" /\ main.thread = j
    BY <1>1 DEF ZombiesOK
  <2>1. proc[j].status = "zombie"
    BY ProcessDoes
  <2>2. proc[j].pid \in Pids /\ proc[i].pid \in Pids /\ j # 0 /\ TypeOK
    BY ProcFacts DEF IInv, ProcessSet
  <2>3. table[proc[j].pid] = j
    <3>1. CASE UNCHANGED table
      BY <3>1
    <3>2. CASE table' = Reaped(proc[i].pid)
      BY <2>2, <3>2 DEF Reaped, TypeOK
    <3> QED
      BY <3>1, <3>2, ProcessDoes
  <2> QED
    BY <2>1, <2>3 DEF RemainsInv, ZombiesOK
<1>7. VictimOK'
  <2> SUFFICES ASSUME main.pc \in {"mark", "reap"}
               PROVE  /\ proc'[main.thread].pid = main.id
                      /\ \A j \in DOMAIN proc : proc[j].x = main.x /\ Alive(j)' =>
                           main.pc = "mark" /\ j = main.thread
    BY <1>1 DEF VictimOK
  <2>1. main.thread \in DOMAIN proc
    BY DEF IInv, KillOK
  <2> QED
    BY <1>1, <1>2, <2>1 DEF RemainsInv, VictimOK
<1>8. KilledOK'
  <2>1. main.x \in Contexts
    BY DEF IInv, TypeOK
  <2> QED
    BY <1>1, <1>3, <2>1 DEF RemainsInv, KilledOK, Last
<1> QED
  BY <1>4, <1>5, <1>6, <1>7, <1>8 DEF RemainsInv

\* main begins a call, and ends one that starts and kills nothing.
LEMMA BeginsRemains ==
  ASSUME IInv, RemainsInv, main.pc = "idle", NEW call \in NextCalls, NEW pc \in {"create", "wait", "get"},
         Goto(pc, call), UNCHANGED <<proc, table>>, pc = "get" => ~Running(call.x)'
  PROVE  RemainsInv'
<1>1. TypeOK /\ call \in Calls
  BY ProgramCalls DEF IInv
<1>2. main'.pc = pc /\ main'.x = call.x /\ ret' = ret
  BY <1>1, GotoMain DEF Places
<1>3. OneAlive'
  BY DEF RemainsInv, OneAlive, Alive
<1>4. ClearedOK'
  BY <1>2 DEF RemainsInv, ClearedOK, Cleared, Only, Never, NoneAlive, Alive
<1>5. ZombiesOK'
  BY <1>2 DEF RemainsInv, ZombiesOK
<1>6. VictimOK'
  BY <1>2 DEF VictimOK
<1>7. KilledOK'
  <2>1. CASE pc = "get"
    <3>1. ~Running(main.x)'
      BY <1>2, <2>1 DEF Running
    <3> QED
      BY <1>2, <2>1, <3>1 DEF KilledOK, Last
  <2>2. CASE pc # "get"
    BY <1>2, <2>2 DEF KilledOK, Last
  <2> QED
    BY <2>1, <2>2
<1> QED
  BY <1>3, <1>4, <1>5, <1>6, <1>7 DEF RemainsInv

LEMMA EndsRemains ==
  ASSUME IInv, RemainsInv, main.pc \in {"idle", "wait", "created"}, NEW call \in NextCalls,
         call.op # "kill", main.pc = "created" => call.op = "go" /\ call.x = main.x,
         NEW r \in Int, Return(call.op, call.x, r), UNCHANGED <<proc, table>>
  PROVE  RemainsInv'
<1>1. TypeOK
  BY DEF IInv
<1>2. main'.pc = "idle" /\ main'.op = call.op /\ Len(ret) \in Nat /\ Len(ret') = Len(ret) + 1
  BY <1>1, Counted
<1>3. call \in Program[Len(ret) + 1]
  BY DEF NextCalls
<1>4. OneAlive'
  BY DEF RemainsInv, OneAlive, Alive
<1>5. ASSUME NEW x \in Contexts, ~Fast(x), Cleared(x, Len(ret) + 1) PROVE NoneAlive(x)
  <2>1. Cleared(x, Len(ret)) /\ (call.op = "go" => call.x # x)
    BY <1>2, <1>3, <1>5, ClearedBefore
  <2> QED
    BY <1>5, <2>1 DEF RemainsInv, ClearedOK
<1>6. ClearedOK'
  BY <1>2, <1>5 DEF ClearedOK, Cleared, Only, Never, NoneAlive, Alive
<1>7. ZombiesOK'
  BY <1>2 DEF RemainsInv, ZombiesOK
<1> QED
  BY <1>2, <1>4, <1>6, <1>7 DEF RemainsInv, VictimOK, KilledOK, Last

LEMMA CallRemains ==
  ASSUME IInv, CallOK, RemainsInv, Go \/ CspWait \/ CspKill \/ Created \/ CspRunning \/ Waited \/ CspRet
  PROVE  RemainsInv'
<1>1. TypeOK
  BY DEF IInv
<1>2. CASE Go
  BY <1>2, BeginsRemains DEF Go, Invokes
<1>3. CASE CspWait
  BY <1>3, BeginsRemains DEF CspWait, Invokes
<1>4. CASE CspKill
  BY <1>1, <1>4, KillStarts, BeginsRemains
<1>5. CASE CspRunning
  <2>1. PICK call \in NextCalls :
          /\ main.pc = "idle" /\ call.op = "running"
          /\ Return("running", call.x, IF Running(call.x) THEN 1 ELSE 0)
          /\ UNCHANGED <<proc, table>>
    BY <1>5 DEF CspRunning, Invokes
  <2> QED
    BY <2>1, EndsRemains
<1>6. CASE CspRet
  <2>1. PICK call \in NextCalls :
          /\ main.pc = "idle" /\ call.op = "ret"
          /\ Return("ret", call.x, ctx[call.x].retval)
          /\ UNCHANGED <<proc, table>>
    BY <1>6 DEF CspRet, Invokes
  <2>2. ctx[call.x].retval \in Nat
    BY <1>1, ProgramCalls DEF TypeOK
  <2> QED
    BY <2>1, <2>2, EndsRemains
<1>7. CASE Waited /\ ~Running(main.x)
  <2>1. main.pc = "wait" /\ Return("wait", main.x, 0) /\ UNCHANGED <<proc, table>>
    BY <1>7 DEF Waited, At
  <2>2. PICK call \in NextCalls : call.op = "wait" /\ call.x = main.x
    BY <2>1 DEF CallOK, OpAt
  <2> QED
    BY <2>1, <2>2, EndsRemains
<1>8. CASE Waited /\ Running(main.x)
  <2>1. UNCHANGED vars
    BY <1>8 DEF Waited, vars
  <2> QED
    BY <2>1 DEF RemainsInv, OneAlive, ClearedOK, Cleared, Only, Never, NoneAlive, Alive, ZombiesOK, VictimOK,
                KilledOK, Last, Running, vars
<1>9. CASE Created
  <2>1. /\ main.pc = "created" /\ UNCHANGED <<proc, table>>
        /\ Return("go", main.x, IF main.id = 0 THEN 0 ELSE 1)
    BY <1>9 DEF Created, At
  <2>2. PICK call \in NextCalls : call.op = "go" /\ call.x = main.x
    BY <2>1 DEF CallOK, OpAt
  <2> QED
    BY <2>1, <2>2, EndsRemains
<1> QED
  BY <1>2, <1>3, <1>4, <1>5, <1>6, <1>7, <1>8, <1>9

LEMMA CreateRemains ==
  ASSUME OneAtATime, IInv, CallOK, RemainsInv, ThreadCreate
  PROVE  RemainsInv'
<1>1. TypeOK /\ main.x \in Contexts /\ 0 \notin DOMAIN proc
  BY ProcFacts DEF IInv, TypeOK
<1>2. /\ main.pc = "create" /\ UNCHANGED <<ctx, ret, crashed>>
      /\ main'.pc = "created" /\ main'.x = main.x
      /\ \A i \in DOMAIN proc : ~Active(i)
  BY CreateDoes
<1>3. VictimOK' /\ KilledOK'
  BY <1>2 DEF VictimOK, KilledOK, Last
<1>4. CASE UNCHANGED <<proc, table>>
  <2>1. OneAlive'
    BY <1>4 DEF RemainsInv, OneAlive, Alive
  <2>2. ClearedOK'
    BY <1>2, <1>4 DEF RemainsInv, ClearedOK, Cleared, Only, Never, NoneAlive, Alive
  <2>3. ZombiesOK'
    BY <1>2, <1>4 DEF RemainsInv, ZombiesOK
  <2> QED
    BY <1>3, <2>1, <2>2, <2>3 DEF RemainsInv
<1>5. CASE ~UNCHANGED <<proc, table>>
  <2>1. PICK p \in Pids, n \in Nat :
          /\ table[p] = 0 /\ n # 0
          /\ DOMAIN proc' = DOMAIN proc \cup {n} /\ n \notin DOMAIN proc
          /\ \A i \in DOMAIN proc : proc'[i] = proc[i]
          /\ proc'[n].x = main.x /\ proc'[n].status = "ready"
          /\ table' = [table EXCEPT ![p] = n]
    BY <1>5, CreateDoes
  <2>2. \A i \in DOMAIN proc : Alive(i)' <=> Alive(i)
    BY <2>1 DEF Alive
  <2>3. NoneAlive(main.x)
    <3>1. CASE Fast(main.x)
      BY <1>2, <3>1 DEF NoneAlive, Alive, Active, IInv, FastOK
    <3>2. CASE ~Fast(main.x)
      <4>1. PICK call \in NextCalls : call.op = "go" /\ call.x = main.x
        BY <1>2 DEF CallOK, OpAt
      <4>2. Len(ret) \in Nat /\ Len(ret) + 1 \in 1..Len(Program) /\ call \in Program[Len(ret) + 1]
        BY <1>1, NextFacts
      <4>3. Cleared(main.x, (Len(ret) + 1) - 1)
        BY <3>2, <4>1, <4>2 DEF OneAtATime
      <4>4. (Len(ret) + 1) - 1 = Len(ret)
        BY <4>2
      <4> QED
        BY <1>1, <1>2, <3>2, <4>3, <4>4 DEF RemainsInv, ClearedOK
    <3> QED
      BY <3>1, <3>2
  <2>4. OneAlive'
    BY <2>1, <2>2, <2>3 DEF RemainsInv, OneAlive, NoneAlive
  <2>5. ClearedOK'
    <3>1. ASSUME NEW x \in Contexts, ~Fast(x), Cleared(x, Len(ret)), x # main.x PROVE NoneAlive(x)'
      <4>1. NoneAlive(x)
        BY <3>1 DEF RemainsInv, ClearedOK
      <4> QED
        BY <2>1, <2>2, <3>1, <4>1 DEF NoneAlive
    <3> QED
      BY <1>2, <3>1 DEF ClearedOK, Cleared, Only, Never
  <2>6. ZombiesOK'
    <3> SUFFICES ASSUME NEW i \in DOMAIN proc, proc[i].status = "zombie", table'[proc[i].pid] = i
                 PROVE  FALSE
      BY <2>1 DEF ZombiesOK
    <3>1. proc[i].pid \in Pids /\ i # n
      BY <1>1, <2>1, ProcFacts DEF ProcessSet
    <3>2. table[proc[i].pid] = i
      BY <1>1, <2>1, <3>1 DEF TypeOK
    <3> QED
      BY <1>2, <3>2 DEF RemainsInv, ZombiesOK
  <2> QED
    BY <1>3, <2>4, <2>5, <2>6 DEF RemainsInv
<1> QED
  BY <1>4, <1>5

\* The thread csp_kill finds is the one that lives of its context.
LEMMA GetRemains ==
  ASSUME IInv, RemainsInv, ThreadGet, KillsItsOwn'
  PROVE  RemainsInv'
<1> DEFINE id == ctx[main.x].id
<1>1. TypeOK /\ main.pc = "get" /\ UNCHANGED <<ctx, proc, table, ret>>
  BY DEF IInv, ThreadGet, At
<1>2. OneAlive'
  BY <1>1 DEF RemainsInv, OneAlive, Alive
<1>3. CASE ~(id \in Pids /\ table[id] # 0)
  BY <1>1, <1>2, <1>3 DEF ThreadGet, RemainsInv, ClearedOK, Cleared, Only, Never, NoneAlive, Alive,
                          ZombiesOK, VictimOK, KilledOK, Last, Running
<1>4. CASE id \in Pids /\ table[id] # 0
  <2>1. main' = [main EXCEPT !.pc = "mark", !.id = id, !.thread = table[id]]
    BY <1>4 DEF ThreadGet
  <2>2. main'.pc = "mark" /\ main'.x = main.x /\ main'.id = id /\ main'.thread = table[id]
    BY <1>1, <2>1 DEF TypeOK
  <2>3. ClearedOK'
    BY <1>1, <2>2 DEF RemainsInv, ClearedOK, Cleared, Only, Never, NoneAlive, Alive
  <2>4. ZombiesOK'
    BY <1>1, <2>2 DEF RemainsInv, ZombiesOK
  <2>5. VictimOK'
    <3>1. table[id] \in DOMAIN proc /\ Alive(table[id])
      BY <1>1, <1>4, InTable DEF RemainsInv
    <3>2. proc[table[id]].pid = id
      BY <1>4 DEF IInv, OnePidEach
    <3>3. proc[table[id]].x = main.x
      BY <1>1, <2>2 DEF KillsItsOwn
    <3>4. \A i \in DOMAIN proc : proc[i].x = main.x /\ Alive(i) => i = table[id]
      BY <3>1, <3>3 DEF RemainsInv, OneAlive
    <3> QED
      BY <1>1, <2>2, <3>2, <3>4 DEF VictimOK, Alive
  <2>6. KilledOK'
    <3>1. ~Running(main.x)
      BY <1>1 DEF RemainsInv, KilledOK
    <3> QED
      BY <1>1, <2>2, <3>1 DEF KilledOK, Last, Running
  <2> QED
    BY <1>2, <2>3, <2>4, <2>5, <2>6 DEF RemainsInv
<1> QED
  BY <1>3, <1>4

LEMMA MarkRemains ==
  ASSUME IInv, RemainsInv, SetZombie
  PROVE  RemainsInv'
<1>1. /\ main.pc = "mark" /\ UNCHANGED <<ctx, table, ret, crashed>> /\ main.thread \in DOMAIN proc
      /\ main'.pc = "reap" /\ main'.x = main.x /\ main'.id = main.id /\ main'.thread = main.thread
      /\ DOMAIN proc' = DOMAIN proc
      /\ \A j \in DOMAIN proc : proc'[j].x = proc[j].x /\ proc'[j].pid = proc[j].pid
      /\ \A j \in DOMAIN proc : j # main.thread => proc'[j] = proc[j]
      /\ proc'[main.thread].status = "zombie"
  BY MarkDoes
<1>2. \A j \in DOMAIN proc : Alive(j)' => Alive(j) /\ j # main.thread
  BY <1>1 DEF Alive
<1>3. OneAlive'
  BY <1>1, <1>2 DEF RemainsInv, OneAlive
<1>4. ClearedOK'
  BY <1>1, <1>2 DEF RemainsInv, ClearedOK, Cleared, Only, Never, NoneAlive
<1>5. ZombiesOK'
  BY <1>1 DEF RemainsInv, ZombiesOK
<1>6. VictimOK'
  BY <1>1, <1>2 DEF RemainsInv, VictimOK
<1>7. KilledOK'
  <2>1. ~Running(main.x)
    BY <1>1 DEF RemainsInv, KilledOK
  <2> QED
    BY <1>1, <2>1 DEF KilledOK, Last, Running
<1> QED
  BY <1>3, <1>4, <1>5, <1>6, <1>7 DEF RemainsInv

LEMMA ReapRemains ==
  ASSUME IInv, CallOK, RemainsInv, KillZombie
  PROVE  RemainsInv'
<1>1. /\ TypeOK /\ main.pc = "reap" /\ UNCHANGED <<ctx, crashed>> /\ main.id \in Pids
      /\ DOMAIN proc' = DOMAIN proc
      /\ \A j \in DOMAIN proc : proc'[j].x = proc[j].x /\ proc'[j].pid = proc[j].pid
  BY ReapDoes DEF IInv
<1>2. /\ main'.pc = "idle" /\ main'.op = "kill" /\ main'.x = main.x
      /\ Len(ret) \in Nat /\ Len(ret') = Len(ret) + 1
  BY <1>1, ReapDoes, Counted
<1>3. \A j \in DOMAIN proc : Alive(j)' => Alive(j)
  BY ReapDoes DEF Alive
<1>4. NoneAlive(main.x)
  BY <1>1 DEF RemainsInv, VictimOK, NoneAlive
<1>5. \A x : NoneAlive(x) => NoneAlive(x)'
  BY <1>1, <1>3 DEF NoneAlive
<1>6. OneAlive'
  BY <1>1, <1>3 DEF RemainsInv, OneAlive
<1>7. PICK call \in NextCalls : call.op = "kill" /\ call.x = main.x
  BY <1>1 DEF CallOK, OpAt
<1>8. call \in Program[Len(ret) + 1]
  BY DEF NextCalls
<1>9. ASSUME NEW x \in Contexts, ~Fast(x), Cleared(x, Len(ret) + 1) PROVE NoneAlive(x)
  <2>1. Cleared(x, Len(ret)) \/ x = main.x
    BY <1>2, <1>7, <1>8, <1>9, ClearedBefore
  <2> QED
    BY <1>1, <1>4, <1>9, <2>1 DEF RemainsInv, ClearedOK
<1>10. ClearedOK'
  BY <1>2, <1>5, <1>9 DEF ClearedOK, Cleared, Only, Never
<1>11. ZombiesOK'
  <2> DEFINE i == table[main.id]
  <2> SUFFICES ASSUME NEW j \in DOMAIN proc, proc'[j].status = "zombie", table'[proc[j].pid] = j
               PROVE  FALSE
    BY <1>1 DEF ZombiesOK
  <2>1. proc[main.thread].pid = main.id
    BY <1>1 DEF RemainsInv, VictimOK
  <2>2. CASE UNCHANGED <<proc, table>> /\ (i = 0 \/ proc[i].status # "zombie")
    <3>1. j = main.thread
      BY <2>2 DEF RemainsInv, ZombiesOK
    <3>2. i = j /\ j # 0 /\ proc[j].status = "zombie"
      BY <1>1, <2>1, <2>2, <3>1, ProcFacts
    <3> QED
      BY <2>2, <3>2
  <2>3. CASE /\ table' = Reaped(main.id) /\ proc'[i].status = "stopped"
             /\ \A k \in DOMAIN proc : k # i => proc'[k] = proc[k]
    <3>1. proc[j].status = "zombie" /\ j # 0 /\ proc[j].pid \in Pids
      BY <1>1, <2>3, ProcFacts DEF ProcessSet
    <3>2. table[proc[j].pid] = j /\ proc[j].pid # main.id
      BY <1>1, <2>3, <3>1 DEF Reaped, TypeOK
    <3>3. j = main.thread
      BY <3>1, <3>2 DEF RemainsInv, ZombiesOK
    <3> QED
      BY <2>1, <3>2, <3>3
  <2> QED
    BY <2>2, <2>3, ReapDoes
<1>12. KilledOK'
  <2>1. ~Running(main.x)
    BY <1>1 DEF RemainsInv, KilledOK
  <2> QED
    BY <1>1, <1>2, <1>4, <1>5, <2>1 DEF KilledOK, Running
<1> QED
  BY <1>2, <1>6, <1>10, <1>11, <1>12 DEF RemainsInv, VictimOK

\* When csp_kill returns, nothing of the process it killed is left but the context,
\* in every program of main that starts a process only where it has none of that
\* context, if csp_kill finds the right thread: KillsHitTheirOwn says when it does.
THEOREM NothingElseRemains ==
  ASSUME OneAtATime
  PROVE  Spec /\ []KillsItsOwn => []OnlyTheContextRemains
<1>1. Init => RemainsInv
  <2> SUFFICES ASSUME Init PROVE RemainsInv
    OBVIOUS
  <2>1. DOMAIN proc = {} /\ main.pc = "idle" /\ main.op = "none"
    BY DEF Init, Idle
  <2> QED
    BY <2>1 DEF RemainsInv, OneAlive, ClearedOK, NoneAlive, ZombiesOK, VictimOK, KilledOK, Last
<1>2. IInv /\ CallOK /\ RemainsInv /\ KillsItsOwn' /\ [Next]_vars => RemainsInv'
  <2> SUFFICES ASSUME IInv, CallOK, RemainsInv, KillsItsOwn', [Next]_vars PROVE RemainsInv'
    OBVIOUS
  <2>1. CASE Main
    BY <2>1, CallRemains, CreateRemains, GetRemains, MarkRemains, ReapRemains DEF Main
  <2>2. CASE \E i \in DOMAIN proc : Process(i)
    BY <2>2, ProcessRemains
  <2>3. CASE Ended \/ UNCHANGED vars
    BY <2>3 DEF Ended, RemainsInv, OneAlive, ClearedOK, Cleared, Only, Never, NoneAlive, Alive, ZombiesOK,
                VictimOK, KilledOK, Last, Running, vars
  <2> QED
    BY <2>1, <2>2, <2>3 DEF Next
<1>3. IInv /\ RemainsInv => OnlyTheContextRemains
  <2> SUFFICES ASSUME IInv, RemainsInv, Last("kill")
               PROVE  /\ ~Running(main.x) /\ NoneAlive(main.x)
                      /\ \A p \in Pids : table[p] # 0 => proc[table[p]].x # main.x
    BY DEF OnlyTheContextRemains, NoneAlive
  <2>1. ~Running(main.x) /\ NoneAlive(main.x)
    BY DEF RemainsInv, KilledOK
  <2>2. \A p \in Pids : table[p] # 0 => table[p] \in DOMAIN proc /\ Alive(table[p])
    BY InTable DEF RemainsInv, Last
  <2> QED
    BY <2>1, <2>2 DEF NoneAlive
<1> QED
  BY <1>1, <1>2, <1>3, CallsInductive, PTL DEF Spec

\* Where main kills what runs and starts one process of a context at a time, csp_kill
\* leaves the context and nothing else.
THEOREM KilledLeaveTheContext ==
  ASSUME KillsWhatRuns, OneAtATime
  PROVE  Spec => []OnlyTheContextRemains
BY KillsHitTheirOwn, NothingElseRemains, PTL
================================================================================
