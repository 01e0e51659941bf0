--------------------------------- MODULE MCCsp ---------------------------------
(* The programs TLC checks Csp with. *)
EXTENDS Csp, TLC

CONSTANTS a, b, d

MCContexts == {a, b, d}
MCNaps == (a :> 0) @@ (b :> 1) @@ (d :> 2)
Does(op, xs) == {[op |-> op, x |-> x] : x \in xs}

\* a returns at once, b after a nap, d naps twice and never returns.  b is killed,
\* perhaps while it returns; when it has returned already, csp_kill meets a null
\* pointer.  d is killed and started again; with two pids there is none left for a
\* while b sleeps.  The program meets KillsWhatRuns and OneAtATime of CspProofs.
KillProgram ==
  << Does("go", {a}), Does("go", {b}), Does("running", {a, b, d}), Does("kill", {b}), Does("wait", {b}),
     Does("go", {d}), Does("go", {b}), Does("ret", {a}), Does("kill", {d}), Does("wait", {d}),
     Does("go", {d}), Does("go", {a}), Does("ret", {a}), Does("go", {a}), Does("kill", {d}) >>

\* main waits for a process that ends.
WaitProgram == << Does("go", {b}), Does("wait", {b}) >>

\* main kills a process it started earlier, not knowing that it has ended.
StaleProgram == << Does("go", {a}), Does("go", {d}), Does("kill", {a}) >>
================================================================================
