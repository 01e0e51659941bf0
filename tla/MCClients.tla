-------------------------------- MODULE MCClients --------------------------------
(* The boards TLC runs Clients on. *)
EXTENDS Clients, TLC

\* A board on which main kills a process asleep in a receive and sends to it, and
\* then ends.
MCThreads == Mains \cup Processes \cup {"reaper_main", "victim"}
MCChans == ClientChans \cup {"reaper_c"}
ReaperMain(h) ==
  IF h = <<>> THEN ToMake("reaper_c", 0) \cup ToMake("reaper_c", 1)
  ELSE InOrder(<< {}, ToGo("victim"), {[ToCall("kill", "reaper_c", 0) EXCEPT !.to = "victim"]},
                  ToSend("reaper_c", 1, 0), ToSend("reaper_c", 1, 0) >>, h)
MCCode(t, h) ==
  IF t = "reaper_main" THEN ReaperMain(h)
  ELSE IF t = "victim" THEN InOrder(<< ToRecv("reaper_c") >>, h)
  ELSE ClientCode(t, h)

\* One program at a time is flashed and its main booted.
EachBoard == {{m} : m \in Mains \cup {"reaper_main"}}
SimpleBoard == {{"simple_main"}}

\* CSP_PRIORITY is THREAD_PRIORITY_MAIN - 1.
MCPrio == [t \in MCThreads |-> IF t \in Mains \cup {"reaper_main"} THEN 7 ELSE 6]
AnyCreator == [c \in MCChans |-> "plexer_main"]
================================================================================
