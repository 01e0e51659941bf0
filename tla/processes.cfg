SPECIFICATION FairSpec
CONSTANTS
  main = main
  proc = proc
  ch = ch
  ch2 = ch2
  Threads <- MCThreads
  NoThread = NoThread
  Prio <- ProcFirst
  BufSize = 3
  Tsrb = FALSE
  Chans <- TwoChans
  Creator <- MainMakes
  Modes = {TRUE, FALSE}
  Code <- ProcessCode
  Boot <- AllAtOnce
  HdrSize = 1
  Garbage = {0, 1}
INVARIANTS
  WaiterAsleep
  NoHang
  Integrity
  Rendezvous
PROPERTIES
  AllReturn
