SPECIFICATION Spec
CONSTANTS
  main = main
  proc = proc
  ch = ch
  ch2 = ch2
  Threads <- MCThreads
  NoThread = NoThread
  Prio <- ProcFirst
  BufSize = 5
  Tsrb = FALSE
  Chans <- OneChan
  Creator <- MainMakes
  Modes = {TRUE}
  Code <- TornCode
  Boot <- AllAtOnce
  HdrSize = 2
  Garbage = {0, 1}
INVARIANTS
  Integrity
CHECK_DEADLOCK FALSE
