SPECIFICATION Spec
CONSTANTS
  main = main
  proc = proc
  ch = ch
  ch2 = ch2
  Threads <- MCThreads
  NoThread = NoThread
  Prio <- ProcFirst
  BufSize = 3
  Tsrb = FALSE
  Chans <- OneChan
  Creator <- MainMakes
  Modes = {FALSE}
  Code <- ProducerCode
  Boot <- AllAtOnce
  HdrSize = 1
  Garbage = {0, 1}
INVARIANTS
  NoHang
CHECK_DEADLOCK FALSE
