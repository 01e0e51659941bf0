SPECIFICATION FairSpec
CONSTANTS
  main = main
  proc = proc
  ch = ch
  ch2 = ch2
  Threads <- MCThreads
  NoThread = NoThread
  Prio <- EqualPrio
  BufSize = 3
  Tsrb = FALSE
  Chans <- OneChan
  Creator <- MainMakes
  Modes = {TRUE}
  Code <- StreamCode
  Boot <- AllAtOnce
  HdrSize = 1
  Garbage = {0, 1}
INVARIANTS
  TypeOK
  WaiterAsleep
  NoLostWaiter
  NoHang
  Integrity
  NothingLeft
PROPERTIES
  AllReturn
  ImplementsFifo
