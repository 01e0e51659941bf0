SPECIFICATION Spec
CONSTANTS
  main = main
  proc = proc
  ch = ch
  ch2 = ch2
  Threads <- MCThreads
  NoThread = NoThread
  Prio <- EqualPrio
  BufSize = 4
  Tsrb = FALSE
  Chans <- OneChan
  Creator <- MainMakes
  Modes = {TRUE}
  Code <- DrainCode
  Boot <- AllAtOnce
  HdrSize = 1
  Garbage = {0, 1}
PROPERTIES
  DrainsBeforeClosed
CHECK_DEADLOCK FALSE
