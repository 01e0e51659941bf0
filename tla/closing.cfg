SPECIFICATION Spec
CONSTANTS
  main = main
  proc = proc
  ch = ch
  ch2 = ch2
  Threads <- MCThreads
  NoThread = NoThread
  Prio <- EqualPrio
  BufSize = 3
  Tsrb = FALSE
  Chans <- OneChan
  Creator <- MainMakes
  Modes = {TRUE, FALSE}
  Code <- CloseCode
  Boot <- AllAtOnce
  HdrSize = 1
  Garbage = {0, 1}
INVARIANTS
  WaiterAsleep
  NoLostWaiter
  IntegrityUntilRefused
PROPERTIES
  ClosedTakesNoPayload
CHECK_DEADLOCK FALSE
