SPECIFICATION TimedSpec
CONSTANTS
  main = main
  proc = proc
  ch = ch
  ch2 = ch2
  chooser = chooser
  server = server
  west = west
  east = east
  Threads <- TryThreads
  NoThread = NoThread
  Prio <- TryPrio
  BufSize = 4
  Tsrb = FALSE
  Chans <- TryChans
  Creator <- TryCreator
  Modes = {TRUE}
  Code <- TryCode
  Boot <- TryBoards
  HdrSize = 1
  Garbage = {0, 1}
INVARIANTS
  Integrity
PROPERTIES
  TryIsAllOrNothing
  SelectsReturn
CHECK_DEADLOCK FALSE
