SPECIFICATION Spec
CONSTANTS
  Threads <- MCThreads
  NoThread = NoThread
  Prio <- MCPrio
  BufSize = 8
  Tsrb = FALSE
  Chans <- MCChans
  Creator <- AnyCreator
  Modes = {FALSE}
  Code <- MCCode
  Boot <- SimpleBoard
  HdrSize = 2
  Garbage = {0, 1}
  Packets = 4
  Rounds = 2
  WorkCount = 4
  StringSizes = {1, 64}
INVARIANTS
  NoHang
CHECK_DEADLOCK FALSE
