SPECIFICATION BusySpec
CONSTANTS
  Threads <- MCThreads
  NoThread = NoThread
  Prio <- MCPrio
  BufSize = 8
  Tsrb = FALSE
  Chans <- MCChans
  Creator <- AnyCreator
  Modes = {FALSE}
  Code <- MCCode
  Boot <- EachBoard
  HdrSize = 2
  Garbage = {0, 1}
  Packets = 4
  Rounds = 2
  WorkCount = 4
  StringSizes = {1, 10}
INVARIANTS
  Routed
  TasksDone
  Echoed
  OwnConfiguration
PROPERTIES
  ClientsEnd
  MakesUnused
  StaysGone
CHECK_DEADLOCK FALSE
