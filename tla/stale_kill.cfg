SPECIFICATION Spec
CONSTANTS
  a = a
  b = b
  d = d
  Contexts <- MCContexts
  Pids = {1, 2}
  Naps <- MCNaps
  Endless = {d}
  MainPrio = 7
  Program <- StaleProgram
INVARIANT
  KillsItsOwn
CHECK_DEADLOCK FALSE
