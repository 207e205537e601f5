SPECIFICATION Spec
CONSTANTS
  gnd = gnd
  vcc = vcc
  pad = pad
  in = in
  a = a
  b = b
  c = c
  out = out
  NoNode = NoNode
  Node <- MCNode
  Sessions <- RepeatedSessions
  AdderCinGlobal = FALSE
INVARIANTS
  UnusedRemoved
CHECK_DEADLOCK FALSE
