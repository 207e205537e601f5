SPECIFICATION FairSpec
CONSTANTS
  gnd = gnd
  vcc = vcc
  pad = pad
  in = in
  a = a
  b = b
  c = c
  out = out
  NoNode = NoNode
  Node <- MCNode
  Sessions <- MCSessions
  AdderCinGlobal = FALSE
INVARIANTS
  TypeOK
  LiveKept
  ReportExact
  AddersCounted
  RecursionIsPath
PROPERTIES
  SweepImplemented
  SweepEnds
CHECK_DEADLOCK FALSE
