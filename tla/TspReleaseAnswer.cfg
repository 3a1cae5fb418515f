CONSTANTS
  f1 = f1
  f2 = f2
  f3 = f3
  h1 = h1
  h2 = h2
  p1 = p1
  NoFlow = NoFlow
  Flows = {f1, f2}
  Hosts = {h1}
  Dest <- TwoTogether
  Proto <- AllTcp
  Ports = {f1, f2}
  Port <- OwnPort
  Multiport = FALSE
  NumChans = 2
  Interruptible = {}
  LogRequested = FALSE
SPECIFICATION Spec
INVARIANT ReleaseAnswered
