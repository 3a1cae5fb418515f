CONSTANTS
  f1 = f1
  f2 = f2
  f3 = f3
  h1 = h1
  h2 = h2
  p1 = p1
  NoFlow = NoFlow
  Flows = {f1, f2, f3}
  Hosts = {h1}
  Dest <- ThreeTogether
  Proto <- AllTcp
  Ports = {p1}
  Port <- OnePort
  Multiport = TRUE
  NumChans = 3
  Interruptible = {}
  LogRequested = FALSE
SPECIFICATION Spec
CONSTRAINT NoTimeout
INVARIANTS
  SharedSocketKept
  FlowsCountHolders
  ChannelOutlivesFlows
  NeverCancelledWhileSending
SYMMETRY SwapThree
CHECK_DEADLOCK FALSE
