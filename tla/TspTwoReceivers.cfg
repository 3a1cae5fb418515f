CONSTANTS
  f1 = f1
  f2 = f2
  f3 = f3
  h1 = h1
  h2 = h2
  p1 = p1
  NoFlow = NoFlow
  Flows = {f1, f2, f3}
  Hosts = {h1, h2}
  Dest <- TwoAndOne
  Proto <- UdpAndIcmp
  Ports = {p1, f3}
  Port <- PortOfTwo
  Multiport = TRUE
  NumChans = 3
  Interruptible = {}
  LogRequested = TRUE
SPECIFICATION Spec
CONSTRAINTS
  NoTimeout
  OneFailure
INVARIANTS
  OneChannelPerHost
  MutexProtectsChannels
  AbortsOnlyForReceiver
SYMMETRY SwapTwo
CHECK_DEADLOCK FALSE
