CONSTANTS
  s1 = s1
  s2 = s2
  f1 = f1
  f2 = f2
  g = g
  a = a
  b = b
  NoLog = NoLog
  Clients = {s1, s2, g}
  LogName <- TwoLogs
  LogProto <- TcpAndUdp
  ServerBuffer = 2
  ServerSlots = 2
  Sources = {f1, f2}
  Sessions = {s1, s2}
  Flows = {f1, f2}
  Home <- FlowEach
  FileName <- SameFile
  Global = g
  LogBufferSize = 2
  MaxPackets = 3
  TableSlots = 2
  Scenarios <- OneOnly
  LateData = FALSE
  OneAtATime = TRUE
SPECIFICATION Spec
INVARIANT BufferBounded
