CONSTANTS
  here = here
  h1 = h1
  h2 = h2
  Cases <- Everything
  MaxLines = 3
  Local = here
  DefaultDuration = 5
  Multiport = FALSE
SPECIFICATION FairSpec
CHECK_DEADLOCK FALSE
INVARIANTS
  CommandsTypeOK
  HeadersFit
  ShapesOwn
  PayloadKept
PROPERTIES
  CommandsAnswered
