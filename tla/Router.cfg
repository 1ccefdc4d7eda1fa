CONSTANTS
  p1 = p1  p2 = p2  a = a  b = b
  Pipes <- MCPipes
  Names <- MCNames
  UpLimit = 1
  DownLimit = 2
  MaxSent = 3
  None = None
SPECIFICATION FairSpec
CHECK_DEADLOCK FALSE
INVARIANTS
  InOrder
PROPERTIES
  ImplementsMessageService
  NobodyStuck
