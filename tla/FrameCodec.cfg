CONSTANTS
  Base = 2
  DefaultSize = 2
  Packets <- MCPackets
  MaxQueue = 2
  Junk = Junk
SPECIFICATION Spec
INVARIANTS
  RoomInBuffer
  StreamKept
PROPERTIES
  ImplementsPacketStream
  PacketsArrive
\* A client may have nothing more to send.  That nothing it has sent is stuck on the way is
\* PacketsArrive, which says more than that there is a next step.
CHECK_DEADLOCK FALSE
