\* A full receive queue leaves the errors of one frame to the next.
SPECIFICATION Spec
CONSTANTS
  MAXPACKETQUEUE = 3
  MyId = 5
  SEND_DELAY = 1
  ERR_RANGE = 256
  Frames <- ReceiveFrames
  FrameErrors = {0, 32}
  AppPackets <- NoPackets
  NoPacket = NoPacket
PROPERTY GoodFrameIsKept
