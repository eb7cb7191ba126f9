\* Both queues: pings for everybody and packets for others, errors, one packet
\* of an application, which with the replies fills the send queue.
SPECIFICATION FairSpec
CONSTANTS
  MAXPACKETQUEUE = 2
  MyId = 5
  SEND_DELAY = 1
  ERR_RANGE = 2
  Frames <- ReceiveFrames
  FrameErrors = {0, 1}
  AppPackets <- OnePacket
  NoPacket = NoPacket
INVARIANT TypeOK NoLockNeeded
PROPERTY ReceiveQueueIsFifo SendQueueIsFifo ReceivedIsHandled QueuedIsSent
