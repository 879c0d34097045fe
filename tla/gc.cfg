CONSTANTS
  Apps = {tf2}
  Carried = {"reply", "garbled", "invalid", "short"}
  BroadcastCapacity = 2
  ChannelCapacity = 1
  MaxMessages = 2
  MaxJobs = 2
SPECIFICATION CallsSpec
INVARIANTS CallTypeOK RepliesArriveInOrder OwnAnswer NoAnswerLost
PROPERTIES HandshakeEnds CallsEnd ImplementsRequestReply
CHECK_DEADLOCK FALSE
