CONSTANTS
  Apps = {tf2, csgo}
  Carried = {"reply", "short"}
  BroadcastCapacity = 2
  ChannelCapacity = 1
  MaxMessages = 3
  MaxJobs = 0
SPECIFICATION CallsSpec
INVARIANT OwnWelcome
CHECK_DEADLOCK FALSE
