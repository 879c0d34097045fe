CONSTANTS
  NONE = NONE
  NoCall = NoCall
  Unreadable = Unreadable
  KEMsgServiceMethod = sm
  ReplyKind = reply
  Kinds = {sm, reply}
  JobNames = {}
  Receivers = {a, b}
  Multi = {a, b}
  Inner = b
  Outer = a
  JobIds <- Ids
  Shard <- OneShard
  Parent <- Nested
  MultiCapacity = 1
  BroadcastCapacity = 1
  RestCapacity = 1
  MaxMessages = 4
  MaxParts = 3
  Talkative = FALSE
SPECIFICATION Spec

PROPERTIES CallsEnd
CHECK_DEADLOCK FALSE
