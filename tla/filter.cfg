CONSTANTS
  JobIds = {j1, j2}
  NONE = NONE
  Kinds = {sm, k}
  KEMsgServiceMethod = sm
  JobNames = {n}
  Unreadable = Unreadable
  Receivers = {r1, r2}
  MultiCapacity = 1
  BroadcastCapacity = 2
  RestCapacity = 2
  Shard <- OneShard
  MaxMessages = 3
SPECIFICATION FairFilterSpec
INVARIANTS TypeOK OneAnswer InOrder Exclusive BorrowedEntryStays
PROPERTIES NoMessageVanishes DispatchCompletes
CHECK_DEADLOCK FALSE
