CONSTANTS
  uci = uci
  system = system
  id1 = id1
  id2 = id2
  denied = denied
  NotFound = NotFound
  NoCall = NoCall
  Success = Success
  Vacant = Vacant
  Daemon = Daemon
  Paths = {uci, system}
  Ids = {id1, id2}
  Codes = {NotFound, denied}
  SeqSize = 5
  Patience = 2
  MaxSent = 6
  MaxFaults = 2
SPECIFICATION FairSpec
INVARIANTS TypeOK NothingLeftBehind
PROPERTIES OnlyOwnReplies ImplementsCall CallsReturn
CHECK_DEADLOCK FALSE
