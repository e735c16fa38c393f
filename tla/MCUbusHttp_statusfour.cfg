CONSTANTS
  provider = provider
  browser = browser
  id1 = id1
  id2 = id2
  uci = uci
  NoOne = NoOne
  NoReply = NoReply
  NoCall = NoCall
  Vacant = Vacant
  Daemon = Daemon
  Invalid = Invalid
  NotFound = NotFound
  Denied = Denied
  Paths = {uci}
  Ids = {id1, id2}
  Codes = {Invalid, NotFound, Denied}
  Clients = {provider}
SPECIFICATION Spec

PROPERTY StatusFourIsAboutTheSection
