\* Three devices, fourteen bodies, three answers and any attribute of them malformed.
SPECIFICATION Spec
CONSTANTS
  Code <- CodeOf
  Other = Other
  Capital <- CapitalOf
  MaxName = 2
  Devices <- Catalogs
  Bodies <- Requests
  Garbage = Garbage
  Answers <- Values
  Statuses = {2, 4, 6, 9}
  MaxChanges = 2
INVARIANTS
  DeliveredAsSent
  RepliesAreFaithful
PROPERTIES
  PublishedIsComplete
CHECK_DEADLOCK FALSE
