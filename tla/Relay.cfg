SPECIFICATION FairSpec
CONSTANTS
  Scripts <- AllConnections
  ProxyUrl <- LongUrl
  MaxBody = 4
  Usize = 16
CHECK_DEADLOCK FALSE
INVARIANTS TypeOK RelayedInOrder BufferBounded 
PROPERTIES KeepAliveDelivers 
