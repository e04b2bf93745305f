SPECIFICATION FairSpec
CONSTANTS
  Bad = Bad
  Resolve <- Hosts
  Lines <- AllLines
  Own <- TwoConns
  Streams <- OneStream
  Limit = 2
  Searchers <- OneSearcher
  OtherKinds <- FullOnly
  InboxSize = 1
CHECK_DEADLOCK FALSE
INVARIANTS TypeOK AnnouncedIsServed 
   
