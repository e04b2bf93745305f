SPECIFICATION FairSpec
CONSTANTS
  Searchers <- OneSearcher
  OtherKinds <- AllKinds
  InboxSize = 1
CHECK_DEADLOCK FALSE
PROPERTY ExitsIfUnavailable
