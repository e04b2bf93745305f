SPECIFICATION FairSpec
CONSTANTS
  Searchers <- TwoSearchers
  OtherKinds <- AllKinds
  InboxSize = 2
CHECK_DEADLOCK FALSE
INVARIANTS TypeOK EndsOnlyWhenAsked
PROPERTIES ShutdownEnds StartupCompletes SearchesDealtWith BroadcastsResume
