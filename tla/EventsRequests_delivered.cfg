SPECIFICATION FairSpec
CONSTANTS
  v1 = v1
  v2 = v2
  Viewers = {v2}
  FollowUpViewers = {v2}
  Windows <- OneWindow
  ApiRequests <- ApiRequestsMade
  Tracesets <- AddedTraces
  MaxRequests = 6
  MaxAsked = 4
  CHUNK_NUM_EVENTS = 2
  ltt_time_infinite <- Infinite
  G_MAXUINT <- MaxUInt
INVARIANTS IdleMatchesList HooksBracketDelivery
PROPERTIES ImplementsDelivery EventuallyServed
CHECK_DEADLOCK FALSE
