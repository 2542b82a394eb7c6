SPECIFICATION FairSpec
CONSTANTS
  t1 = t1
  t2 = t2
  t3 = t3
  b1 = b1
  b2 = b2
  state1 = state1
  state2 = state2
  stats1 = stats1
  Traces = {t1, t2, t3}
  Tabs = {b1, b2}
  Viewers = {state1, state2, stats1}
  module <- ModuleOf
  tab <- TabOf
  Events <- EventsOf
  has_precomputed_states = {t3}
  InitialTraceset <- FirstTwo
  RemovableTraces = {t1, t2, t3}
  MaxChanges <- Changes
  CHUNK_NUM_EVENTS = 2
INVARIANTS IdleHasRequests NotificationsHaveRequests NoDuplicateComputation InProgressIsServed RedrawnOncePrecomputed
PROPERTIES ImplementsPrecomputation EventuallyDrawn
CHECK_DEADLOCK FALSE
