SPECIFICATION Spec
CONSTANTS
  TraceNb = 4
  Unit = 24504480
  SeqMod = 8
  Traffics <- AllTraffics
INVARIANTS MessagesAreTransmissions ExchangesAreCausal DriftsAreBounded TracesAreRelated
CHECK_DEADLOCK FALSE
