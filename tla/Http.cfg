CONSTANTS
  w1 = w1
  w2 = w2
  Streams <- ShortStreams
  MaxLength = 3
  Pool <- TwoWorkers
SPECIFICATION FairSpec
INVARIANTS
  HandledAsSent
  ClosesByKeepAliveRule
  OneResponsePerRequest
PROPERTIES
  AllHandled
  ReachesSend
CHECK_DEADLOCK FALSE
