\* A queue of one that msgCallBack finds full while the pump is inside it.
CONSTANTS
  Senders = {trash}
  Rcv = rcv
  Resp = resp
  Bufs = {b1, b2, b3}
  NoBuf = NoBuf
  QueueCap = 1
  MaxCalls = 1
  CallbackInYield = TRUE
SPECIFICATION FairSpec
PROPERTIES ImplementsChannel DrainEnds Reconnects Drained
