\* Two calls of each producer, the library on a thread of its own, and a heap
\* one block smaller than the queue and the callers can use.
CONSTANTS
  Senders = {trash}
  Rcv = rcv
  Resp = resp
  Bufs = {b1, b2, b3}
  NoBuf = NoBuf
  QueueCap = 2
  MaxCalls = 2
  CallbackInYield = FALSE
SPECIFICATION Spec
SYMMETRY BufSymmetry
INVARIANTS TypeOK OneOwner ReturnCodeHonest SessionTornDown Conservation LossEndsDrain
