SPECIFICATION Spec
CONSTANTS
  w1 = w1
  w2 = w2
  Workers <- TwoWorkers
  PingTotal = 1
  MaxSeq = 3
  MaxClientSeq = 2
SYMMETRY Symmetric
INVARIANTS
  HandledInOrder
\* The server may have used up its numbers.
CHECK_DEADLOCK FALSE
