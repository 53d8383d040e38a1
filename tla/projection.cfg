SPECIFICATION ProjectionSpec
CONSTANTS
  Calls = {c1, c2}
  MaxMessages = 4
  MaxSize = 2
  MaxBatch = 2
  MaxResyncs = 1
INVARIANTS SameAsSnapshot ViewsCurrent
SYMMETRY CallSymmetry
CHECK_DEADLOCK FALSE
