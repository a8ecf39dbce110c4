SPECIFICATION Spec
CONSTANTS
  Lengths = {0, 1, 4, 5, 6, 10, 11}
  BufferSize = 5
INVARIANTS ContentKept CutAsCounted SizeKept
PROPERTY CopyEnds
