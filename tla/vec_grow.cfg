SPECIFICATION SSpec
CONSTANTS
  Elems = {e1, e2}
  Junk = Junk
  InitialCapacity = 1
  MaxCapacity = 4
  MaxVersion = 6
  Iters = {i1}
INVARIANTS OverrunNeedsFailure IteratorExact LastInFirstOut
