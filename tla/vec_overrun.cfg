SPECIFICATION Spec
CONSTANTS
  Elems = {e1}
  Junk = Junk
  InitialCapacity = 1
  MaxCapacity = 4
  MaxVersion = 5
  Iters = {}
INVARIANTS ElementsInBlock
