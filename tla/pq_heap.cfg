SPECIFICATION PSpec
CONSTANTS
  e1 = e1
  e2 = e2
  e3 = e3
  Elems = {e1, e2, e3}
  Rank <- RankTotal
  Junk = Junk
  InitialCapacity = 4
  MaxCapacity = 8
  MaxVersion = 6
  Iters = {i1}
INVARIANTS HeapInvariant
PROPERTIES ImplementsPriorityBag SiftsEnd
