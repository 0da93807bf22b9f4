SPECIFICATION Spec
CONSTANTS
  a = a
  b = b
  c = c
  nan = nan
  Items = {a, b, c, nan}
  Score <- TwoScores
  Text <- TwoTexts
  NaNs = {nan}
  Bounds = {1, 2}
  Ids = {n1, n2, n3}
  Header = Header
  Null = Null
  MaxLevel = 2
  MaxVersion = 4
  Iters = {i1}
SYMMETRY IdSymmetry
INVARIANTS LevelsNested RangeExact NoLeak IteratorExact
PROPERTIES ImplementsSortedBag
