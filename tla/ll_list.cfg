SPECIFICATION Spec
CONSTANTS
  Elems = {e1, e2}
  Ids = {n1, n2, n3}
  Null = Null
  MaxVersion = 6
  Iters = {i1}
INVARIANTS NoLeak IteratorExact
PROPERTIES ImplementsLifo
