SPECIFICATION QSpec
CONSTANTS
  Elems = {e1, e2}
  Junk = Junk
  Capacities = {0, 1, 3}
  MaxVersion = 8
  MaxHistory = 5
  Iters = {i1}
INVARIANTS TypeOK TailFollowsSize IteratorExact FirstInFirstOut
PROPERTIES ImplementsDeque
