SPECIFICATION Spec
CONSTANTS
  k1 = k1
  k2 = k2
  k3 = k3
  k4 = k4
  Keys = {k1, k2, k3}
  Values = {v1, v2}
  NoKey = NoKey
  NoValue = NoValue
  Hash <- HashPair
  InitCaps = {0, 2, 3}
  MaxCapacity = 8
  MaxVersion = 4
  Iters = {}
INVARIANTS TypeOK UniqueKeys RoomToProbe NoLeak
PROPERTIES ImplementsKVStore CallsReturn
