SPECIFICATION Spec
CONSTANTS
  k1 = k1
  k2 = k2
  k3 = k3
  k4 = k4
  Keys = {k1, k2, k3, k4}
  Values = {v1}
  NoKey = NoKey
  NoValue = NoValue
  Hash <- HashCluster
  InitCaps = {6}
  MaxCapacity = 6
  MaxVersion = 1
  Iters = {}
INVARIANTS FindsStoredKeys
