SPECIFICATION Spec
CONSTANTS
  Keys <- MCKeys
  LastByte = 5
  Values = {v1}
  NoValue = NoValue
  Fanout <- Tiny
  CountModulus = 7
  MaxPrefix = 1
  NodesPerTier = 6
  ART_MAX_DEPTH = 3
  Iters = {}
  NULL = NULL
PROPERTIES FailedDeletionKeeps
