SPECIFICATION ASpec
CONSTANTS
  ch1 = ch1
  ch2 = ch2
  Modulus = 64
  Word = 4
  Ids = {b1, b2, b3}
  Sizes = {0, 5, 61}
  Counts = {0, 1, 3}
  Null = Null
  Payload = Payload
  PoolCapacities = {1, 4}
  BlockSizes = {1, 17, 61}
  Align = 8
  Addresses = {8, 12}
  ArenaCapacities = {5, 24}
  Requests = {0, 1, 8, 9, 25, 60}
  MaxBlocks = 4
  Texts <- MCTexts
  Nul = Nul
  Junk = Junk
  INITIAL_CAPACITY = 1
  MaxCapacity = 4
  StructSize = 3
INVARIANTS TelemetryExact HeapOwned FreeListExact BlocksApart
PROPERTIES ImplementsBlockPool
