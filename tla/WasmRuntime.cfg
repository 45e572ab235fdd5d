CONSTANTS
    w1 = w1
    w2 = w2
    w3 = w3
    w4 = w4
    long1 = long1
    long2 = long2
    HeapBase = 128
    PageSize = 64
    AddressLimit = 480
    MaxRequest = 160
    FixedBase = 16
    FixedCapacity = 104
    Keys <- MCKeys
    KeyLen <- MCKeyLen
    KeyHash <- MCKeyHash
    TagUnit = 64
    IndexFirst = 4
    EntriesFirst = 2
    GroupWidth = 2
    IndexLimit = 8
    EntriesLimit = 160
    ArenaSpan = 4
    MaxInstances = 2
    MaxElements = 5
    Programs <- MCPrograms
SPECIFICATION Spec
CHECK_DEADLOCK FALSE
INVARIANTS
  HeapSound ArrayHolds MapHolds HandlesResolve
